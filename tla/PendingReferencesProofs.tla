---------------------- MODULE PendingReferencesProofs -----------------------
(***************************************************************************)
(* The patience of the resolver, for any number of items, attempts and     *)
(* failures, and any ttl, base and cap.                                    *)
(*                                                                         *)
(* Shifted and Series are recursive functions; facts about all numbers     *)
(* are shown by the least number for which they fail (LeastNumber).        *)
(***************************************************************************)
EXTENDS PendingReferences, FiniteSetTheorems, SequenceTheorems, TLAPS

-----------------------------------------------------------------------------
\* The delays and their sum.

\* A set of numbers has a least one.
LEMMA LeastNumber ==
  ASSUME NEW T, T \subseteq Nat, T # {}
  PROVE  \E n \in T : \A k \in T : n <= k
<1> DEFINE Less == {ss \in Nat \X Nat : ss[1] < ss[2]}
<1>1. IsWellFoundedOn(Less, Nat)
  BY NatLessThanWellFounded DEF OpToRel
<1>2. \A n, k \in Nat : n < k => <<n, k>> \in Less
  OBVIOUS
<1> HIDE DEF Less
<1>3. \E n \in T : \A k \in T : ~(<<k, n>> \in Less)
  BY <1>1, WFMin
<1>4. PICK n \in T : \A k \in T : ~(<<k, n>> \in Less)
  BY <1>3
<1>5. ASSUME NEW k \in T PROVE n <= k
  <2>1. n \in Nat /\ k \in Nat /\ ~(<<k, n>> \in Less)
    BY <1>4
  <2>2. ~(k < n)
    BY <1>2, <2>1
  <2> QED
    BY <2>1, <2>2
<1> QED
  BY <1>5

\* A function that begins with a and goes on as e says, up to k.
Recurs(f, a, e, k) ==
  f = [n \in 0..k |-> IF n = 0 THEN a ELSE e[<<n - 1, f[n - 1]>>]]

\* Two such functions agree wherever both are defined,
LEMMA OneRecursion ==
  ASSUME NEW a, NEW e, NEW k \in Nat, NEW l \in Nat, NEW f, NEW g,
         Recurs(f, a, e, k), Recurs(g, a, e, l)
  PROVE  \A n \in Nat : n <= k /\ n <= l => f[n] = g[n]
<1> DEFINE Apart == {n \in Nat : n <= k /\ n <= l /\ f[n] # g[n]}
<1> SUFFICES ASSUME Apart # {} PROVE FALSE
  OBVIOUS
<1>1. PICK n \in Apart : \A i \in Apart : n <= i
  <2> HIDE DEF Apart
  <2>1. Apart \subseteq Nat
    BY DEF Apart
  <2> QED
    BY <2>1, LeastNumber
<1>2. n \in 0..k /\ n \in 0..l /\ n \in Nat
  OBVIOUS
<1>3. /\ f[n] = IF n = 0 THEN a ELSE e[<<n - 1, f[n - 1]>>]
      /\ g[n] = IF n = 0 THEN a ELSE e[<<n - 1, g[n - 1]>>]
  BY <1>2 DEF Recurs
<1>4. n # 0
  BY <1>3
<1>5. n - 1 \in Nat /\ n - 1 < n
  BY <1>2, <1>4
<1>6. f[n - 1] = g[n - 1]
  BY <1>1, <1>2, <1>5
<1> QED
  BY <1>3, <1>4, <1>6

\* and there is one up to every number.
LEMMA RecursionExists ==
  ASSUME NEW a \in Nat, NEW e \in [Nat \X Nat -> Nat], NEW k \in Nat
  PROVE  \E f : Recurs(f, a, e, k) /\ \A n \in 0..k : f[n] \in Nat
<1> DEFINE Good(n) == \E f : Recurs(f, a, e, n) /\ \A i \in 0..n : f[i] \in Nat
           Missing == {n \in Nat : ~Good(n)}
<1> SUFFICES ASSUME Missing # {} PROVE FALSE
  OBVIOUS
<1>1. PICK n \in Missing : \A i \in Missing : n <= i
  <2> HIDE DEF Missing
  <2>1. Missing \subseteq Nat
    BY DEF Missing
  <2> QED
    BY <2>1, LeastNumber
<1>2. PICK g : n > 0 => Recurs(g, a, e, n - 1) /\ \A i \in 0..(n - 1) : g[i] \in Nat
  <2>1. CASE n = 0
    BY <2>1
  <2>2. CASE n > 0
    <3>1. n - 1 \in Nat /\ n - 1 \notin Missing
      BY <1>1, <2>2
    <3> QED
      BY <3>1
  <2> QED
    BY <2>1, <2>2
<1> DEFINE f == [i \in 0..n |-> IF i = 0 THEN a ELSE e[<<i - 1, g[i - 1]>>]]
<1>3. ASSUME NEW i \in 0..n, i # 0
      PROVE  i - 1 \in 0..(n - 1) /\ i - 1 \in 0..n /\ n > 0
  BY <1>3
<1>4. ASSUME NEW i \in 0..n, i # 0 PROVE f[i - 1] = g[i - 1]
  <2>1. i - 1 \in 0..(n - 1) /\ i - 1 \in 0..n /\ n > 0
    BY <1>3, <1>4
  <2>2. g[i - 1] = IF i - 1 = 0 THEN a ELSE e[<<(i - 1) - 1, g[(i - 1) - 1]>>]
    BY <1>2, <2>1 DEF Recurs
  <2> QED
    BY <2>1, <2>2
<1>5. \A i \in 0..n : f[i] \in Nat
  <2> TAKE i \in 0..n
  <2>1. CASE i = 0
    BY <2>1
  <2>2. CASE i # 0
    <3>1. g[i - 1] \in Nat /\ i - 1 \in Nat
      BY <1>2, <1>3, <2>2
    <3> QED
      BY <2>2, <3>1
  <2> QED
    BY <2>1, <2>2
<1>6. f = [i \in 0..n |-> IF i = 0 THEN a ELSE e[<<i - 1, f[i - 1]>>]]
  BY <1>4
<1> HIDE DEF f
<1>7. Recurs(f, a, e, n)
  BY <1>6 DEF Recurs
<1>8. Good(n)
  BY <1>5, <1>7
<1> QED
  BY <1>1, <1>8

\* So there is one on all numbers.
LEMMA Recursion ==
  ASSUME NEW a \in Nat, NEW e \in [Nat \X Nat -> Nat]
  PROVE  \E f \in [Nat -> Nat] :
           f[0] = a /\ \A n \in Nat : f[n + 1] = e[<<n, f[n]>>]
<1> DEFINE F == [i \in Nat |-> (CHOOSE f : Recurs(f, a, e, i))[i]]
<1>1. ASSUME NEW i \in Nat, NEW f, NEW k \in Nat, Recurs(f, a, e, k), i <= k
      PROVE  F[i] = f[i]
  <2>1. PICK g : g = CHOOSE h : Recurs(h, a, e, i)
    OBVIOUS
  <2>2. Recurs(g, a, e, i)
    BY <2>1, RecursionExists
  <2>3. F[i] = g[i]
    BY <2>1
  <2>4. i <= i
    OBVIOUS
  <2> QED
    BY <1>1, <2>2, <2>3, <2>4, OneRecursion
<1>2. ASSUME NEW i \in Nat
      PROVE  F[i] = (IF i = 0 THEN a ELSE e[<<i - 1, F[i - 1]>>]) /\ F[i] \in Nat
  <2> HIDE DEF F
  <2>1. PICK f : Recurs(f, a, e, i) /\ \A n \in 0..i : f[n] \in Nat
    BY RecursionExists
  <2>2. i \in 0..i /\ i <= i
    OBVIOUS
  <2>3. f[i] = IF i = 0 THEN a ELSE e[<<i - 1, f[i - 1]>>]
    BY <2>1, <2>2 DEF Recurs
  <2>4. F[i] = f[i]
    BY <1>1, <2>1, <2>2
  <2>5. i # 0 => F[i - 1] = f[i - 1]
    <3>1. i # 0 => i - 1 \in Nat /\ i - 1 <= i
      OBVIOUS
    <3> QED
      BY <1>1, <2>1, <3>1
  <2> QED
    BY <2>1, <2>2, <2>3, <2>4, <2>5
<1>3. F \in [Nat -> Nat]
  BY <1>2
<1> HIDE DEF F
<1>4. F[0] = a
  BY <1>2
<1>5. ASSUME NEW n \in Nat PROVE F[n + 1] = e[<<n, F[n]>>]
  <2>1. n + 1 \in Nat /\ n + 1 # 0 /\ (n + 1) - 1 = n
    OBVIOUS
  <2> QED
    BY <1>2, <2>1
<1> QED
  BY <1>3, <1>4, <1>5

\* Base << n doubles with n, and is positive.
LEMMA ShiftedDoubles ==
  /\ Shifted[0] = Base
  /\ \A n \in Nat : Shifted[n] \in Nat /\ Shifted[n] >= 1 /\ Shifted[n + 1] = 2 * Shifted[n]
<1> DEFINE e == [p \in Nat \X Nat |-> 2 * p[2]]
<1>1. Base \in Nat /\ Base >= 1
  BY PendingReferencesAssumption
<1>2. e \in [Nat \X Nat -> Nat]
  OBVIOUS
<1>3. PICK f \in [Nat -> Nat] : f[0] = Base /\ \A n \in Nat : f[n + 1] = e[<<n, f[n]>>]
  <2> HIDE DEF e
  <2>1. Base \in Nat
    BY <1>1
  <2> QED
    BY <1>2, <2>1, Recursion
<1>4. ASSUME NEW n \in Nat
      PROVE  f[n] = IF n = 0 THEN Base ELSE 2 * f[n - 1]
  <2>1. n # 0 => n - 1 \in Nat /\ f[n - 1] \in Nat /\ (n - 1) + 1 = n
    OBVIOUS
  <2>2. n # 0 => f[n] = e[<<n - 1, f[n - 1]>>]
    BY <1>3, <2>1
  <2> QED
    BY <1>3, <2>1, <2>2
<1>5. f = [n \in Nat |-> IF n = 0 THEN Base ELSE 2 * f[n - 1]]
  BY <1>4
<1>6. Shifted = [n \in Nat |-> IF n = 0 THEN Base ELSE 2 * Shifted[n - 1]]
  BY <1>5 DEF Shifted
<1>7. Shifted[0] = Base
  BY <1>6
<1>8. ASSUME NEW n \in Nat PROVE Shifted[n + 1] = 2 * Shifted[n]
  <2>1. n + 1 \in Nat /\ n + 1 # 0 /\ (n + 1) - 1 = n
    OBVIOUS
  <2> QED
    BY <1>6, <2>1
<1>9. ASSUME NEW n \in Nat PROVE Shifted[n] \in Nat /\ Shifted[n] >= 1
  <2> DEFINE Bad == {k \in Nat : ~(Shifted[k] \in Nat /\ Shifted[k] >= 1)}
  <2> SUFFICES ASSUME Bad # {} PROVE FALSE
    OBVIOUS
  <2>1. PICK k \in Bad : \A i \in Bad : k <= i
    <3> HIDE DEF Bad
    <3>1. Bad \subseteq Nat
      BY DEF Bad
    <3> QED
      BY <3>1, LeastNumber
  <2>2. k # 0
    BY <1>1, <1>7
  <2>3. k - 1 \in Nat /\ k - 1 < k /\ (k - 1) + 1 = k
    BY <2>2
  <2>4. Shifted[k - 1] \in Nat /\ Shifted[k - 1] >= 1
    BY <2>1, <2>3
  <2>5. Shifted[k] = 2 * Shifted[k - 1]
    BY <1>8, <2>3
  <2> QED
    BY <2>4, <2>5
<1> QED
  BY <1>7, <1>8, <1>9

\* A longer shift gives no shorter delay.
LEMMA ShiftedGrows ==
  ASSUME NEW n \in Nat, NEW k \in Nat, n <= k
  PROVE  Shifted[n] <= Shifted[k]
<1> DEFINE Bad == {i \in Nat : n <= i /\ ~(Shifted[n] <= Shifted[i])}
<1> SUFFICES ASSUME Bad # {} PROVE FALSE
  OBVIOUS
<1>1. PICK i \in Bad : \A j \in Bad : i <= j
  <2> HIDE DEF Bad
  <2>1. Bad \subseteq Nat
    BY DEF Bad
  <2> QED
    BY <2>1, LeastNumber
<1>2. i # n
  BY ShiftedDoubles
<1>3. i - 1 \in Nat /\ n <= i - 1 /\ i - 1 < i /\ (i - 1) + 1 = i
  BY <1>2
<1>4. Shifted[n] <= Shifted[i - 1]
  BY <1>1, <1>3
<1>5. Shifted[i] = 2 * Shifted[i - 1] /\ Shifted[i - 1] \in Nat /\ Shifted[n] \in Nat
  BY <1>3, ShiftedDoubles
<1> QED
  BY <1>4, <1>5

\* Every delay is a number, and none is longer than the longest.
LEMMA Delays ==
  ASSUME NEW n \in Nat
  PROVE  /\ BackoffDelay(n) \in Nat /\ BackoffDelay(n) >= 1
         /\ n <= MaxAttempts => BackoffDelay(n) <= LongestDelay
         /\ LongestDelay \in Nat
<1>1. MaxShift \in Nat /\ MaxAttempts \in Nat
  BY PendingReferencesAssumption
<1>2. Capped(n) \in Nat /\ Capped(MaxAttempts) \in Nat
  BY <1>1 DEF Capped
<1>3. n <= MaxAttempts => Capped(n) <= Capped(MaxAttempts)
  BY <1>1 DEF Capped
<1> QED
  BY <1>2, <1>3, ShiftedDoubles, ShiftedGrows DEF BackoffDelay, LongestDelay

\* The series is the sum of the delays.
LEMMA SeriesSums ==
  /\ Series[0] = 0
  /\ \A n \in Nat : Series[n] \in Nat /\ Series[n + 1] = Series[n] + BackoffDelay(n)
<1> DEFINE e == [p \in Nat \X Nat |-> p[2] + Shifted[Capped(p[1])]]
<1>1. ASSUME NEW n \in Nat PROVE Shifted[Capped(n)] \in Nat
  <2>1. Capped(n) \in Nat
    BY PendingReferencesAssumption DEF Capped
  <2> QED
    BY <2>1, ShiftedDoubles
<1>2. e \in [Nat \X Nat -> Nat]
  BY <1>1
<1>3. PICK f \in [Nat -> Nat] : f[0] = 0 /\ \A n \in Nat : f[n + 1] = e[<<n, f[n]>>]
  <2> HIDE DEF e
  <2>1. 0 \in Nat
    OBVIOUS
  <2> QED
    BY <1>2, <2>1, Recursion
<1>4. ASSUME NEW n \in Nat
      PROVE  f[n] = IF n = 0 THEN 0 ELSE f[n - 1] + Shifted[Capped(n - 1)]
  <2>1. n # 0 => n - 1 \in Nat /\ f[n - 1] \in Nat /\ (n - 1) + 1 = n
    OBVIOUS
  <2>2. n # 0 => f[n] = e[<<n - 1, f[n - 1]>>]
    BY <1>3, <2>1
  <2> QED
    BY <1>3, <2>1, <2>2
<1>5. f = [n \in Nat |-> IF n = 0 THEN 0 ELSE f[n - 1] + Shifted[Capped(n - 1)]]
  BY <1>4
<1>6. Series = [n \in Nat |-> IF n = 0 THEN 0 ELSE Series[n - 1] + Shifted[Capped(n - 1)]]
  BY <1>5 DEF Series
<1>7. Series[0] = 0
  BY <1>6
<1>8. ASSUME NEW n \in Nat PROVE Series[n + 1] = Series[n] + BackoffDelay(n)
  <2>1. n + 1 \in Nat /\ n + 1 # 0 /\ (n + 1) - 1 = n
    OBVIOUS
  <2> QED
    BY <1>6, <2>1 DEF BackoffDelay
<1>9. ASSUME NEW n \in Nat PROVE Series[n] \in Nat
  <2> DEFINE Bad == {k \in Nat : Series[k] \notin Nat}
  <2> SUFFICES ASSUME Bad # {} PROVE FALSE
    OBVIOUS
  <2>1. PICK k \in Bad : \A i \in Bad : k <= i
    <3> HIDE DEF Bad
    <3>1. Bad \subseteq Nat
      BY DEF Bad
    <3> QED
      BY <3>1, LeastNumber
  <2>2. k # 0
    BY <1>7
  <2>3. k - 1 \in Nat /\ k - 1 < k /\ (k - 1) + 1 = k
    BY <2>2
  <2>4. Series[k - 1] \in Nat
    BY <2>1, <2>3
  <2>5. Series[k] = Series[k - 1] + BackoffDelay(k - 1)
    BY <1>8, <2>3
  <2>6. BackoffDelay(k - 1) \in Nat
    BY <2>3, Delays
  <2> QED
    BY <2>4, <2>5, <2>6
<1> QED
  BY <1>7, <1>8, <1>9

-----------------------------------------------------------------------------
\* The invariant.

\* What is left to wait and what has passed make up the backoffs so far.
WaitedOut(i) == age[i] >= Ttl \/ age[i] + wait[i] >= Series[attempts[i]]

\* An entry of the batch tells the attempts as they are, its item had waited
\* its backoffs out at the tick, and what has passed since counts.
IsTrue(entry) ==
  /\ status[entry.item] # "ABSENT"
  /\ entry.attempts = attempts[entry.item]
  /\ entry.age >= Ttl \/ entry.age >= Series[entry.attempts]
  /\ age[entry.item] >= Ttl \/ age[entry.item] >= entry.age + elapsed

\* No item is in the batch twice, so handling one entry leaves the others true.
BatchInv ==
  pc = "batch" =>
    /\ \A n \in DOMAIN batch : IsTrue(batch[n])
    /\ \A k, n \in DOMAIN batch : k < n => batch[k].item # batch[n].item

PatienceInv ==
  /\ TypeOK
  /\ \A i \in Items : WaitedOut(i) /\ (status[i] = "ABSENT" => attempts[i] = 0)
  /\ BatchInv

Entries == [item : Items, attempts : 0..MaxAttempts, age : 0..Ttl]

\* Nothing is parked yet.
LEMMA InitPatience == Init => PatienceInv
<1> SUFFICES ASSUME Init PROVE PatienceInv
  OBVIOUS
<1>1. TypeOK
  <2>1. LongestDelay \in Nat
    BY Delays
  <2>2. batch \in Seq(Entries) /\ Len(batch) = 0
    BY DEF Init
  <2> QED
    BY <2>1, <2>2, PendingReferencesAssumption DEF Init, TypeOK, Entries
<1>2. \A i \in Items : WaitedOut(i) /\ (status[i] = "ABSENT" => attempts[i] = 0)
  BY SeriesSums DEF Init, WaitedOut
<1>3. BatchInv
  BY DEF Init, BatchInv
<1> QED
  BY <1>1, <1>2, <1>3 DEF PatienceInv

\* A tick may begin and end with what is left of a batch thrown away.
LEMMA EndKeeps ==
  ASSUME PatienceInv, batch' = <<>>, pc' = "ticker", elapsed' = 0,
         failures' \in 0..MaxFailures, UNCHANGED <<status, there, schedule, age>>
  PROVE  PatienceInv'
<1>1. TypeOK'
  <2>1. batch' \in Seq(Entries) /\ Len(batch') = 0 /\ elapsed' \in 0..LongestDelay
    BY Delays
  <2> QED
    BY <2>1, PendingReferencesAssumption DEF PatienceInv, TypeOK, schedule, Entries
<1>2. \A i \in Items : WaitedOut(i)' /\ (status'[i] = "ABSENT" => attempts'[i] = 0)
  BY DEF PatienceInv, WaitedOut, schedule
<1>3. BatchInv'
  BY DEF BatchInv
<1> QED
  BY <1>1, <1>2, <1>3 DEF PatienceInv

\* A new item has not waited, and is in no batch.
LEMMA ParkKeeps ==
  ASSUME PatienceInv, NEW i \in Items, Park(i)
  PROVE  PatienceInv'
<1> USE DEF PatienceInv
<1>1. TypeOK'
  BY DEF Park, TypeOK, schedule, resolver
<1>2. ASSUME NEW j \in Items
      PROVE  WaitedOut(j)' /\ (status'[j] = "ABSENT" => attempts'[j] = 0)
  BY DEF Park, WaitedOut, schedule, TypeOK
<1>3. BatchInv'
  <2> SUFFICES ASSUME pc = "batch" PROVE BatchInv'
    BY DEF Park, resolver, BatchInv
  <2>1. UNCHANGED <<batch, pc, attempts, age, elapsed>>
    BY DEF Park, schedule, resolver
  <2>2. \A j : status[j] # "ABSENT" => status'[j] # "ABSENT"
    BY DEF Park, TypeOK
  <2>3. ASSUME NEW n \in DOMAIN batch PROVE IsTrue(batch[n])'
    BY <2>1, <2>2 DEF BatchInv, IsTrue
  <2> QED
    BY <2>1, <2>3 DEF BatchInv
<1> QED
  BY <1>1, <1>2, <1>3

\* A reference that arrives changes no schedule.
LEMMA ArriveKeeps ==
  ASSUME PatienceInv, NEW i \in Items, Arrive(i)
  PROVE  PatienceInv'
<1>1. TypeOK'
  BY DEF PatienceInv, Arrive, TypeOK, schedule, resolver
<1>2. ASSUME NEW j \in Items
      PROVE  WaitedOut(j)' /\ (status'[j] = "ABSENT" => attempts'[j] = 0)
  BY DEF PatienceInv, Arrive, WaitedOut, schedule
<1>3. BatchInv'
  BY DEF PatienceInv, Arrive, schedule, resolver, BatchInv, IsTrue
<1> QED
  BY <1>1, <1>2, <1>3 DEF PatienceInv

\* A batch is what the table says, of items that have waited.
LEMMA FindDueKeeps ==
  ASSUME PatienceInv, FindDue
  PROVE  PatienceInv'
<1>1. PICK oldest \in [1..BatchSize -> Due] :
        /\ IsOldest(oldest, Due)
        /\ batch' = [n \in 1..BatchSize |->
             [item |-> oldest[n], attempts |-> attempts[oldest[n]], age |-> age[oldest[n]]]]
  BY DEF FindDue
<1>2. BatchSize \in Nat /\ BatchSize <= Limit
  <2>1. IsFiniteSet(Items)
    BY PendingReferencesAssumption, FS_Interval DEF Items
  <2>2. IsFiniteSet(Due)
    BY <2>1, FS_Subset DEF Due, Parked
  <2>3. Cardinality(Due) \in Nat
    BY <2>2, FS_CardinalityType
  <2> QED
    BY <2>3, PendingReferencesAssumption DEF BatchSize
<1>3. \A n \in 1..BatchSize :
        oldest[n] \in Items /\ wait[oldest[n]] = 0 /\ status[oldest[n]] = "PENDING_REFERENCE"
  BY DEF Due, Parked
<1>4. \A n \in 1..BatchSize : batch'[n] \in Entries
  BY <1>1, <1>3 DEF PatienceInv, TypeOK, Entries
<1>5. batch' \in Seq(Entries) /\ Len(batch') = BatchSize /\ DOMAIN batch' = 1..BatchSize
  BY <1>1, <1>2, <1>4
<1>6. /\ elapsed' = 0 /\ pc' = "batch"
      /\ UNCHANGED <<status, there, attempts, wait, age, failures>>
  BY DEF FindDue, schedule
<1>7. TypeOK'
  <2>1. elapsed' \in 0..LongestDelay
    BY <1>6, Delays
  <2> QED
    BY <1>2, <1>5, <1>6, <2>1 DEF PatienceInv, TypeOK, Entries
<1>8. \A i \in Items : WaitedOut(i)' /\ (status'[i] = "ABSENT" => attempts'[i] = 0)
  BY <1>6 DEF PatienceInv, WaitedOut
<1>9. BatchInv'
  <2>1. ASSUME NEW n \in 1..BatchSize PROVE IsTrue(batch[n])'
    <3> DEFINE i == oldest[n]
    <3>1. batch'[n] = [item |-> i, attempts |-> attempts[i], age |-> age[i]]
      BY <1>1
    <3>2. i \in Items /\ wait[i] = 0 /\ status[i] # "ABSENT"
      BY <1>3
    <3> HIDE DEF i
    <3>3. age[i] \in Nat /\ attempts[i] \in Nat
      BY <3>2 DEF PatienceInv, TypeOK
    <3>4. age[i] >= Ttl \/ age[i] >= Series[attempts[i]]
      <4>1. age[i] >= Ttl \/ age[i] + wait[i] >= Series[attempts[i]]
        BY <3>2 DEF PatienceInv, WaitedOut
      <4> QED
        BY <3>2, <3>3, <4>1
    <3> QED
      BY <1>6, <3>1, <3>2, <3>3, <3>4 DEF IsTrue
  <2>2. ASSUME NEW k \in 1..BatchSize, NEW n \in 1..BatchSize, k < n
        PROVE  batch'[k].item # batch'[n].item
    <3>1. oldest[k] < oldest[n]
      <4>1. k \in 1..(n - 1) /\ n \in DOMAIN oldest
        BY <1>2, <2>2
      <4> QED
        BY <1>1, <4>1 DEF IsOldest
    <3>2. oldest[k] \in Int /\ oldest[n] \in Int
      BY <1>3, PendingReferencesAssumption DEF Items
    <3> QED
      BY <1>1, <3>1, <3>2
  <2> QED
    BY <1>5, <2>1, <2>2 DEF BatchInv
<1> QED
  BY <1>7, <1>8, <1>9 DEF PatienceInv

\* The first entry of a batch, and what is left behind it.
LEMMA BatchParts ==
  ASSUME PatienceInv, pc = "batch", batch # <<>>
  PROVE  /\ Head(batch) \in Entries /\ IsTrue(Head(batch))
         /\ Tail(batch) \in Seq(Entries) /\ Len(Tail(batch)) <= Limit
         /\ \A n \in DOMAIN Tail(batch) :
              /\ Tail(batch)[n] \in Entries /\ IsTrue(Tail(batch)[n])
              /\ Tail(batch)[n].item # Head(batch).item
         /\ \A k, n \in DOMAIN Tail(batch) :
              k < n => Tail(batch)[k].item # Tail(batch)[n].item
<1> DEFINE l == Len(batch)
           t == Tail(batch)
<1>1. batch \in Seq(Entries) /\ l \in Nat /\ l >= 1 /\ l <= Limit
  BY DEF PatienceInv, TypeOK, Entries
<1>2. /\ t \in Seq(Entries) /\ Len(t) = l - 1 /\ DOMAIN t = 1..(l - 1)
      /\ \A n \in 1..(l - 1) : t[n] = batch[n + 1]
  BY <1>1, HeadTailProperties
<1>3. Head(batch) = batch[1] /\ 1 \in DOMAIN batch /\ DOMAIN batch = 1..l
  BY <1>1
<1>4. /\ \A n \in DOMAIN batch : IsTrue(batch[n])
      /\ \A k, n \in DOMAIN batch : k < n => batch[k].item # batch[n].item
  BY DEF PatienceInv, BatchInv
<1> HIDE DEF t, l
<1>5. Head(batch) \in Entries /\ IsTrue(Head(batch))
  BY <1>1, <1>3, <1>4
<1>6. Len(t) <= Limit
  BY <1>1, <1>2, PendingReferencesAssumption
<1>7. ASSUME NEW n \in 1..(l - 1)
      PROVE  t[n] \in Entries /\ IsTrue(t[n]) /\ t[n].item # Head(batch).item
  <2>1. n + 1 \in 1..l /\ 1 < n + 1
    BY <1>1
  <2> QED
    BY <1>2, <1>3, <1>4, <2>1
<1>8. ASSUME NEW k \in 1..(l - 1), NEW n \in 1..(l - 1), k < n
      PROVE  t[k].item # t[n].item
  <2>1. k + 1 \in 1..l /\ n + 1 \in 1..l /\ k + 1 < n + 1
    BY <1>1, <1>8
  <2> QED
    BY <1>2, <1>3, <1>4, <2>1
<1> QED
  BY <1>2, <1>5, <1>6, <1>7, <1>8 DEF t

\* Handling an entry leaves true what the others say, since none is about the
\* same item.
LEMMA RestStaysTrue ==
  ASSUME PatienceInv, ResolveOne,
         \A i \in Items : i # Head(batch).item =>
           status'[i] = status[i] /\ attempts'[i] = attempts[i]
  PROVE  BatchInv'
<1>1. pc = "batch" /\ batch # <<>> /\ batch' = Tail(batch) /\ UNCHANGED <<age, elapsed>>
  BY DEF ResolveOne
<1>2. /\ \A n \in DOMAIN batch' :
           batch'[n] \in Entries /\ IsTrue(batch'[n]) /\ batch'[n].item # Head(batch).item
      /\ \A k, n \in DOMAIN batch' : k < n => batch'[k].item # batch'[n].item
  BY <1>1, BatchParts
<1>3. ASSUME NEW n \in DOMAIN batch' PROVE IsTrue(batch[n])'
  <2>1. batch'[n].item \in Items
    BY <1>2 DEF Entries
  <2> QED
    BY <1>1, <1>2, <2>1 DEF IsTrue
<1> QED
  BY <1>2, <1>3 DEF BatchInv

\* An item that is given up or resolved is no longer parked, and one that is
\* rescheduled has waited out the series so far.
LEMMA ResolveOneKeeps ==
  ASSUME PatienceInv, ResolveOne
  PROVE  PatienceInv'
<1> DEFINE b == Head(batch)
<1>1. /\ pc = "batch" /\ batch # <<>> /\ batch' = Tail(batch)
      /\ UNCHANGED <<there, age, pc, elapsed, failures>>
      /\ GiveUp(b) \/ Resolve(b) \/ Reschedule(b)
  BY DEF ResolveOne
<1>2. b \in Entries /\ IsTrue(b) /\ batch' \in Seq(Entries) /\ Len(batch') <= Limit
  BY <1>1, BatchParts
<1>3. b.item \in Items /\ b.attempts \in 0..MaxAttempts /\ b.age \in 0..Ttl
  BY <1>2 DEF Entries
<1>4. TypeOK /\ \A i \in Items : WaitedOut(i) /\ (status[i] = "ABSENT" => attempts[i] = 0)
  BY DEF PatienceInv
<1>5. ASSUME NEW s \in {"RESOLVED", "REFERENCE_NOT_FOUND"},
             status' = [status EXCEPT ![b.item] = s], UNCHANGED schedule
      PROVE  PatienceInv'
  <2> HIDE DEF b
  <2>1. TypeOK'
    BY <1>1, <1>2, <1>4, <1>5 DEF TypeOK, schedule, Entries
  <2>2. \A i \in Items : WaitedOut(i)' /\ (status'[i] = "ABSENT" => attempts'[i] = 0)
    BY <1>1, <1>4, <1>5 DEF TypeOK, WaitedOut, schedule
  <2>3. \A i \in Items : i # b.item => status'[i] = status[i] /\ attempts'[i] = attempts[i]
    BY <1>4, <1>5 DEF TypeOK, schedule
  <2>4. BatchInv'
    BY <2>3, RestStaysTrue DEF b
  <2> QED
    BY <2>1, <2>2, <2>4 DEF PatienceInv
<1>6. CASE Reschedule(b)
  <2> DEFINE j == b.item
             n == b.attempts
             d == BackoffDelay(n)
  <2> HIDE DEF b
  <2>1. /\ attempts' = [attempts EXCEPT ![j] = @ + 1]
        /\ wait' = [wait EXCEPT ![j] = IF d > elapsed THEN d - elapsed ELSE 0]
        /\ UNCHANGED status /\ ~(n >= MaxAttempts)
    BY <1>6 DEF Reschedule, Expired
  <2>2. /\ j \in Items /\ n \in Nat /\ n < MaxAttempts /\ MaxAttempts \in Nat
        /\ Ttl \in Nat /\ b.age \in Nat
    BY <1>3, <2>1, PendingReferencesAssumption
  <2>3. d \in Nat /\ d <= LongestDelay /\ LongestDelay \in Nat
    BY <2>2, Delays
  <2>4. Series[n + 1] = Series[n] + d /\ Series[n] \in Nat
    BY <2>2, SeriesSums
  <2>5. /\ n = attempts[j] /\ status[j] # "ABSENT"
        /\ b.age >= Ttl \/ b.age >= Series[n]
        /\ age[j] >= Ttl \/ age[j] >= b.age + elapsed
    BY <1>2 DEF IsTrue
  <2> HIDE DEF j, n, d
  <2>6. age[j] \in Nat /\ elapsed \in Nat
    BY <1>4, <2>2, <2>3 DEF TypeOK
  <2>7. attempts'[j] = n + 1 /\ wait'[j] = IF d > elapsed THEN d - elapsed ELSE 0
    BY <1>4, <2>1, <2>2, <2>5 DEF TypeOK
  <2>8. attempts'[j] \in 0..MaxAttempts /\ wait'[j] \in 0..LongestDelay
    BY <2>2, <2>3, <2>6, <2>7
  <2>9. ASSUME NEW i \in Items, i # j
        PROVE  attempts'[i] = attempts[i] /\ wait'[i] = wait[i]
    BY <1>4, <2>1, <2>9 DEF TypeOK
  <2>10. TypeOK'
    <3>1. attempts' \in [Items -> 0..MaxAttempts]
      BY <1>4, <2>1, <2>8, <2>9 DEF TypeOK
    <3>2. wait' \in [Items -> 0..LongestDelay]
      BY <1>4, <2>1, <2>8, <2>9 DEF TypeOK
    <3> QED
      BY <1>1, <1>2, <1>4, <2>1, <3>1, <3>2 DEF TypeOK, Entries
  <2>11. age[j] >= Ttl \/ age[j] + wait'[j] >= Series[n + 1]
    BY <2>2, <2>3, <2>4, <2>5, <2>6, <2>7
  <2>12. ASSUME NEW i \in Items
         PROVE  WaitedOut(i)' /\ (status'[i] = "ABSENT" => attempts'[i] = 0)
    <3>1. CASE i = j
      BY <1>1, <2>1, <2>5, <2>7, <2>11, <3>1 DEF WaitedOut
    <3>2. CASE i # j
      BY <1>1, <1>4, <2>1, <2>9, <3>2 DEF WaitedOut
    <3> QED
      BY <3>1, <3>2
  <2>13. BatchInv'
    BY <2>1, <2>9, RestStaysTrue DEF b, j
  <2> QED
    BY <2>10, <2>12, <2>13 DEF PatienceInv
<1> QED
  BY <1>1, <1>5, <1>6 DEF GiveUp, Resolve

\* While time passes an item loses of its wait no more than it gains in age.
LEMMA PassKeeps ==
  ASSUME PatienceInv, Pass
  PROVE  PatienceInv'
<1>1. /\ age' = [i \in Items |->
           IF status[i] # "ABSENT" /\ age[i] < Ttl THEN age[i] + 1 ELSE age[i]]
      /\ wait' = [i \in Items |-> IF wait[i] = 0 THEN 0 ELSE wait[i] - 1]
      /\ elapsed' = (IF pc = "batch" /\ elapsed < LongestDelay THEN elapsed + 1 ELSE elapsed)
      /\ UNCHANGED <<status, there, attempts, pc, batch, failures>>
  BY DEF Pass
<1>2. LongestDelay \in Nat /\ Ttl \in Nat
  BY Delays, PendingReferencesAssumption
<1>3. /\ elapsed \in Nat /\ elapsed' \in 0..LongestDelay
      /\ elapsed' = elapsed \/ elapsed' = elapsed + 1
  BY <1>1, <1>2 DEF PatienceInv, TypeOK
<1>4. ASSUME NEW i \in Items
      PROVE  /\ age[i] \in 0..Ttl /\ wait[i] \in 0..LongestDelay /\ attempts[i] \in Nat
             /\ age'[i] \in 0..Ttl /\ wait'[i] \in 0..LongestDelay
             /\ wait'[i] = wait[i] - 1 \/ wait'[i] = wait[i]
             /\ status[i] # "ABSENT" => age'[i] = age[i] + 1 \/ age'[i] >= Ttl
             /\ status[i] = "ABSENT" => age'[i] = age[i]
  <2>1. /\ age[i] \in 0..Ttl /\ wait[i] \in 0..LongestDelay /\ attempts[i] \in Nat
        /\ age'[i] = IF status[i] # "ABSENT" /\ age[i] < Ttl THEN age[i] + 1 ELSE age[i]
        /\ wait'[i] = IF wait[i] = 0 THEN 0 ELSE wait[i] - 1
    BY <1>1 DEF PatienceInv, TypeOK
  <2> QED
    BY <1>2, <2>1
<1>5. TypeOK'
  <2>1. age' \in [Items -> 0..Ttl]
    BY <1>1, <1>4
  <2>2. wait' \in [Items -> 0..LongestDelay]
    BY <1>1, <1>4
  <2> QED
    BY <1>1, <1>3, <2>1, <2>2 DEF PatienceInv, TypeOK
<1>6. ASSUME NEW i \in Items
      PROVE  WaitedOut(i)' /\ (status'[i] = "ABSENT" => attempts'[i] = 0)
  <2>1. WaitedOut(i) /\ (status[i] = "ABSENT" => attempts[i] = 0)
    BY DEF PatienceInv
  <2>2. Series[attempts[i]] \in Nat /\ Series[0] = 0
    BY <1>4, SeriesSums
  <2>3. CASE status[i] = "ABSENT"
    BY <1>1, <1>4, <2>1, <2>2, <2>3 DEF WaitedOut
  <2>4. CASE status[i] # "ABSENT"
    <3>1. age'[i] >= Ttl \/ age'[i] + wait'[i] >= Series[attempts[i]]
      BY <1>2, <1>4, <2>1, <2>2, <2>4 DEF WaitedOut
    <3> QED
      BY <1>1, <2>4, <3>1 DEF WaitedOut
  <2> QED
    BY <2>3, <2>4
<1>7. BatchInv'
  <2> SUFFICES ASSUME pc = "batch" PROVE BatchInv'
    BY <1>1 DEF BatchInv
  <2>1. ASSUME NEW n \in DOMAIN batch PROVE IsTrue(batch[n])'
    <3> DEFINE b == batch[n]
    <3>1. b \in Entries
      <4>1. batch \in Seq(Entries)
        BY DEF PatienceInv, TypeOK, Entries
      <4> QED
        BY <4>1
    <3>2. IsTrue(b)
      BY DEF PatienceInv, BatchInv
    <3>3. batch'[n] = b
      BY <1>1
    <3> HIDE DEF b
    <3>4. b.item \in Items /\ b.age \in Nat
      BY <1>2, <3>1 DEF Entries
    <3>5. age'[b.item] >= Ttl \/ age'[b.item] >= b.age + elapsed'
      BY <1>2, <1>3, <1>4, <3>2, <3>4 DEF IsTrue
    <3> QED
      BY <1>1, <3>2, <3>3, <3>5 DEF IsTrue
  <2> QED
    BY <1>1, <2>1 DEF PatienceInv, BatchInv
<1> QED
  BY <1>5, <1>6, <1>7 DEF PatienceInv

\* Every step keeps the invariant,
LEMMA StepKeepsPatience == PatienceInv /\ [Next]_vars => PatienceInv'
<1> SUFFICES ASSUME PatienceInv, [Next]_vars PROVE PatienceInv'
  OBVIOUS
<1>1. ASSUME NEW i \in Items, Park(i) \/ Arrive(i) PROVE PatienceInv'
  BY <1>1, ParkKeeps, ArriveKeeps
<1>2. CASE FindDue
  BY <1>2, FindDueKeeps
<1>3. CASE ResolveOne
  BY <1>3, ResolveOneKeeps
<1>4. CASE FailAgain \/ FailOnce \/ EndTick
  <2>1. /\ batch' = <<>> /\ pc' = "ticker" /\ elapsed' = 0
        /\ UNCHANGED <<status, there, schedule, age>>
    BY <1>4 DEF FailAgain, FailOnce, EndTick, AbandonBatch
  <2>2. failures' \in 0..MaxFailures
    BY <1>4, PendingReferencesAssumption
    DEF FailAgain, FailOnce, EndTick, PatienceInv, TypeOK
  <2> QED
    BY <2>1, <2>2, EndKeeps
<1>5. CASE Pass
  BY <1>5, PassKeeps
<1>6. CASE UNCHANGED vars
  BY <1>6 DEF vars, schedule, resolver, PatienceInv, TypeOK, WaitedOut, BatchInv, IsTrue
<1> QED
  BY <1>1, <1>2, <1>3, <1>4, <1>5, <1>6 DEF Next, ResolveDue

\* and gives an item up only when its patience is at its end.
LEMMA GivesUpInTime ==
  ASSUME PatienceInv, [Next]_vars, NEW i \in Items, GivesUp(i)
  PROVE  age[i] >= Ttl \/ age[i] >= Series[MaxAttempts]
<1> DEFINE b == Head(batch)
<1>1. ResolveOne
  <2>1. status' # status
    BY DEF GivesUp
  <2>2. ~(\E j \in Items : Park(j))
    BY DEF Park, PatienceInv, TypeOK, GivesUp
  <2> QED
    BY <2>1, <2>2
    DEF Next, ResolveDue, Arrive, FindDue, FailAgain, FailOnce, AbandonBatch, EndTick, Pass,
        vars
<1>2. /\ pc = "batch" /\ batch # <<>>
      /\ GiveUp(b) \/ Resolve(b) \/ Reschedule(b)
  BY <1>1 DEF ResolveOne
<1>3. b \in Entries /\ IsTrue(b)
  BY <1>2, BatchParts
<1> HIDE DEF b
<1>4. GiveUp(b) /\ b.item = i
  BY <1>2 DEF GivesUp, GiveUp, Resolve, Reschedule, PatienceInv, TypeOK
<1>5. /\ b.attempts \in 0..MaxAttempts /\ b.age \in 0..Ttl /\ age[i] \in 0..Ttl
      /\ elapsed \in 0..LongestDelay
  BY <1>3 DEF Entries, PatienceInv, TypeOK
<1>6. /\ b.age >= Ttl \/ b.attempts = MaxAttempts
      /\ b.age >= Ttl \/ b.age >= Series[b.attempts]
      /\ age[i] >= Ttl \/ age[i] >= b.age + elapsed
  BY <1>3, <1>4, <1>5, PendingReferencesAssumption DEF GiveUp, Expired, IsTrue
<1>7. MaxAttempts \in Nat /\ Ttl \in Nat /\ LongestDelay \in Nat /\ Series[MaxAttempts] \in Nat
  BY PendingReferencesAssumption, Delays, SeriesSums
<1> QED
  BY <1>5, <1>6, <1>7

\* No item is tried more often than MaxAttempts, no wait is longer than the
\* longest delay, and no batch holds more than batchLimit items.
THEOREM TypeCorrect == Spec => []TypeOK
<1>1. Init => PatienceInv
  BY InitPatience
<1>2. PatienceInv /\ [Next]_vars => PatienceInv'
  BY StepKeepsPatience
<1>3. PatienceInv => TypeOK
  BY DEF PatienceInv
<1> QED
  BY <1>1, <1>2, <1>3, PTL DEF Spec

\* resolveOne gives an item up only after its ttl or after the whole series of
\* its backoffs, although the attempts and the age are those of the tick and
\* the next retry counts from the tick.
THEOREM PatienceHolds == Spec => PatienceIsKept
<1> DEFINE Kept == \A i \in Items : GivesUp(i) =>
                     \/ age[i] >= Ttl
                     \/ age[i] >= Series[MaxAttempts]
<1>1. Init => PatienceInv
  BY InitPatience
<1>2. PatienceInv /\ [Next]_vars => PatienceInv'
  BY StepKeepsPatience
<1>3. PatienceInv /\ [Next]_vars => [Kept]_vars
  BY GivesUpInTime
<1> HIDE DEF Kept
<1>4. Spec => [][Kept]_vars
  BY <1>1, <1>2, <1>3, PTL DEF Spec
<1> QED
  BY <1>4 DEF PatienceIsKept, Kept

=============================================================================
