---------------------------- MODULE MoneyProofs -----------------------------
(***************************************************************************)
(* Money's arithmetic is exact for every width of the integers, and every  *)
(* amount has one text.                                                    *)
(*                                                                         *)
(* FormatInt and Number are recursive functions.  That each of them        *)
(* satisfies its equation, and every fact about all numbers or all texts,  *)
(* is shown by the least number for which it fails (LeastNumber).          *)
(***************************************************************************)
EXTENDS Money, SequenceTheorems, WellFoundedInduction, TLAPS

\* Two's complement: a sum of two amounts is off by 2^w, or it is exact.
LEMMA WrapOnce ==
  ASSUME NEW x \in Int, -2 * Half <= x, x < 2 * Half
  PROVE  /\ x \in Amounts => Wrap(x) = x
         /\ x > MaxAmount => Wrap(x) = x - 2 * Half
         /\ x < MinAmount => Wrap(x) = x + 2 * Half
  BY MoneyAssumption, SMTT(60) DEF Wrap, Amounts, MinAmount, MaxAmount

\* The check of Add finds every sum that does not fit, and no other.
LEMMA WrapsTellsOverflow ==
  ASSUME NEW a \in Amounts, NEW b \in Amounts
  PROVE  /\ Wraps(a, b) <=> a + b \notin Amounts
         /\ ~Wraps(a, b) => Wrap(a + b) = a + b
<1>1. a + b \in Int /\ -2 * Half <= a + b /\ a + b < 2 * Half
  BY MoneyAssumption DEF Amounts, MinAmount, MaxAmount
<1>2. /\ a + b \in Amounts => Wrap(a + b) = a + b
      /\ a + b > MaxAmount => Wrap(a + b) = (a + b) - 2 * Half
      /\ a + b < MinAmount => Wrap(a + b) = (a + b) + 2 * Half
  BY <1>1, WrapOnce
<1>3. CASE a + b \in Amounts
  BY <1>2, <1>3, MoneyAssumption DEF Wraps, Amounts, MinAmount, MaxAmount
<1>4. CASE a + b > MaxAmount
  BY <1>2, <1>4, MoneyAssumption DEF Wraps, Amounts, MinAmount, MaxAmount
<1>5. CASE a + b < MinAmount
  BY <1>2, <1>5, MoneyAssumption DEF Wraps, Amounts, MinAmount, MaxAmount
<1> QED
  BY <1>1, <1>3, <1>4, <1>5, MoneyAssumption DEF Amounts, MinAmount, MaxAmount

\* Negating any amount but the least stays among the amounts.
LEMMA NegationFits ==
  ASSUME NEW a \in Amounts, a # MinAmount
  PROVE  -a \in Amounts /\ Wrap(-a) = -a
<1>1. -a \in Amounts /\ -a \in Int /\ -2 * Half <= -a /\ -a < 2 * Half
  BY MoneyAssumption DEF Amounts, MinAmount, MaxAmount
<1> QED
  BY <1>1, WrapOnce

-----------------------------------------------------------------------------
\* TypeOK is not needed for exactness alone, but the sums of two amounts are.
IInv == TypeOK /\ ArithmeticIsExact

\* GiveSum either overflows, rightly, or gives the exact sum.
LEMMA SumIsExact ==
  ASSUME m \in Moneys, NEW b \in Amounts, GiveSum(b)
  PROVE  /\ m' \in Moneys
         /\ \/ error' = "none" /\ m'.amount = m.amount + b
            \/ error' = "overflow" /\ m' = m /\ m.amount + b \notin Amounts
<1>1. m.amount \in Amounts /\ m.currency \in Currencies
  BY DEF Moneys
<1>2. CASE Wraps(m.amount, b)
  BY <1>1, <1>2, WrapsTellsOverflow DEF GiveSum, Fail
<1>3. CASE ~Wraps(m.amount, b)
  <2>1. Wrap(m.amount + b) = m.amount + b /\ m.amount + b \in Amounts
    BY <1>1, <1>3, WrapsTellsOverflow
  <2> QED
    BY <1>1, <1>3, <2>1 DEF GiveSum, Give, Moneys
<1> QED
  BY <1>2, <1>3

\* Nothing is made yet, so nothing is wrong.
LEMMA InitIsExact == Init => IInv
BY DEF Init, IInv, TypeOK, ArithmeticIsExact

\* Every way of making a value, and every operation on one, keeps it exact.
LEMMA StepIsExact == IInv /\ [Next]_vars => IInv'
<1> SUFFICES ASSUME IInv, [Next]_vars PROVE IInv'
  OBVIOUS
<1> USE DEF IInv
<1>1. ASSUME NEW code \in Codes, NEW t \in Texts, m = NoMoney, error = "none", New(code, t)
      PROVE  IInv'
  <2>1. CASE code \notin Currencies \/ ~IsAmount(t)
    BY <1>1, <2>1 DEF New, Fail, TypeOK, ArithmeticIsExact
  <2>2. CASE /\ code \in Currencies /\ exact' = ParseInt(t)
             /\ ParseInt(t) \in Amounts /\ Give(code, ParseInt(t), t)
    BY <2>2, MoneyAssumption
    DEF Give, TypeOK, ArithmeticIsExact, Moneys, Amounts, MinAmount, MaxAmount
  <2>3. CASE exact' = ParseInt(t) /\ ParseInt(t) \notin Amounts /\ Fail("overflow")
    BY <1>1, <2>3 DEF Fail, TypeOK, ArithmeticIsExact
  <2> QED
    BY <1>1, <2>1, <2>2, <2>3 DEF New
<1>2. ASSUME NEW code \in Codes, NEW b \in Operands, m = NoMoney, FromMinorUnits(code, b)
      PROVE  IInv'
  <2>1. b \in Amounts /\ b \in Int
    BY MoneyAssumption DEF Amounts, MinAmount, MaxAmount
  <2> QED
    BY <1>2, <2>1 DEF FromMinorUnits, Give, Fail, TypeOK, ArithmeticIsExact, Moneys
<1>3. ASSUME NEW code \in Currencies, NEW b \in Operands, Add(code, b)
      PROVE  IInv'
  <2>1. m \in Moneys /\ b \in Amounts /\ m.amount \in Int /\ b \in Int /\ m # NoMoney
    BY <1>3, MoneyAssumption DEF Add, TypeOK, Moneys, Amounts, MinAmount, MaxAmount
  <2>2. CASE Fail("mismatch")
    BY <1>3, <2>1, <2>2 DEF Add, Fail, TypeOK, ArithmeticIsExact
  <2>3. CASE GiveSum(b)
    BY <1>3, <2>1, <2>3, SumIsExact DEF Add, TypeOK, ArithmeticIsExact
  <2> QED
    BY <1>3, <2>2, <2>3 DEF Add
<1>4. CASE Negate
  <2>1. m \in Moneys /\ m.amount \in Amounts /\ m.amount \in Int
    BY <1>4, MoneyAssumption DEF Negate, TypeOK, Moneys, Amounts, MinAmount, MaxAmount
  <2>2. CASE m.amount = MinAmount /\ Fail("overflow")
    BY <1>4, <2>1, <2>2, MoneyAssumption
    DEF Negate, Fail, TypeOK, ArithmeticIsExact, Amounts, MinAmount, MaxAmount
  <2>3. CASE m.amount # MinAmount /\ Give(m.currency, Wrap(-m.amount), <<>>)
    BY <1>4, <2>1, <2>3, NegationFits DEF Negate, Give, TypeOK, ArithmeticIsExact, Moneys
  <2> QED
    BY <1>4, <2>2, <2>3 DEF Negate
<1>5. ASSUME NEW code \in Currencies, NEW b \in Operands, Subtract(code, b)
      PROVE  IInv'
  <2>1. m \in Moneys /\ b \in Amounts /\ m.amount \in Int /\ b \in Int /\ m # NoMoney
    BY <1>5, MoneyAssumption DEF Subtract, TypeOK, Moneys, Amounts, MinAmount, MaxAmount
  <2>2. exact' = m.amount - b /\ exact' \in Int
    BY <1>5, <2>1 DEF Subtract
  <2>3. CASE b = MinAmount /\ Fail("overflow")
    BY <2>1, <2>2, <2>3, MoneyAssumption
    DEF Fail, TypeOK, ArithmeticIsExact, MinAmount
  <2>4. CASE Fail("mismatch")
    BY <2>1, <2>2, <2>4 DEF Fail, TypeOK, ArithmeticIsExact
  <2>5. CASE b # MinAmount /\ GiveSum(Wrap(-b))
    <3>1. -b \in Amounts /\ Wrap(-b) = -b /\ m.amount - b = m.amount + (-b)
      BY <2>1, <2>5, NegationFits
    <3> QED
      BY <2>1, <2>2, <2>5, <3>1, SumIsExact DEF TypeOK, ArithmeticIsExact
  <2> QED
    BY <1>5, <2>3, <2>4, <2>5 DEF Subtract
<1>6. CASE MarshalJSON
  BY <1>6, MoneyAssumption
  DEF MarshalJSON, TypeOK, ArithmeticIsExact, Moneys, Amounts, MinAmount, MaxAmount
<1>7. CASE UNCHANGED vars
  BY <1>7 DEF vars, TypeOK, ArithmeticIsExact
<1> QED
  BY <1>1, <1>2, <1>3, <1>4, <1>5, <1>6, <1>7 DEF Next

\* Whatever is added, subtracted, negated, read or written, a value is one
\* that int64 holds, in a known currency.
THEOREM TypeCorrect == Spec => []TypeOK
<1>1. Init => IInv
  BY InitIsExact
<1>2. IInv /\ [Next]_vars => IInv'
  BY StepIsExact
<1>3. IInv => TypeOK
  BY DEF IInv
<1> QED
  BY <1>1, <1>2, <1>3, PTL DEF Spec

\* Money.Add, Negate and Subtract never give a wrong sum, and refuse none that
\* fits but a subtraction of the least amount, for every width.
THEOREM ArithmeticExact == Spec => []ArithmeticIsExact
<1>1. Init => IInv
  BY InitIsExact
<1>2. IInv /\ [Next]_vars => IInv'
  BY StepIsExact
<1>3. IInv => ArithmeticIsExact
  BY DEF IInv
<1> QED
  BY <1>1, <1>2, <1>3, PTL DEF Spec

-----------------------------------------------------------------------------
\* The text of an amount.

\* A set of numbers has a least one.
LEMMA LeastNumber ==
  ASSUME NEW T, T \subseteq Nat, T # {}
  PROVE  \E n \in T : \A k \in T : n <= k
<1> DEFINE Less == {ss \in Nat \X Nat : ss[1] < ss[2]}
<1>1. IsWellFoundedOn(Less, Nat)
  BY NatLessThanWellFounded DEF OpToRel
<1>2. \A n, k \in Nat : n < k => <<n, k>> \in Less
  OBVIOUS
<1> HIDE DEF Less
<1>3. \E n \in T : \A k \in T : ~(<<k, n>> \in Less)
  BY <1>1, WFMin
<1>4. PICK n \in T : \A k \in T : ~(<<k, n>> \in Less)
  BY <1>3
<1>5. ASSUME NEW k \in T PROVE n <= k
  <2>1. n \in Nat /\ k \in Nat /\ ~(<<k, n>> \in Less)
    BY <1>4
  <2>2. ~(k < n)
    BY <1>2, <2>1
  <2> QED
    BY <2>1, <2>2
<1> QED
  BY <1>5

\* Dividing by the base,
LEMMA Tenth ==
  ASSUME NEW n \in Nat
  PROVE  /\ n \div 10 \in Nat /\ n % 10 \in 0..9
         /\ n = 10 * (n \div 10) + (n % 10)
         /\ n >= 10 => n \div 10 < n /\ n \div 10 >= 1
  OBVIOUS

\* and putting it together again.
LEMMA TenTimes ==
  ASSUME NEW n \in Nat, NEW v \in 0..9
  PROVE  (10 * n + v) \div 10 = n /\ (10 * n + v) % 10 = v
  OBVIOUS

\* The characters IsDigit admits.
Digits == {Numerals[i] : i \in 1..10}

\* Each digit has one value, and each value below the base one digit.
LEMMA DigitValues ==
  /\ \A i \in 1..10 : ValueOf(Numerals[i]) = i - 1
  /\ \A c \in Digits : ValueOf(c) \in 0..9 /\ Numerals[ValueOf(c) + 1] = c
  /\ \A v \in 0..9 : Numerals[v + 1] \in Digits /\ ValueOf(Numerals[v + 1]) = v
<1>1. \A i, j \in 1..10 : Numerals[i] = Numerals[j] => i = j
  BY DEF Numerals
<1>2. ASSUME NEW i \in 1..10 PROVE ValueOf(Numerals[i]) = i - 1
  <2>1. \A j \in 1..10 : Numerals[j] = Numerals[i] <=> j = i
    BY <1>1
  <2>2. (CHOOSE j \in 1..10 : Numerals[j] = Numerals[i]) = i
    BY <2>1
  <2> QED
    BY <2>2 DEF ValueOf
<1>3. ASSUME NEW c \in Digits PROVE ValueOf(c) \in 0..9 /\ Numerals[ValueOf(c) + 1] = c
  <2>1. PICK i \in 1..10 : c = Numerals[i]
    BY DEF Digits
  <2>2. ValueOf(c) = i - 1
    BY <1>2, <2>1
  <2>3. ValueOf(c) \in 0..9 /\ ValueOf(c) + 1 = i
    BY <2>2
  <2> QED
    BY <2>1, <2>3
<1>4. ASSUME NEW v \in 0..9
      PROVE Numerals[v + 1] \in Digits /\ ValueOf(Numerals[v + 1]) = v
  <2>1. v + 1 \in 1..10 /\ (v + 1) - 1 = v
    OBVIOUS
  <2> QED
    BY <1>2, <2>1 DEF Digits
<1> QED
  BY <1>2, <1>3, <1>4

\* A sign and a point are no digits; zero is, and it alone has the value 0.
LEMMA DigitChars ==
  /\ "." \notin Digits /\ "-" \notin Digits
  /\ "0" \in Digits /\ ValueOf("0") = 0
  /\ \A c \in Digits : ValueOf(c) = 0 => c = "0"
  /\ \A c : IsDigit(c) <=> c \in Digits
<1>1. \A i \in 1..10 : Numerals[i] # "." /\ Numerals[i] # "-"
  BY DEF Numerals
<1>2. Numerals[1] = "0"
  BY DEF Numerals
<1>3. "0" \in Digits /\ ValueOf("0") = 0
  BY <1>2, DigitValues DEF Digits
<1>4. ASSUME NEW c \in Digits, ValueOf(c) = 0 PROVE c = "0"
  BY <1>2, <1>4, DigitValues
<1> QED
  BY <1>1, <1>3, <1>4 DEF Digits, IsDigit

\* The equation of FormatInt,
Written(f, n) ==
  IF n < 10 THEN <<Numerals[n + 1]>>
            ELSE Append(f[n \div 10], Numerals[(n % 10) + 1])

\* up to a bound.
Writes(f, k) == f = [n \in 0..k |-> Written(f, n)]

\* It has at most one solution,
LEMMA OneWriting ==
  ASSUME NEW k \in Nat, NEW l \in Nat, NEW f, NEW g, Writes(f, k), Writes(g, l)
  PROVE  \A n \in Nat : n <= k /\ n <= l => f[n] = g[n]
<1> DEFINE Apart == {n \in Nat : n <= k /\ n <= l /\ f[n] # g[n]}
<1> SUFFICES ASSUME Apart # {} PROVE FALSE
  OBVIOUS
<1>1. PICK n \in Apart : \A i \in Apart : n <= i
  <2> HIDE DEF Apart
  <2>1. Apart \subseteq Nat
    BY DEF Apart
  <2> QED
    BY <2>1, LeastNumber
<1>2. n \in 0..k /\ n \in 0..l /\ n \in Nat
  OBVIOUS
<1>3. f[n] = Written(f, n) /\ g[n] = Written(g, n)
  BY <1>2 DEF Writes
<1>4. n >= 10
  BY <1>2, <1>3 DEF Written
<1>5. n \div 10 \in Nat /\ n \div 10 < n
  BY <1>2, <1>4, Tenth
<1>6. n \div 10 \notin Apart
  BY <1>1, <1>5
<1>7. f[n \div 10] = g[n \div 10]
  BY <1>2, <1>5, <1>6
<1> QED
  BY <1>2, <1>3, <1>7 DEF Written

\* and it has one below every bound,
LEMMA WritingExists ==
  ASSUME NEW k \in Nat
  PROVE  \E f : Writes(f, k)
<1> DEFINE Missing == {n \in Nat : ~\E f : Writes(f, n)}
<1> SUFFICES ASSUME Missing # {} PROVE FALSE
  OBVIOUS
<1>1. PICK n \in Missing : \A i \in Missing : n <= i
  <2> HIDE DEF Missing
  <2>1. Missing \subseteq Nat
    BY DEF Missing
  <2> QED
    BY <2>1, LeastNumber
<1>2. PICK g : n > 0 => Writes(g, n - 1)
  <2>1. CASE n = 0
    BY <2>1
  <2>2. CASE n > 0
    <3>1. n - 1 \in Nat /\ n - 1 \notin Missing
      BY <1>1, <2>2
    <3> QED
      BY <3>1
  <2> QED
    BY <2>1, <2>2
<1> DEFINE f == [i \in 0..n |-> Written(g, i)]
<1>3. ASSUME NEW i \in 0..n PROVE Written(f, i) = Written(g, i)
  <2>1. CASE i < 10
    BY <2>1 DEF Written
  <2>2. CASE i >= 10
    <3>1. i \div 10 \in 0..(n - 1) /\ i \div 10 \in 0..n /\ n > 0
      BY <2>2, Tenth
    <3>2. g[i \div 10] = Written(g, i \div 10)
      BY <1>2, <3>1 DEF Writes
    <3>3. f[i \div 10] = g[i \div 10]
      BY <3>1, <3>2
    <3> QED
      BY <3>3 DEF Written
  <2> QED
    BY <2>1, <2>2
<1>4. f = [i \in 0..n |-> Written(f, i)]
  BY <1>3
<1> HIDE DEF f
<1>5. Writes(f, n)
  BY <1>4 DEF Writes
<1> QED
  BY <1>1, <1>5

\* so that FormatInt is what its definition says.
LEMMA FormatIntUnfolds ==
  ASSUME NEW n \in Nat
  PROVE  FormatInt[n] = Written(FormatInt, n)
<1> DEFINE F == [i \in Nat |-> (CHOOSE f : Writes(f, i))[i]]
<1>1. ASSUME NEW i \in Nat, NEW f, NEW k \in Nat, Writes(f, k), i <= k
      PROVE  F[i] = f[i]
  <2>1. PICK g : g = CHOOSE h : Writes(h, i)
    OBVIOUS
  <2>2. Writes(g, i)
    BY <2>1, WritingExists
  <2>3. F[i] = g[i]
    BY <2>1
  <2>4. i <= i
    OBVIOUS
  <2> QED
    BY <1>1, <2>2, <2>3, <2>4, OneWriting
<1>2. ASSUME NEW i \in Nat PROVE F[i] = Written(F, i)
  <2> HIDE DEF F
  <2>1. PICK f : Writes(f, i)
    BY WritingExists
  <2>2. f[i] = Written(f, i)
    BY <2>1 DEF Writes
  <2>3. F[i] = f[i]
    BY <1>1, <2>1
  <2>4. i >= 10 => F[i \div 10] = f[i \div 10]
    BY <1>1, <2>1, Tenth
  <2> QED
    BY <2>2, <2>3, <2>4 DEF Written
<1>3. F = [i \in Nat |-> Written(F, i)]
  BY <1>2
<1> HIDE DEF F
<1>4. \E f : f = [i \in Nat |-> Written(f, i)]
  BY <1>3
<1>5. FormatInt = CHOOSE f : f = [i \in Nat |-> Written(f, i)]
  BY DEF FormatInt, Written
<1>6. FormatInt = [i \in Nat |-> Written(FormatInt, i)]
  BY <1>4, <1>5
<1> QED
  BY <1>6


\* The equation of Number for the first k digits,
Read(f, digits, i) == IF i = 0 THEN 0 ELSE (10 * f[i - 1]) + ValueOf(digits[i])

Reads(f, digits, k) == f = [i \in 0..k |-> Read(f, digits, i)]

\* which has at most one solution for the digits two texts begin with alike,
LEMMA OneReading ==
  ASSUME NEW s, NEW t, NEW k \in Nat, NEW l \in Nat, k <= l,
         \A i \in 1..k : s[i] = t[i],
         NEW f, NEW g, Reads(f, s, k), Reads(g, t, l)
  PROVE  f[k] = g[k]
<1> DEFINE Apart == {i \in Nat : i <= k /\ f[i] # g[i]}
<1> SUFFICES ASSUME Apart # {} PROVE FALSE
  OBVIOUS
<1>1. PICK i \in Apart : \A j \in Apart : i <= j
  <2> HIDE DEF Apart
  <2>1. Apart \subseteq Nat
    BY DEF Apart
  <2> QED
    BY <2>1, LeastNumber
<1>2. i \in 0..k /\ i \in 0..l /\ i \in Nat
  OBVIOUS
<1>3. f[i] = Read(f, s, i) /\ g[i] = Read(g, t, i)
  BY <1>2 DEF Reads
<1>4. i # 0
  BY <1>2, <1>3 DEF Read
<1>5. i - 1 \in Nat /\ i - 1 < i /\ i \in 1..k
  BY <1>2, <1>4
<1>6. f[i - 1] = g[i - 1]
  BY <1>1, <1>2, <1>5
<1> QED
  BY <1>2, <1>3, <1>4, <1>5, <1>6 DEF Read

\* and one for every text.
LEMMA ReadingExists ==
  ASSUME NEW s, NEW k \in Nat
  PROVE  \E f : Reads(f, s, k)
<1> DEFINE Missing == {n \in Nat : ~\E f : Reads(f, s, n)}
<1> SUFFICES ASSUME Missing # {} PROVE FALSE
  OBVIOUS
<1>1. PICK n \in Missing : \A i \in Missing : n <= i
  <2> HIDE DEF Missing
  <2>1. Missing \subseteq Nat
    BY DEF Missing
  <2> QED
    BY <2>1, LeastNumber
<1>2. PICK g : n > 0 => Reads(g, s, n - 1)
  <2>1. CASE n = 0
    BY <2>1
  <2>2. CASE n > 0
    <3>1. n - 1 \in Nat /\ n - 1 \notin Missing
      BY <1>1, <2>2
    <3> QED
      BY <3>1
  <2> QED
    BY <2>1, <2>2
<1> DEFINE f == [i \in 0..n |-> Read(g, s, i)]
<1>3. ASSUME NEW i \in 0..n PROVE Read(f, s, i) = Read(g, s, i)
  <2>1. CASE i = 0
    BY <2>1 DEF Read
  <2>2. CASE i > 0
    <3>1. i - 1 \in 0..(n - 1) /\ i - 1 \in 0..n /\ n > 0
      BY <2>2
    <3>2. g[i - 1] = Read(g, s, i - 1)
      BY <1>2, <3>1 DEF Reads
    <3>3. f[i - 1] = g[i - 1]
      BY <3>1, <3>2
    <3> QED
      BY <3>3 DEF Read
  <2> QED
    BY <2>1, <2>2
<1>4. f = [i \in 0..n |-> Read(f, s, i)]
  BY <1>3
<1> HIDE DEF f
<1>5. Reads(f, s, n)
  BY <1>4 DEF Reads
<1> QED
  BY <1>1, <1>5

\* So Number is a fold of its digits from the first to the last.
LEMMA NumberReads ==
  ASSUME NEW s, NEW f, Len(s) \in Nat, Reads(f, s, Len(s))
  PROVE  Number(s) = f[Len(s)]
<1>1. PICK g : g = CHOOSE h : Reads(h, s, Len(s))
  OBVIOUS
<1>2. Reads(g, s, Len(s))
  BY <1>1
<1>3. Number(s) = g[Len(s)]
  BY <1>1 DEF Number, Reads, Read
<1>4. f[Len(s)] = g[Len(s)]
  BY <1>2, OneReading
<1> QED
  BY <1>3, <1>4

\* No digits are 0,
LEMMA NumberOfNone == Number(<<>>) = 0
<1>1. PICK f : Reads(f, <<>>, 0)
  BY ReadingExists
<1>2. f[0] = Read(f, <<>>, 0)
  BY <1>1 DEF Reads
<1>3. f[0] = 0
  BY <1>2 DEF Read
<1>4. Len(<<>>) = 0
  OBVIOUS
<1> QED
  BY <1>1, <1>3, <1>4, NumberReads

\* and one digit more is ten times the number and the digit's value.
LEMMA NumberOfAppend ==
  ASSUME NEW S, NEW s \in Seq(S), NEW c \in S
  PROVE  Number(Append(s, c)) = 10 * Number(s) + ValueOf(c)
<1> DEFINE t == Append(s, c)
           n == Len(s)
<1>1. /\ n \in Nat /\ Len(t) = n + 1 /\ n + 1 \in Nat
      /\ t[n + 1] = c /\ \A i \in 1..n : s[i] = t[i]
  OBVIOUS
<1> HIDE DEF t, n
<1>2. PICK g : Reads(g, t, n + 1)
  BY <1>1, ReadingExists
<1>3. PICK f : Reads(f, s, n)
  BY <1>1, ReadingExists
<1>4. f[n] = g[n]
  BY <1>1, <1>2, <1>3, OneReading
<1>5. Number(s) = f[n]
  BY <1>1, <1>3, NumberReads DEF n
<1>6. Number(t) = g[n + 1]
  BY <1>1, <1>2, NumberReads
<1>7. n + 1 \in 0..(n + 1)
  BY <1>1
<1>8. g[n + 1] = Read(g, t, n + 1)
  BY <1>2, <1>7 DEF Reads
<1>9. g[n + 1] = 10 * g[n] + ValueOf(c)
  <2>1. n + 1 # 0 /\ (n + 1) - 1 = n
    BY <1>1
  <2> QED
    BY <1>1, <1>8, <2>1 DEF Read
<1> QED
  BY <1>4, <1>5, <1>6, <1>9 DEF t


\* A text is the rest of it and its last character.
LEMMA WithoutLast ==
  ASSUME NEW S, NEW s \in Seq(S), s # <<>>
  PROVE  \E t \in Seq(S), c \in S :
           s = Append(t, c) /\ Len(s) = Len(t) + 1 /\ \A i \in 1..Len(t) : t[i] = s[i]
<1> DEFINE t == [i \in 1..(Len(s) - 1) |-> s[i]]
           c == s[Len(s)]
<1>1. Len(s) \in Nat /\ Len(s) >= 1 /\ c \in S
  OBVIOUS
<1>2. t \in Seq(S) /\ Len(t) = Len(s) - 1 /\ \A i \in 1..Len(t) : t[i] = s[i]
  <2>1. Len(s) - 1 \in Nat /\ \A i \in 1..(Len(s) - 1) : s[i] \in S
    BY <1>1
  <2>2. t \in Seq(S)
    BY <2>1
  <2>3. Len(t) = Len(s) - 1
    BY <2>1
  <2> QED
    BY <2>2, <2>3
<1>3. s = Append(t, c)
  <2> HIDE DEF t, c
  <2>1. Append(t, c) \in Seq(S) /\ Len(Append(t, c)) = Len(s)
    BY <1>1, <1>2
  <2>2. \A i \in 1..Len(s) : Append(t, c)[i] = s[i]
    BY <1>1, <1>2 DEF c
  <2> QED
    BY <1>1, <2>1, <2>2
<1> HIDE DEF t, c
<1> QED
  BY <1>1, <1>2, <1>3

\* FormatInt of one digit,
LEMMA FormatDigit ==
  ASSUME NEW v \in 0..9
  PROVE  FormatInt[v] = <<Numerals[v + 1]>>
<1>1. v \in Nat /\ v < 10
  OBVIOUS
<1>2. FormatInt[v] = Written(FormatInt, v)
  BY <1>1, FormatIntUnfolds
<1> QED
  BY <1>1, <1>2 DEF Written

\* and of one digit more.
LEMMA FormatMore ==
  ASSUME NEW n \in Nat, n >= 1, NEW v \in 0..9
  PROVE  FormatInt[10 * n + v] = Append(FormatInt[n], Numerals[v + 1])
<1> DEFINE k == 10 * n + v
<1>1. k \in Nat /\ ~(k < 10) /\ k \div 10 = n /\ k % 10 = v
  BY TenTimes
<1> HIDE DEF k
<1>2. FormatInt[k] = Written(FormatInt, k)
  BY <1>1, FormatIntUnfolds
<1>3. FormatInt[k] = Append(FormatInt[n], Numerals[v + 1])
  BY <1>1, <1>2 DEF Written
<1> QED
  BY <1>3 DEF k

\* What FormatInt writes: digits, without a zero in front of others.
IsNumeral(s) == s \in Seq(Digits) /\ s # <<>> /\ (Len(s) > 1 => s[1] # "0")

\* FormatInt writes such a text, and Number reads it back.
LEMMA WrittenReads ==
  ASSUME NEW n \in Nat
  PROVE  /\ IsNumeral(FormatInt[n]) /\ Number(FormatInt[n]) = n
         /\ n > 0 => FormatInt[n][1] # "0"
<1> DEFINE Good(k) == /\ IsNumeral(FormatInt[k]) /\ Number(FormatInt[k]) = k
                      /\ k > 0 => FormatInt[k][1] # "0"
           Bad == {k \in Nat : ~Good(k)}
<1> SUFFICES ASSUME Bad # {} PROVE FALSE
  OBVIOUS
<1>1. PICK k \in Bad : \A i \in Bad : k <= i
  <2> HIDE DEF Bad
  <2>1. Bad \subseteq Nat
    BY DEF Bad
  <2> QED
    BY <2>1, LeastNumber
<1>2. k \in Nat /\ ~Good(k)
  OBVIOUS
<1>3. CASE k < 10
  <2>1. k \in 0..9
    BY <1>2, <1>3
  <2> DEFINE c == Numerals[k + 1]
  <2>2. c \in Digits /\ ValueOf(c) = k
    BY <2>1, DigitValues
  <2> HIDE DEF c
  <2>3. FormatInt[k] = <<c>>
    BY <2>1, FormatDigit DEF c
  <2>4. IsNumeral(<<c>>) /\ <<c>>[1] = c
    BY <2>2 DEF IsNumeral
  <2>5. <<>> \in Seq(Digits) /\ Append(<<>>, c) = <<c>>
    BY <2>2
  <2>6. Number(<<c>>) = 10 * 0 + ValueOf(c)
    BY <2>2, <2>5, NumberOfNone, NumberOfAppend
  <2>7. k > 0 => c # "0"
    BY <2>2, DigitChars
  <2> QED
    BY <1>2, <2>2, <2>3, <2>4, <2>6, <2>7
<1>4. CASE k >= 10
  <2> DEFINE d == k \div 10
             r == k % 10
             c == Numerals[r + 1]
  <2>1. d \in Nat /\ r \in 0..9 /\ k = 10 * d + r /\ d < k /\ d >= 1
    BY <1>2, <1>4, Tenth
  <2>2. c \in Digits /\ ValueOf(c) = r
    BY <2>1, DigitValues
  <2>3. Good(d)
    BY <1>1, <1>2, <2>1
  <2>4. FormatInt[k] = Append(FormatInt[d], c)
    BY <2>1, FormatMore
  <2> HIDE DEF d, c, r
  <2>5. PICK s \in Seq(Digits) : s = FormatInt[d] /\ s # <<>> /\ s[1] # "0" /\ Number(s) = d
    BY <2>1, <2>3 DEF IsNumeral
  <2>6. /\ Append(s, c) \in Seq(Digits) /\ Append(s, c) # <<>>
        /\ Append(s, c)[1] # "0"
    BY <2>2, <2>5
  <2>7. Number(Append(s, c)) = 10 * d + r
    BY <2>2, <2>5, NumberOfAppend
  <2> QED
    BY <1>2, <2>1, <2>4, <2>5, <2>6, <2>7 DEF IsNumeral
<1> QED
  BY <1>2, <1>3, <1>4

\* And every such text is what FormatInt writes for its number.
LEMMA ReadWrites ==
  ASSUME NEW s, IsNumeral(s)
  PROVE  /\ Number(s) \in Nat /\ FormatInt[Number(s)] = s
         /\ s[1] # "0" => Number(s) > 0
<1> DEFINE Good(t) == /\ Number(t) \in Nat /\ FormatInt[Number(t)] = t
                      /\ t[1] # "0" => Number(t) > 0
           Bad == {n \in Nat : \E t \in Seq(Digits) : IsNumeral(t) /\ Len(t) = n /\ ~Good(t)}
<1> SUFFICES ASSUME Bad # {} PROVE FALSE
  <2>1. s \in Seq(Digits) /\ Len(s) \in Nat
    BY DEF IsNumeral
  <2> QED
    BY <2>1
<1>1. PICK n \in Bad : \A i \in Bad : n <= i
  <2> HIDE DEF Bad
  <2>1. Bad \subseteq Nat
    BY DEF Bad
  <2> QED
    BY <2>1, LeastNumber
<1>2. PICK t \in Seq(Digits) : IsNumeral(t) /\ Len(t) = n /\ ~Good(t)
  OBVIOUS
<1>3. PICK u \in Seq(Digits), c \in Digits :
        t = Append(u, c) /\ Len(t) = Len(u) + 1 /\ \A i \in 1..Len(u) : u[i] = t[i]
  BY <1>2, WithoutLast DEF IsNumeral
<1>4. ValueOf(c) \in 0..9 /\ Numerals[ValueOf(c) + 1] = c
  BY DigitValues
<1>5. Number(t) = 10 * Number(u) + ValueOf(c)
  BY <1>3, NumberOfAppend
<1>6. CASE u = <<>>
  <2>1. t = <<c>> /\ Number(t) = ValueOf(c) /\ Number(t) \in 0..9 /\ Number(t) \in Nat
    BY <1>3, <1>4, <1>5, <1>6, NumberOfNone
  <2>2. FormatInt[Number(t)] = t
    BY <1>4, <2>1, FormatDigit
  <2>3. t[1] # "0" => Number(t) > 0
    BY <1>4, <2>1, DigitChars
  <2> QED
    BY <1>2, <2>1, <2>2, <2>3
<1>7. CASE u # <<>>
  <2>1. Len(u) \in Nat /\ Len(u) >= 1 /\ Len(u) < n /\ u[1] = t[1] /\ Len(t) > 1
    BY <1>2, <1>3, <1>7
  <2>2. t[1] # "0" /\ IsNumeral(u)
    BY <1>2, <1>7, <2>1 DEF IsNumeral
  <2>3. Len(u) \notin Bad
    <3> HIDE DEF Bad
    <3>1. n \in Nat
      BY DEF Bad
    <3> QED
      BY <1>1, <2>1, <3>1
  <2>4. Good(u)
    BY <2>1, <2>2, <2>3
  <2> HIDE DEF Bad
  <2>5. Number(u) \in Nat /\ Number(u) >= 1
    BY <2>1, <2>2, <2>4
  <2>6. Number(t) \in Nat /\ Number(t) >= 10
    BY <1>4, <1>5, <2>5
  <2>7. FormatInt[Number(t)] = Append(FormatInt[Number(u)], c)
    BY <1>4, <1>5, <2>5, FormatMore
  <2>8. FormatInt[Number(t)] = t
    BY <1>3, <2>4, <2>7
  <2> QED
    BY <1>2, <2>6, <2>8
<1> QED
  BY <1>6, <1>7


\* One, two and three digits.
LEMMA FewDigits ==
  ASSUME NEW a \in Digits, NEW b \in Digits, NEW c \in Digits
  PROVE  /\ Number(<<a>>) = ValueOf(a)
         /\ Number(<<a, b>>) = 10 * ValueOf(a) + ValueOf(b)
         /\ Number(<<a, b, c>>) = 10 * (10 * ValueOf(a) + ValueOf(b)) + ValueOf(c)
<1>1. /\ <<>> \in Seq(Digits) /\ <<a>> \in Seq(Digits) /\ <<a, b>> \in Seq(Digits)
      /\ <<a>> = Append(<<>>, a) /\ <<a, b>> = Append(<<a>>, b)
      /\ <<a, b, c>> = Append(<<a, b>>, c)
  OBVIOUS
<1>2. Number(<<a>>) = 10 * 0 + ValueOf(a)
  BY <1>1, NumberOfNone, NumberOfAppend
<1>3. Number(<<a, b>>) = 10 * Number(<<a>>) + ValueOf(b)
  BY <1>1, NumberOfAppend
<1>4. Number(<<a, b, c>>) = 10 * Number(<<a, b>>) + ValueOf(c)
  BY <1>1, NumberOfAppend
<1>5. ValueOf(a) \in Int /\ ValueOf(b) \in Int /\ ValueOf(c) \in Int
  BY DigitValues
<1> QED
  BY <1>2, <1>3, <1>4, <1>5

\* Zeros in front count for nothing.
LEMMA ZerosInFront ==
  ASSUME NEW a \in Digits, NEW b \in Digits
  PROVE  /\ Number(<<"0", "0", a>>) = Number(<<a>>)
         /\ Number(<<"0", a, b>>) = Number(<<a, b>>)
<1>1. "0" \in Digits /\ ValueOf("0") = 0 /\ ValueOf(a) \in Int /\ ValueOf(b) \in Int
  BY DigitChars, DigitValues
<1>2. /\ Number(<<"0", "0", a>>) = 10 * (10 * 0 + 0) + ValueOf(a)
      /\ Number(<<a>>) = ValueOf(a)
  BY <1>1, FewDigits
<1>3. /\ Number(<<"0", a, b>>) = 10 * (10 * 0 + ValueOf(a)) + ValueOf(b)
      /\ Number(<<a, b>>) = 10 * ValueOf(a) + ValueOf(b)
  BY <1>1, FewDigits
<1> QED
  BY <1>1, <1>2, <1>3

\* Short texts, spelled out.
LEMMA Spelled ==
  ASSUME NEW S, NEW s \in Seq(S)
  PROVE  /\ Len(s) = 1 => \E a \in S : s = <<a>>
         /\ Len(s) = 2 => \E a, b \in S : s = <<a, b>>
         /\ Len(s) = 3 => \E a, b, c \in S : s = <<a, b, c>>
<1>1. ASSUME Len(s) = 1 PROVE \E a \in S : s = <<a>>
  <2>1. s[1] \in S
    BY <1>1
  <2>2. s = <<s[1]>>
    BY <1>1, <2>1
  <2> QED
    BY <2>1, <2>2
<1>2. ASSUME Len(s) = 2 PROVE \E a, b \in S : s = <<a, b>>
  <2>1. s[1] \in S /\ s[2] \in S /\ s = <<s[1], s[2]>>
    BY <1>2
  <2> QED
    BY <2>1
<1>3. ASSUME Len(s) = 3 PROVE \E a, b, c \in S : s = <<a, b, c>>
  <2>1. s[1] \in S /\ s[2] \in S /\ s[3] \in S
    BY <1>3
  <2>2. s = <<s[1], s[2], s[3]>>
    BY <1>3, <2>1
  <2> QED
    BY <2>1, <2>2
<1> QED
  BY <1>1, <1>2, <1>3

\* Texts are the same when their characters are.
LEMMA SameText ==
  ASSUME NEW S, NEW s \in Seq(S), NEW t \in Seq(S), Len(s) = Len(t),
         \A i \in 1..Len(s) : s[i] = t[i]
  PROVE  s = t
  OBVIOUS

\* Putting texts of one and two characters together.
LEMMA Joined ==
  ASSUME NEW S, NEW x \in S, NEW y \in S, NEW z \in S
  PROVE  <<x, y>> \o <<z>> = <<x, y, z>> /\ <<x>> \o <<y, z>> = <<x, y, z>>
<1> DEFINE xy == <<x, y>>
           yz == <<y, z>>
           xyz == <<x, y, z>>
           xs == <<x>>
           zs == <<z>>
<1>1. /\ xy \in Seq(S) /\ Len(xy) = 2 /\ xy[1] = x /\ xy[2] = y
      /\ yz \in Seq(S) /\ Len(yz) = 2 /\ yz[1] = y /\ yz[2] = z
      /\ xs \in Seq(S) /\ Len(xs) = 1 /\ xs[1] = x
      /\ zs \in Seq(S) /\ Len(zs) = 1 /\ zs[1] = z
      /\ xyz \in Seq(S) /\ Len(xyz) = 3 /\ xyz[1] = x /\ xyz[2] = y /\ xyz[3] = z
  OBVIOUS
<1> HIDE DEF xy, yz, xyz, xs, zs
<1>2. xy \o zs = xyz
  <2>1. /\ xy \o zs \in Seq(S) /\ Len(xy \o zs) = 3
        /\ \A i \in 1..3 : (xy \o zs)[i] = IF i <= 2 THEN xy[i] ELSE zs[i - 2]
    BY <1>1, ConcatProperties
  <2>2. \A i \in 1..3 : (xy \o zs)[i] = xyz[i]
    BY <1>1, <2>1
  <2> QED
    BY <1>1, <2>1, <2>2, SameText
<1>3. xs \o yz = xyz
  <2>1. /\ xs \o yz \in Seq(S) /\ Len(xs \o yz) = 3
        /\ \A i \in 1..3 : (xs \o yz)[i] = IF i <= 1 THEN xs[i] ELSE yz[i - 1]
    BY <1>1, ConcatProperties
  <2>2. \A i \in 1..3 : (xs \o yz)[i] = xyz[i]
    BY <1>1, <2>1
  <2> QED
    BY <1>1, <2>1, <2>2, SameText
<1> QED
  BY <1>2, <1>3 DEF xy, yz, xyz, xs, zs

\* What Pad puts in front of one digit and of two,
LEMMA PadOfShort ==
  ASSUME NEW a \in Digits, NEW b \in Digits
  PROVE  Pad(<<a>>) = <<"0", "0", a>> /\ Pad(<<a, b>>) = <<"0", a, b>>
<1>1. <<"0", "0">> \o <<a>> = <<"0", "0", a>>
  BY DigitChars, Joined
<1>2. <<"0">> \o <<a, b>> = <<"0", a, b>>
  BY DigitChars, Joined
<1>3. Len(<<a>>) = 1 /\ Len(<<a, b>>) = 2
  OBVIOUS
<1> QED
  BY <1>1, <1>2, <1>3 DEF Pad

\* and of more: nothing.
LEMMA PadOfLong ==
  ASSUME NEW d, Len(d) \in Nat, Len(d) >= 3
  PROVE  Pad(d) = d
<1>1. \A l \in Nat : l >= 3 => l # 1 /\ l # 2
  OBVIOUS
<1>2. Len(d) # 1 /\ Len(d) # 2
  BY <1>1, Zenon
<1> QED
  BY <1>2, Zenon DEF Pad

\* Digits with at least two decimals, and no zero in front that is not needed.
IsPadded(d) == d \in Seq(Digits) /\ Len(d) >= 3 /\ (Len(d) > 3 => d[1] # "0")

\* Padding makes such digits of a numeral, for the same number.
LEMMA PaddedReads ==
  ASSUME NEW s, IsNumeral(s)
  PROVE  IsPadded(Pad(s)) /\ Number(Pad(s)) = Number(s)
<1>1. s \in Seq(Digits) /\ Len(s) \in Nat /\ Len(s) >= 1
  BY DEF IsNumeral
<1>2. CASE Len(s) = 1
  <2>1. PICK a \in Digits : s = <<a>>
    BY <1>1, <1>2, Spelled
  <2>2. IsPadded(<<"0", "0", a>>)
    BY DigitChars DEF IsPadded
  <2> QED
    BY <2>1, <2>2, PadOfShort, ZerosInFront
<1>3. CASE Len(s) = 2
  <2>1. PICK a, b \in Digits : s = <<a, b>>
    BY <1>1, <1>3, Spelled
  <2>2. IsPadded(<<"0", a, b>>)
    BY DigitChars DEF IsPadded
  <2> QED
    BY <2>1, <2>2, PadOfShort, ZerosInFront
<1>4. CASE Len(s) >= 3
  <2>1. Pad(s) = s
    BY <1>1, <1>4, PadOfLong
  <2>2. Len(s) > 3 => Len(s) > 1
    BY <1>1
  <2> QED
    BY <1>1, <1>4, <2>1, <2>2 DEF IsPadded, IsNumeral
<1>5. \A l \in Nat : l >= 1 => l = 1 \/ l = 2 \/ l >= 3
  OBVIOUS
<1>6. Len(s) = 1 \/ Len(s) = 2 \/ Len(s) >= 3
  BY <1>1, <1>5, Zenon
<1> QED
  BY <1>2, <1>3, <1>4, <1>6

\* And such digits are the padded numeral of their number.
LEMMA UnpaddedWrites ==
  ASSUME NEW d, IsPadded(d)
  PROVE  /\ Number(d) \in Nat /\ Pad(FormatInt[Number(d)]) = d
         /\ Number(d) = 0 => d = <<"0", "0", "0">>
<1>1. /\ d \in Seq(Digits) /\ Len(d) \in Nat /\ Len(d) >= 3 /\ d[1] \in Digits
      /\ d # <<>> /\ (Len(d) > 3 => d[1] # "0")
  BY DEF IsPadded
<1>2. CASE d[1] # "0"
  <2>1. IsNumeral(d)
    BY <1>1, <1>2 DEF IsNumeral
  <2>2. Number(d) \in Nat /\ FormatInt[Number(d)] = d /\ Number(d) > 0
    BY <1>2, <2>1, ReadWrites
  <2>3. Pad(d) = d
    BY <1>1, PadOfLong
  <2> QED
    BY <2>2, <2>3
<1>3. CASE d[1] = "0"
  <2>1. Len(d) = 3
    <3>1. ~(Len(d) > 3)
      BY <1>1, <1>3
    <3>2. \A l \in Nat : l >= 3 /\ ~(l > 3) => l = 3
      OBVIOUS
    <3> QED
      BY <1>1, <3>1, <3>2, Zenon
  <2>2. PICK a, b, c \in Digits : d = <<a, b, c>>
    BY <1>1, <2>1, Spelled
  <2>3. a = "0"
    BY <1>3, <2>2
  <2>4. CASE b # "0"
    <3>1. IsNumeral(<<b, c>>)
      BY <2>4 DEF IsNumeral
    <3>2. <<b, c>>[1] = b
      OBVIOUS
    <3>3. /\ Number(<<b, c>>) \in Nat /\ Number(<<b, c>>) > 0
          /\ FormatInt[Number(<<b, c>>)] = <<b, c>>
      BY <2>4, <3>1, <3>2, ReadWrites
    <3>4. Number(d) = Number(<<b, c>>) /\ Pad(<<b, c>>) = d
      BY <2>2, <2>3, ZerosInFront, PadOfShort
    <3> QED
      BY <3>3, <3>4
  <2>5. CASE b = "0"
    <3>1. IsNumeral(<<c>>)
      BY DEF IsNumeral
    <3>2. Number(<<c>>) \in Nat /\ FormatInt[Number(<<c>>)] = <<c>>
      BY <3>1, ReadWrites
    <3>3. Number(d) = Number(<<c>>) /\ Pad(<<c>>) = d
      BY <2>2, <2>3, <2>5, ZerosInFront, PadOfShort
    <3>4. Number(<<c>>) = 0 => c = "0"
      <4>1. Number(<<c>>) = ValueOf(c)
        BY FewDigits
      <4> QED
        BY <4>1, DigitChars
    <3> QED
      BY <2>2, <2>3, <2>5, <3>2, <3>3, <3>4
  <2> QED
    BY <2>4, <2>5
<1> QED
  BY <1>2, <1>3


\* The text of digits without a sign.
Pointed(d) ==
  SubSeq(d, 1, Len(d) - 2) \o <<".">> \o SubSeq(d, Len(d) - 1, Len(d))

\* Two parts of a text put together, character by character.
LEMMA TwoParts ==
  ASSUME NEW S, NEW s \in Seq(S), NEW j \in Nat, NEW k \in Nat, j <= Len(s),
         k >= 1, k <= Len(s)
  PROVE  LET p == SubSeq(s, 1, j) \o SubSeq(s, k, Len(s))
         IN /\ p \in Seq(S) /\ Len(p) = j + ((Len(s) - k) + 1)
            /\ \A i \in 1..j : p[i] = s[i]
            /\ \A i \in (j + 1)..(j + ((Len(s) - k) + 1)) : p[i] = s[(k + i) - (j + 1)]
<1> DEFINE a == SubSeq(s, 1, j)
           b == SubSeq(s, k, Len(s))
           n == Len(s)
<1>1. n \in Nat /\ j <= n /\ k <= n /\ \A i \in 1..n : s[i] \in S
  OBVIOUS
<1>2. a \in Seq(S) /\ Len(a) = j /\ \A i \in 1..j : a[i] = s[i]
  <2>1. \A i \in 1..j : s[i] \in S
    BY <1>1
  <2>2. /\ a \in Seq(S) /\ Len(a) = (IF 1 <= j THEN (j - 1) + 1 ELSE 0)
        /\ \A i \in 1..((j - 1) + 1) : a[i] = s[(1 + i) - 1]
    BY <2>1, SubSeqProperties
  <2> HIDE DEF a
  <2>3. \A i \in 1..j : i \in 1..((j - 1) + 1) /\ (1 + i) - 1 = i
    OBVIOUS
  <2>4. Len(a) = j
    BY <2>2
  <2> QED
    BY <2>2, <2>3, <2>4
<1>3. /\ b \in Seq(S) /\ Len(b) = (n - k) + 1
      /\ \A i \in 1..((n - k) + 1) : b[i] = s[(k + i) - 1]
  <2>1. \A i \in k..n : s[i] \in S
    BY <1>1
  <2>2. /\ b \in Seq(S) /\ Len(b) = (IF k <= n THEN (n - k) + 1 ELSE 0)
        /\ \A i \in 1..((n - k) + 1) : b[i] = s[(k + i) - 1]
    BY <1>1, <2>1, SubSeqProperties
  <2> HIDE DEF b, n
  <2> QED
    BY <1>1, <2>2
<1> HIDE DEF a, b, n
<1>4. /\ a \o b \in Seq(S) /\ Len(a \o b) = Len(a) + Len(b)
      /\ \A i \in 1..(Len(a) + Len(b)) :
           (a \o b)[i] = IF i <= Len(a) THEN a[i] ELSE b[i - Len(a)]
  BY <1>2, <1>3, ConcatProperties
<1> DEFINE p == a \o b
           l == j + ((n - k) + 1)
<1>5. p \in Seq(S) /\ Len(p) = l /\ \A i \in 1..l : p[i] = IF i <= j THEN a[i] ELSE b[i - j]
  BY <1>2, <1>3, <1>4
<1> HIDE DEF p
<1>6. \A i \in 1..j : p[i] = s[i]
  <2>1. \A i \in 1..j : i \in 1..l /\ i <= j
    BY <1>1
  <2> QED
    BY <1>2, <1>5, <2>1
<1>7. \A i \in (j + 1)..l : p[i] = s[(k + i) - (j + 1)]
  <2> TAKE i \in (j + 1)..l
  <2>1. i \in 1..l /\ ~(i <= j) /\ i - j \in 1..((n - k) + 1)
    BY <1>1
  <2>2. p[i] = b[i - j]
    BY <1>5, <2>1
  <2>3. b[i - j] = s[(k + (i - j)) - 1]
    BY <1>3, <2>1
  <2>4. (k + (i - j)) - 1 = (k + i) - (j + 1)
    BY <1>1, <2>1
  <2> QED
    BY <2>2, <2>3, <2>4
<1> QED
  BY <1>5, <1>6, <1>7 DEF p, a, b, n

\* The text without its point: the third character from the end is gone.
LEMMA WithoutPointIs ==
  ASSUME NEW S, NEW u \in Seq(S), Len(u) >= 4
  PROVE  LET d == WithoutPoint(u)
             n == Len(u)
         IN /\ d \in Seq(S) /\ Len(d) = n - 1
            /\ \A i \in 1..(n - 3) : d[i] = u[i]
            /\ d[n - 2] = u[n - 1] /\ d[n - 1] = u[n]
<1> DEFINE n == Len(u)
           j == n - 3
           k == n - 1
           d == WithoutPoint(u)
<1>1. n \in Nat /\ n >= 4
  OBVIOUS
<1>2. j \in Nat /\ k \in Nat /\ j <= n /\ k >= 1 /\ k <= n
  BY <1>1
<1>3. d = SubSeq(u, 1, j) \o SubSeq(u, k, n)
  BY DEF WithoutPoint
<1> HIDE DEF d, n, j, k
<1>4. /\ d \in Seq(S) /\ Len(d) = j + ((n - k) + 1)
      /\ \A i \in 1..j : d[i] = u[i]
      /\ \A i \in (j + 1)..(j + ((n - k) + 1)) : d[i] = u[(k + i) - (j + 1)]
  BY <1>2, <1>3, TwoParts DEF n
<1>5. Len(d) = n - 1
  BY <1>1, <1>4 DEF j, k
<1>6. /\ n - 2 \in (j + 1)..(j + ((n - k) + 1)) /\ (k + (n - 2)) - (j + 1) = n - 1
      /\ n - 1 \in (j + 1)..(j + ((n - k) + 1)) /\ (k + (n - 1)) - (j + 1) = n
  BY <1>1 DEF j, k
<1>7. d[n - 2] = u[n - 1] /\ d[n - 1] = u[n]
  BY <1>4, <1>6
<1> QED
  BY <1>4, <1>5, <1>7 DEF d, n, j


\* The text with its point.
LEMMA PointedIs ==
  ASSUME NEW S, NEW d \in Seq(S), "." \in S, Len(d) >= 3
  PROVE  LET u == Pointed(d)
             n == Len(d)
         IN /\ u \in Seq(S) /\ Len(u) = n + 1
            /\ \A i \in 1..(n - 2) : u[i] = d[i]
            /\ u[n - 1] = "." /\ u[n] = d[n - 1] /\ u[n + 1] = d[n]
<1> DEFINE n == Len(d)
           a == SubSeq(d, 1, n - 2)
           b == SubSeq(d, n - 1, n)
           c == <<".">>
           u == (a \o c) \o b
<1>1. n \in Nat /\ n >= 3 /\ \A i \in 1..n : d[i] \in S
  OBVIOUS
<1>2. a \in Seq(S) /\ Len(a) = n - 2 /\ \A i \in 1..(n - 2) : a[i] = d[i]
  <2>1. n - 2 \in Int /\ \A i \in 1..(n - 2) : d[i] \in S
    BY <1>1
  <2>2. /\ a \in Seq(S) /\ Len(a) = (IF 1 <= n - 2 THEN ((n - 2) - 1) + 1 ELSE 0)
        /\ \A i \in 1..(((n - 2) - 1) + 1) : a[i] = d[(1 + i) - 1]
    BY <2>1, SubSeqProperties
  <2> HIDE DEF a, n
  <2>3. \A i \in 1..(n - 2) : i \in 1..(((n - 2) - 1) + 1) /\ (1 + i) - 1 = i
    BY <1>1
  <2>4. Len(a) = n - 2
    BY <1>1, <2>2
  <2> QED
    BY <2>2, <2>3, <2>4
<1>3. b \in Seq(S) /\ Len(b) = 2 /\ b[1] = d[n - 1] /\ b[2] = d[n]
  <2>1. n - 1 \in Int /\ n \in Int /\ \A i \in (n - 1)..n : d[i] \in S
    BY <1>1
  <2>2. /\ b \in Seq(S) /\ Len(b) = (IF n - 1 <= n THEN (n - (n - 1)) + 1 ELSE 0)
        /\ \A i \in 1..((n - (n - 1)) + 1) : b[i] = d[((n - 1) + i) - 1]
    BY <2>1, SubSeqProperties
  <2> HIDE DEF b, n
  <2>3. /\ 1 \in 1..((n - (n - 1)) + 1) /\ ((n - 1) + 1) - 1 = n - 1
        /\ 2 \in 1..((n - (n - 1)) + 1) /\ ((n - 1) + 2) - 1 = n
    BY <1>1
  <2>4. Len(b) = 2
    BY <1>1, <2>2
  <2> QED
    BY <2>2, <2>3, <2>4
<1>4. c \in Seq(S) /\ Len(c) = 1 /\ c[1] = "."
  OBVIOUS
<1> HIDE DEF a, b, c, n
<1> DEFINE ac == a \o c
<1>5. ac \in Seq(S) /\ Len(ac) = n - 1 /\ ac[n - 1] = "." /\ \A i \in 1..(n - 2) : ac[i] = d[i]
  <2>1. /\ ac \in Seq(S) /\ Len(ac) = Len(a) + Len(c)
        /\ \A i \in 1..(Len(a) + Len(c)) :
             ac[i] = IF i <= Len(a) THEN a[i] ELSE c[i - Len(a)]
    BY <1>2, <1>4, ConcatProperties
  <2> HIDE DEF ac
  <2>2. Len(a) + Len(c) = n - 1
    BY <1>1, <1>2, <1>4
  <2>3. n - 1 \in 1..(n - 1) /\ ~(n - 1 <= n - 2) /\ (n - 1) - (n - 2) = 1
    BY <1>1
  <2>4. ac[n - 1] = "."
    BY <1>2, <1>4, <2>1, <2>2, <2>3
  <2>5. \A i \in 1..(n - 2) : i \in 1..(n - 1) /\ i <= n - 2
    BY <1>1
  <2> QED
    BY <1>2, <2>1, <2>2, <2>4, <2>5
<1> HIDE DEF ac
<1>6. u = ac \o b
  BY DEF ac
<1>7. /\ u \in Seq(S) /\ Len(u) = Len(ac) + Len(b)
      /\ \A i \in 1..(Len(ac) + Len(b)) :
           u[i] = IF i <= Len(ac) THEN ac[i] ELSE b[i - Len(ac)]
  <2>1. /\ ac \o b \in Seq(S) /\ Len(ac \o b) = Len(ac) + Len(b)
        /\ \A i \in 1..(Len(ac) + Len(b)) :
             (ac \o b)[i] = IF i <= Len(ac) THEN ac[i] ELSE b[i - Len(ac)]
    BY <1>3, <1>5, ConcatProperties
  <2> HIDE DEF u
  <2> QED
    BY <1>6, <2>1
<1>8. u = Pointed(d)
  BY DEF Pointed, a, b, c, n
<1> HIDE DEF u
<1>9. Len(ac) = n - 1 /\ Len(ac) + Len(b) = n + 1
  BY <1>1, <1>3, <1>5
<1>10. \A i \in 1..(n - 2) : u[i] = d[i]
  <2>1. \A i \in 1..(n - 2) : i \in 1..(n + 1) /\ i <= n - 1
    BY <1>1
  <2> QED
    BY <1>5, <1>7, <1>9, <2>1
<1>11. u[n - 1] = "."
  <2>1. n - 1 \in 1..(n + 1) /\ n - 1 <= n - 1
    BY <1>1
  <2> QED
    BY <1>5, <1>7, <1>9, <2>1
<1>12. u[n] = d[n - 1] /\ u[n + 1] = d[n]
  <2>1. /\ n \in 1..(n + 1) /\ ~(n <= n - 1) /\ n - (n - 1) = 1
        /\ n + 1 \in 1..(n + 1) /\ ~(n + 1 <= n - 1) /\ (n + 1) - (n - 1) = 2
    BY <1>1
  <2> QED
    BY <1>3, <1>7, <1>9, <2>1
<1> QED
  BY <1>7, <1>8, <1>9, <1>10, <1>11, <1>12 DEF n

\* A text over one alphabet is one over any that has its characters.
LEMMA SmallerAlphabet ==
  ASSUME NEW S, NEW s \in Seq(S), NEW T, \A i \in 1..Len(s) : s[i] \in T
  PROVE  s \in Seq(T)
  OBVIOUS

\* amountRegex after the sign.
IsPointed(u) ==
  LET n == Len(u)
  IN /\ n >= 4 /\ u[n - 2] = "."
     /\ \A i \in (1..n) \ {n - 2} : IsDigit(u[i])
     /\ n > 4 => u[1] # "0"

\* What texts of amounts are made of.
Characters == Digits \cup {".", "-"}

\* Taking the point out of padded digits with a point gives them back,
LEMMA PointedDigits ==
  ASSUME NEW d, IsPadded(d)
  PROVE  LET u == Pointed(d)
         IN /\ u \in Seq(Characters) /\ IsPointed(u) /\ u # <<>> /\ u[1] # "-"
            /\ WithoutPoint(u) = d
<1> DEFINE n == Len(d)
           u == Pointed(d)
<1>1. /\ d \in Seq(Digits) /\ n \in Nat /\ n >= 3 /\ d \in Seq(Characters)
      /\ "." \in Characters /\ \A i \in 1..n : d[i] \in Digits
  <2>1. d \in Seq(Digits) /\ n \in Nat /\ n >= 3
    BY DEF IsPadded
  <2>2. \A i \in 1..n : d[i] \in Digits
    BY <2>1
  <2>3. \A i \in 1..n : d[i] \in Characters
    BY <2>2 DEF Characters
  <2>4. d \in Seq(Characters)
    BY <2>1, <2>3, SmallerAlphabet
  <2> QED
    BY <2>1, <2>2, <2>4 DEF Characters
<1>2. n > 3 => d[1] # "0"
  BY DEF IsPadded
<1>3. /\ u \in Seq(Characters) /\ Len(u) = n + 1
      /\ \A i \in 1..(n - 2) : u[i] = d[i]
      /\ u[n - 1] = "." /\ u[n] = d[n - 1] /\ u[n + 1] = d[n]
  BY <1>1, PointedIs
<1> HIDE DEF n, u
<1>4. u[1] = d[1] /\ d[1] \in Digits
  <2>1. 1 \in 1..(n - 2) /\ 1 \in 1..n
    BY <1>1
  <2> QED
    BY <1>1, <1>3, <2>1
<1>5. u[1] # "-"
  BY <1>4, DigitChars
<1>6. IsPointed(u)
  <2>1. n + 1 >= 4 /\ (n + 1) - 2 = n - 1 /\ (n + 1 > 4 => n > 3)
    BY <1>1
  <2>2. ASSUME NEW i \in (1..(n + 1)) \ {n - 1} PROVE u[i] \in Digits
    <3>1. i \in 1..(n - 2) \/ i = n \/ i = n + 1
      BY <1>1
    <3>2. n - 1 \in 1..n /\ n \in 1..n /\ \A j \in 1..(n - 2) : j \in 1..n
      BY <1>1
    <3> QED
      BY <1>1, <1>3, <3>1, <3>2
  <2> QED
    BY <1>2, <1>3, <1>4, <2>1, <2>2, DigitChars DEF IsPointed
<1>7. WithoutPoint(u) = d
  <2> DEFINE w == WithoutPoint(u)
             l == n + 1
  <2>1. Len(u) >= 4
    BY <1>1, <1>3
  <2>2. /\ w \in Seq(Characters) /\ Len(w) = l - 1
        /\ \A i \in 1..(l - 3) : w[i] = u[i]
        /\ w[l - 2] = u[l - 1] /\ w[l - 1] = u[l]
    BY <1>3, <2>1, WithoutPointIs
  <2> HIDE DEF w
  <2>3. l - 1 = n /\ l - 2 = n - 1 /\ l - 3 = n - 2
    BY <1>1
  <2>4. /\ Len(w) = n /\ \A i \in 1..(n - 2) : w[i] = d[i]
        /\ w[n - 1] = d[n - 1] /\ w[n] = d[n]
    BY <1>3, <2>2, <2>3
  <2>5. \A i \in 1..n : i \in 1..(n - 2) \/ i = n - 1 \/ i = n
    BY <1>1
  <2>6. \A i \in 1..n : w[i] = d[i]
    BY <2>4, <2>5
  <2>7. w = d
    BY <1>1, <2>2, <2>4, <2>6, SameText DEF n
  <2> QED
    BY <2>7 DEF w
<1>8. u # <<>>
  BY <1>1, <1>3
<1> QED
  BY <1>3, <1>5, <1>6, <1>7, <1>8 DEF u

\* and putting it back gives the text that had it.
LEMMA WithoutPointDigits ==
  ASSUME NEW S, NEW u \in Seq(S), IsPointed(u)
  PROVE  IsPadded(WithoutPoint(u)) /\ Pointed(WithoutPoint(u)) = u
<1> DEFINE n == Len(u)
           d == WithoutPoint(u)
<1>1. /\ n \in Nat /\ n >= 4 /\ u[n - 2] = "." /\ (n > 4 => u[1] # "0")
      /\ \A i \in (1..n) \ {n - 2} : u[i] \in Digits
  BY DigitChars DEF IsPointed
<1>2. /\ d \in Seq(S) /\ Len(d) = n - 1
      /\ \A i \in 1..(n - 3) : d[i] = u[i]
      /\ d[n - 2] = u[n - 1] /\ d[n - 1] = u[n]
  BY <1>1, WithoutPointIs
<1>3. "." \in S
  <2>1. n - 2 \in 1..n
    BY <1>1
  <2>2. u[n - 2] \in S
    BY <2>1
  <2> QED
    BY <1>1, <2>2
<1> HIDE DEF n, d
<1>4. \A i \in 1..(n - 1) : d[i] \in Digits
  <2> TAKE i \in 1..(n - 1)
  <2>1. i \in 1..(n - 3) \/ i = n - 2 \/ i = n - 1
    BY <1>1
  <2>2. /\ n - 1 \in (1..n) \ {n - 2} /\ n \in (1..n) \ {n - 2}
        /\ \A j \in 1..(n - 3) : j \in (1..n) \ {n - 2}
    BY <1>1
  <2> QED
    BY <1>1, <1>2, <2>1, <2>2
<1>5. d \in Seq(Digits)
  BY <1>2, <1>4, SmallerAlphabet
<1>6. IsPadded(d)
  <2>1. Len(d) >= 3 /\ (Len(d) > 3 => n > 4) /\ 1 \in 1..(n - 3)
    BY <1>1, <1>2
  <2>2. d[1] = u[1]
    BY <1>2, <2>1
  <2> QED
    BY <1>1, <1>5, <2>1, <2>2 DEF IsPadded
<1>7. Pointed(d) = u
  <2> DEFINE p == Pointed(d)
             l == n - 1
  <2>1. Len(d) >= 3
    BY <1>1, <1>2
  <2>2. /\ p \in Seq(S) /\ Len(p) = l + 1
        /\ \A i \in 1..(l - 2) : p[i] = d[i]
        /\ p[l - 1] = "." /\ p[l] = d[l - 1] /\ p[l + 1] = d[l]
    BY <1>2, <1>3, <2>1, PointedIs
  <2> HIDE DEF p
  <2>3. l + 1 = n /\ l - 1 = n - 2 /\ l - 2 = n - 3
    BY <1>1
  <2>4. /\ Len(p) = n /\ \A i \in 1..(n - 3) : p[i] = u[i]
        /\ p[n - 2] = u[n - 2] /\ p[n - 1] = u[n - 1] /\ p[n] = u[n]
    BY <1>1, <1>2, <2>2, <2>3
  <2>5. \A i \in 1..n : i \in 1..(n - 3) \/ i = n - 2 \/ i = n - 1 \/ i = n
    BY <1>1
  <2>6. \A i \in 1..n : p[i] = u[i]
    BY <2>4, <2>5
  <2>7. p = u
    BY <2>2, <2>4, <2>6, SameText DEF n
  <2> QED
    BY <2>7 DEF p
<1> QED
  BY <1>6, <1>7 DEF d


\* Format is the sign and the padded digits with their point.
LEMMA FormatIs ==
  ASSUME NEW a \in Int
  PROVE  LET k == IF a < 0 THEN -a ELSE a
             d == Pad(FormatInt[k])
         IN /\ k \in Nat /\ IsPadded(d) /\ Number(d) = k
            /\ Format(a) = (IF a < 0 THEN <<"-">> ELSE <<>>) \o Pointed(d)
<1> DEFINE k == IF a < 0 THEN -a ELSE a
           d == Pad(FormatInt[k])
           n == Len(d)
           sign == IF a < 0 THEN <<"-">> ELSE <<>>
           head == SubSeq(d, 1, n - 2)
           tail == SubSeq(d, n - 1, n)
           dot == <<".">>
<1>1. k \in Nat
  OBVIOUS
<1> HIDE DEF k
<1>2. IsPadded(d) /\ Number(d) = k
  BY <1>1, WrittenReads, PaddedReads
<1> HIDE DEF d
<1>3. d \in Seq(Characters) /\ n \in Nat /\ n >= 3 /\ \A i \in 1..n : d[i] \in Characters
  <2>1. d \in Seq(Digits) /\ n \in Nat /\ n >= 3
    BY <1>2 DEF IsPadded
  <2>2. \A i \in 1..n : d[i] \in Digits
    BY <2>1
  <2>3. \A i \in 1..n : d[i] \in Characters
    BY <2>2 DEF Characters
  <2> QED
    BY <2>1, <2>3, SmallerAlphabet
<1> HIDE DEF n
<1>4. head \in Seq(Characters) /\ tail \in Seq(Characters)
  <2>1. /\ n - 2 \in Int /\ n - 1 \in Int /\ n \in Int
        /\ \A i \in 1..(n - 2) : i \in 1..n
        /\ \A i \in (n - 1)..n : i \in 1..n
    BY <1>3
  <2> QED
    BY <1>3, <2>1, SubSeqProperties
<1>5. sign \in Seq(Characters) /\ dot \in Seq(Characters)
  <2>1. "-" \in Characters /\ "." \in Characters
    BY DEF Characters
  <2>2. <<"-">> \in Seq(Characters) /\ <<>> \in Seq(Characters)
    BY <2>1
  <2>3. <<".">> \in Seq(Characters)
    BY <2>1
  <2> QED
    BY <2>2, <2>3
<1>6. (n - 2) + 1 = n - 1 /\ (n - 2) + 2 = n
  BY <1>3
<1>7. Format(a) = ((sign \o head) \o dot) \o tail
  BY <1>6 DEF Format, k, d, n
<1>8. Pointed(d) = (head \o dot) \o tail
  BY DEF Pointed, n
<1> HIDE DEF sign, head, tail, dot
<1>9. /\ (sign \o head) \o dot = sign \o (head \o dot)
      /\ head \o dot \in Seq(Characters)
  BY <1>4, <1>5, ConcatAssociative, ConcatProperties
<1>10. (sign \o (head \o dot)) \o tail = sign \o ((head \o dot) \o tail)
  <2> DEFINE whole == head \o dot
  <2>1. whole \in Seq(Characters)
    BY <1>9
  <2> HIDE DEF whole
  <2>2. (sign \o whole) \o tail = sign \o (whole \o tail)
    BY <1>4, <1>5, <2>1, ConcatAssociative
  <2> QED
    BY <2>2 DEF whole
<1>11. Format(a) = sign \o Pointed(d)
  BY <1>7, <1>8, <1>9, <1>10
<1> QED
  BY <1>1, <1>2, <1>11 DEF k, d, sign

\* One character in front of a text.
LEMMA InFront ==
  ASSUME NEW S, NEW x \in S, NEW s \in Seq(S)
  PROVE  LET t == <<x>> \o s
         IN /\ t \in Seq(S) /\ Len(t) = 1 + Len(s)
            /\ \A i \in 1..(1 + Len(s)) : t[i] = IF i <= 1 THEN x ELSE s[i - 1]
<1> DEFINE c == <<x>>
<1>1. c \in Seq(S) /\ Len(c) = 1 /\ c[1] = x /\ Len(s) \in Nat
  OBVIOUS
<1> HIDE DEF c
<1>2. /\ c \o s \in Seq(S) /\ Len(c \o s) = Len(c) + Len(s)
      /\ \A i \in 1..(Len(c) + Len(s)) :
           (c \o s)[i] = IF i <= Len(c) THEN c[i] ELSE s[i - Len(c)]
  BY <1>1, ConcatProperties
<1>3. \A i \in 1..(1 + Len(s)) : i <= 1 => i = 1
  BY <1>1
<1>4. \A i \in 1..(1 + Len(s)) : (c \o s)[i] = IF i <= 1 THEN x ELSE s[i - 1]
  BY <1>1, <1>2, <1>3
<1> QED
  BY <1>1, <1>2, <1>4 DEF c

\* A text with a sign in front of it, taken apart.
LEMMA Signed ==
  ASSUME NEW S, NEW u \in Seq(S), u # <<>>, "-" \in S
  PROVE  /\ IsSigned(<<"-">> \o u) /\ Unsigned(<<"-">> \o u) = u
         /\ u[1] # "-" => ~IsSigned(u) /\ Unsigned(u) = u
         /\ IsSigned(u) => u = <<"-">> \o Unsigned(u)
         /\ Unsigned(u) \in Seq(S)
<1> DEFINE c == <<"-">>
           t == c \o u
<1>1. Len(u) \in Nat /\ Len(u) >= 1
  OBVIOUS
<1>2. /\ t \in Seq(S) /\ Len(t) = 1 + Len(u)
      /\ \A i \in 1..(1 + Len(u)) : t[i] = IF i <= 1 THEN "-" ELSE u[i - 1]
  BY InFront
<1> HIDE DEF t
<1>3. t # <<>> /\ t[1] = "-" /\ Head(t) = t[1]
  BY <1>1, <1>2
<1>4. Tail(t) = u
  <2>1. /\ Tail(t) \in Seq(S) /\ Len(Tail(t)) = Len(t) - 1
        /\ \A i \in 1..Len(Tail(t)) : Tail(t)[i] = t[i + 1]
    BY <1>2, <1>3, HeadTailProperties
  <2>2. Len(Tail(t)) = Len(u)
    BY <1>1, <1>2, <2>1
  <2>3. \A i \in 1..Len(u) : t[i + 1] = u[i]
    <3> TAKE i \in 1..Len(u)
    <3>1. i + 1 \in 1..(1 + Len(u)) /\ ~(i + 1 <= 1) /\ (i + 1) - 1 = i
      BY <1>1
    <3> QED
      BY <1>2, <3>1
  <2> QED
    BY <2>1, <2>2, <2>3, SameText
<1>5. IsSigned(t) /\ Unsigned(t) = u
  BY <1>3, <1>4 DEF IsSigned, Unsigned
<1>6. Head(u) = u[1]
  OBVIOUS
<1>7. ASSUME u[1] # "-" PROVE ~IsSigned(u) /\ Unsigned(u) = u
  BY <1>6, <1>7 DEF IsSigned, Unsigned
<1>8. /\ Tail(u) \in Seq(S) /\ Len(Tail(u)) = Len(u) - 1
      /\ \A i \in 1..Len(Tail(u)) : Tail(u)[i] = u[i + 1]
  BY HeadTailProperties
<1>9. ASSUME IsSigned(u) PROVE u = c \o Unsigned(u)
  <2> DEFINE w == Tail(u)
  <2>1. u[1] = "-" /\ Unsigned(u) = w
    BY <1>6, <1>9 DEF IsSigned, Unsigned
  <2> HIDE DEF w
  <2>2. w \in Seq(S) /\ Len(w) = Len(u) - 1 /\ \A i \in 1..Len(w) : w[i] = u[i + 1]
    BY <1>8 DEF w
  <2>3. /\ c \o w \in Seq(S) /\ Len(c \o w) = 1 + Len(w)
        /\ \A i \in 1..(1 + Len(w)) : (c \o w)[i] = IF i <= 1 THEN "-" ELSE w[i - 1]
    BY <2>2, InFront
  <2> HIDE DEF c
  <2>4. 1 + Len(w) = Len(u)
    BY <1>1, <2>2
  <2>5. \A i \in 1..Len(u) : (c \o w)[i] = u[i]
    <3> TAKE i \in 1..Len(u)
    <3>1. CASE i = 1
      BY <1>1, <2>1, <2>3, <2>4, <3>1
    <3>2. CASE i # 1
      <4>1. /\ ~(i <= 1) /\ i - 1 \in 1..Len(w) /\ (i - 1) + 1 = i
            /\ i \in 1..(1 + Len(w))
        BY <1>1, <2>2, <3>2
      <4> QED
        BY <2>2, <2>3, <4>1
    <3> QED
      BY <3>1, <3>2
  <2>6. c \o w = u
    BY <2>3, <2>4, <2>5, SameText
  <2> QED
    BY <2>1, <2>6
<1>10. Unsigned(u) \in Seq(S)
  BY <1>8 DEF Unsigned
<1> QED
  BY <1>5, <1>7, <1>9, <1>10 DEF t, c


\* The only text that the syntax admits and IsAmount refuses.
LEMMA NegativeZero ==
  /\ IsPadded(<<"0", "0", "0">>) /\ Number(<<"0", "0", "0">>) = 0
  /\ <<"-">> \o Pointed(<<"0", "0", "0">>) = <<"-", "0", ".", "0", "0">>
<1> DEFINE d == <<"0", "0", "0">>
           u == Pointed(d)
           t == <<"-", "0", ".", "0", "0">>
           p == <<"-">> \o u
<1>1. "0" \in Characters /\ "." \in Characters /\ "-" \in Characters /\ "0" \in Digits
  BY DigitChars DEF Characters
<1>2. d \in Seq(Digits) /\ d \in Seq(Characters) /\ Len(d) = 3 /\ \A i \in 1..3 : d[i] = "0"
  BY <1>1
<1>3. t \in Seq(Characters) /\ Len(t) = 5
      /\ t[1] = "-" /\ t[2] = "0" /\ t[3] = "." /\ t[4] = "0" /\ t[5] = "0"
  BY <1>1
<1>4. IsPadded(d)
  BY <1>2 DEF IsPadded
<1>5. Number(d) = 10 * (10 * 0 + 0) + 0
  BY <1>1, FewDigits, DigitChars
<1> HIDE DEF d, t
<1>6. /\ u \in Seq(Characters) /\ Len(u) = Len(d) + 1
      /\ \A i \in 1..(Len(d) - 2) : u[i] = d[i]
      /\ u[Len(d) - 1] = "." /\ u[Len(d)] = d[Len(d) - 1] /\ u[Len(d) + 1] = d[Len(d)]
  <2>1. Len(d) >= 3
    BY <1>2
  <2> QED
    BY <1>1, <1>2, <2>1, PointedIs
<1> HIDE DEF u
<1>7. Len(u) = 4 /\ u[1] = "0" /\ u[2] = "." /\ u[3] = "0" /\ u[4] = "0"
  <2>1. /\ 1 \in 1..(Len(d) - 2) /\ 1 \in 1..3 /\ 2 \in 1..3 /\ 3 \in 1..3
        /\ Len(d) - 1 = 2 /\ Len(d) + 1 = 4
    BY <1>2
  <2> QED
    BY <1>2, <1>6, <2>1
<1>8. /\ p \in Seq(Characters) /\ Len(p) = 1 + Len(u)
      /\ \A i \in 1..(1 + Len(u)) : p[i] = IF i <= 1 THEN "-" ELSE u[i - 1]
  <2>1. u \in Seq(Characters) /\ "-" \in Characters
    BY <1>1, <1>6
  <2> QED
    BY <2>1, InFront
<1> HIDE DEF p
<1>9. Len(p) = 5 /\ \A i \in 1..5 : p[i] = t[i]
  <2>1. Len(p) = 5 /\ \A i \in 1..5 : p[i] = IF i <= 1 THEN "-" ELSE u[i - 1]
    BY <1>7, <1>8
  <2>2. \A i \in 1..5 : i = 1 \/ i = 2 \/ i = 3 \/ i = 4 \/ i = 5
    OBVIOUS
  <2>3. p[1] = "-" /\ p[2] = u[1] /\ p[3] = u[2] /\ p[4] = u[3] /\ p[5] = u[4]
    BY <2>1
  <2> QED
    BY <1>3, <1>7, <2>1, <2>2, <2>3
<1>10. p = t
  BY <1>3, <1>8, <1>9, SameText
<1> QED
  BY <1>4, <1>5, <1>10 DEF p, u, d, t

\* What MarshalJSON writes, New reads back.
LEMMA WrittenIsRead ==
  ASSUME NEW a \in Int
  PROVE  IsAmount(Format(a)) /\ ParseInt(Format(a)) = a
<1>1. PICK k, d : /\ k = IF a < 0 THEN -a ELSE a
                  /\ k \in Nat /\ IsPadded(d) /\ Number(d) = k
                  /\ Format(a) = (IF a < 0 THEN <<"-">> ELSE <<>>) \o Pointed(d)
  BY FormatIs
<1>2. PICK u : u = Pointed(d)
  OBVIOUS
<1>3. /\ u \in Seq(Characters) /\ IsPointed(u) /\ u # <<>> /\ u[1] # "-"
      /\ WithoutPoint(u) = d
  BY <1>1, <1>2, PointedDigits
<1>4. "-" \in Characters
  BY DEF Characters
<1>5. CASE a < 0
  <2>1. Format(a) = <<"-">> \o u
    BY <1>1, <1>2, <1>5
  <2>2. IsSigned(Format(a)) /\ Unsigned(Format(a)) = u
    BY <1>3, <1>4, <2>1, Signed
  <2>3. ParseInt(Format(a)) = -k
    BY <1>1, <1>3, <2>2 DEF ParseInt
  <2>4. MatchesRegex(Format(a))
    BY <1>3, <2>2 DEF MatchesRegex, IsPointed
  <2>5. Format(a) # <<"-", "0", ".", "0", "0">>
    <3> SUFFICES ASSUME Format(a) = <<"-", "0", ".", "0", "0">> PROVE FALSE
      OBVIOUS
    <3> DEFINE z == <<"0", "0", "0">>
               v == Pointed(z)
    <3>1. IsPadded(z) /\ Number(z) = 0 /\ Format(a) = <<"-">> \o v
      BY NegativeZero
    <3> HIDE DEF z
    <3>2. v \in Seq(Characters) /\ v # <<>> /\ WithoutPoint(v) = z
      BY <3>1, PointedDigits
    <3> HIDE DEF v
    <3>3. Unsigned(Format(a)) = v
      BY <1>4, <3>1, <3>2, Signed
    <3>4. k = 0
      BY <1>1, <1>3, <2>2, <3>1, <3>2, <3>3
    <3> QED
      BY <1>1, <1>5, <3>4
  <2>6. -k = a
    BY <1>1, <1>5
  <2> QED
    BY <2>3, <2>4, <2>5, <2>6 DEF IsAmount
<1>6. CASE ~(a < 0)
  <2>1. Format(a) = u
    <3>1. <<>> \o u = u
      BY <1>3, ConcatEmptySeq
    <3> QED
      BY <1>1, <1>2, <1>6, <3>1
  <2>2. ~IsSigned(u) /\ Unsigned(u) = u
    BY <1>3, <1>4, Signed
  <2>3. ParseInt(u) = k /\ MatchesRegex(u)
    BY <1>1, <1>3, <2>2 DEF ParseInt, MatchesRegex, IsPointed
  <2>4. u # <<"-", "0", ".", "0", "0">>
    <3>1. <<"-", "0", ".", "0", "0">>[1] = "-"
      OBVIOUS
    <3> QED
      BY <1>3, <3>1
  <2> QED
    BY <1>1, <1>6, <2>1, <2>3, <2>4 DEF IsAmount
<1> QED
  BY <1>5, <1>6

\* And what New reads, MarshalJSON writes again.
LEMMA ReadIsWritten ==
  ASSUME NEW S, NEW t \in Seq(S), IsAmount(t)
  PROVE  ParseInt(t) \in Int /\ Format(ParseInt(t)) = t
<1>1. PICK u : u = Unsigned(t)
  OBVIOUS
<1>2. IsPointed(u)
  BY <1>1 DEF IsAmount, MatchesRegex, IsPointed
<1>3. t # <<>>
  <2> SUFFICES ASSUME t = <<>> PROVE FALSE
    OBVIOUS
  <2>1. u = <<>>
    BY <1>1 DEF Unsigned, IsSigned
  <2>2. Len(u) = 0
    BY <2>1
  <2> QED
    BY <1>2, <2>2 DEF IsPointed
<1> DEFINE C == S \cup {"-"}
<1>4. t \in Seq(C) /\ "-" \in C
  <2>1. \A i \in 1..Len(t) : t[i] \in C
    OBVIOUS
  <2> QED
    BY <2>1, SmallerAlphabet
<1> HIDE DEF C
<1>5. /\ IsSigned(t) => t = <<"-">> \o u
      /\ u \in Seq(C)
      /\ ~IsSigned(t) => u = t
  BY <1>1, <1>3, <1>4, Signed DEF Unsigned
<1>6. PICK d : d = WithoutPoint(u)
  OBVIOUS
<1>7. IsPadded(d) /\ Pointed(d) = u
  BY <1>2, <1>5, <1>6, WithoutPointDigits
<1>8. PICK k \in Nat : k = Number(d)
  BY <1>7, UnpaddedWrites
<1>9. Pad(FormatInt[k]) = d
  BY <1>7, <1>8, UnpaddedWrites
<1>10. CASE IsSigned(t)
  <2>1. ParseInt(t) = -k
    BY <1>1, <1>6, <1>8, <1>10 DEF ParseInt
  <2>2. k # 0
    <3> SUFFICES ASSUME k = 0 PROVE FALSE
      OBVIOUS
    <3>1. d = <<"0", "0", "0">>
      BY <1>7, <1>8, UnpaddedWrites
    <3>2. t = <<"-", "0", ".", "0", "0">>
      BY <1>5, <1>7, <1>10, <3>1, NegativeZero
    <3> QED
      BY <3>2 DEF IsAmount
  <2> DEFINE a == -k
  <2>3. a \in Int /\ a < 0 /\ -a = k
    BY <2>2
  <2> HIDE DEF a
  <2>4. Format(a) = <<"-">> \o Pointed(Pad(FormatInt[IF a < 0 THEN -a ELSE a]))
    BY <2>3, FormatIs
  <2>5. Format(a) = <<"-">> \o Pointed(Pad(FormatInt[k]))
    BY <2>3, <2>4
  <2>6. Format(a) = t
    BY <1>5, <1>7, <1>9, <1>10, <2>5
  <2> QED
    BY <2>1, <2>3, <2>6 DEF a
<1>11. CASE ~IsSigned(t)
  <2>1. ParseInt(t) = k
    BY <1>1, <1>6, <1>8, <1>11 DEF ParseInt
  <2>2. Format(k) = <<>> \o Pointed(Pad(FormatInt[IF k < 0 THEN -k ELSE k]))
    <3>1. k \in Int /\ ~(k < 0)
      OBVIOUS
    <3> QED
      BY <3>1, FormatIs
  <2>3. (IF k < 0 THEN -k ELSE k) = k
    OBVIOUS
  <2>4. Format(k) = <<>> \o u
    BY <1>7, <1>9, <2>2, <2>3
  <2>5. <<>> \o u = u
    BY <1>5, ConcatEmptySeq
  <2> QED
    BY <1>5, <1>11, <2>1, <2>4, <2>5
<1> QED
  BY <1>10, <1>11

-----------------------------------------------------------------------------
\* Reading and writing give texts that are right, and nothing else gives one.
LEMMA StepKeepsText == IInv /\ OneTextPerAmount /\ [Next]_vars => OneTextPerAmount'
<1> SUFFICES ASSUME IInv, OneTextPerAmount, [Next]_vars PROVE OneTextPerAmount'
  OBVIOUS
<1>1. ASSUME text' = <<>> PROVE OneTextPerAmount'
  BY <1>1 DEF OneTextPerAmount
<1>2. ASSUME NEW code \in Codes, NEW t \in Texts, New(code, t)
      PROVE  OneTextPerAmount'
  <2>1. CASE text' = <<>>
    BY <1>1, <2>1
  <2>2. CASE IsAmount(t) /\ Give(code, ParseInt(t), t)
    <3>1. Format(ParseInt(t)) = t
      BY <2>2, MoneyAssumption, ReadIsWritten
    <3>2. m'.amount = ParseInt(t) /\ text' = t
      BY <2>2 DEF Give
    <3> QED
      BY <2>2, <3>1, <3>2 DEF OneTextPerAmount
  <2> QED
    BY <1>2, <2>1, <2>2 DEF New, Fail
<1>3. ASSUME NEW code \in Codes, NEW b \in Operands, FromMinorUnits(code, b)
      PROVE  OneTextPerAmount'
  <2>1. text' = <<>>
    BY <1>3 DEF FromMinorUnits, Give, Fail
  <2> QED
    BY <1>1, <2>1
<1>4. ASSUME NEW code \in Currencies, NEW b \in Operands,
             Add(code, b) \/ Subtract(code, b)
      PROVE  OneTextPerAmount'
  <2>1. text' = <<>>
    BY <1>4 DEF Add, Subtract, GiveSum, Give, Fail
  <2> QED
    BY <1>1, <2>1
<1>5. CASE Negate
  <2>1. text' = <<>>
    BY <1>5 DEF Negate, Give, Fail
  <2> QED
    BY <1>1, <2>1
<1>6. CASE MarshalJSON
  <2>1. m' = m /\ m.amount \in Int /\ text' = Format(m.amount)
    BY <1>6, MoneyAssumption
    DEF MarshalJSON, IInv, TypeOK, Moneys, Amounts, MinAmount, MaxAmount
  <2>2. IsAmount(Format(m.amount)) /\ ParseInt(Format(m.amount)) = m.amount
    BY <2>1, WrittenIsRead
  <2> QED
    BY <2>1, <2>2 DEF OneTextPerAmount
<1>7. CASE UNCHANGED vars
  BY <1>7 DEF vars, OneTextPerAmount
<1> QED
  BY <1>2, <1>3, <1>4, <1>5, <1>6, <1>7 DEF Next

\* Money's New accepts of an amount exactly the text that amountString writes
\* for it, and reads that text back as the amount: for every width of the
\* integers and every set of texts.
THEOREM OneText == Spec => []OneTextPerAmount
<1>1. Init => IInv /\ OneTextPerAmount
  BY InitIsExact DEF Init, OneTextPerAmount
<1>2. IInv /\ OneTextPerAmount /\ [Next]_vars => (IInv /\ OneTextPerAmount)'
  BY StepIsExact, StepKeepsText
<1> QED
  BY <1>1, <1>2, PTL DEF Spec

=============================================================================
