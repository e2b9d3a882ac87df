------------------------------- MODULE Money --------------------------------
(***************************************************************************)
(* The arithmetic and the text form of money.Money.  One value is made,    *)
(* from a text or from minor units, and then goes through operations, each *)
(* of which gives a new value or an error.                                 *)
(*                                                                         *)
(* int64 is any two's complement width: -Half..Half-1.  A text is a        *)
(* sequence of characters.                                                 *)
(***************************************************************************)
EXTENDS Integers, Sequences

CONSTANTS
  Half,        \* 2^63: how many amounts are negative
  Currencies,  \* ISO codes
  Codes,       \* what a caller may give as a currency
  Texts,       \* what a caller may give as an amount
  Operands,    \* amounts that are read from Postgres or added
  NoMoney      \* nothing made yet

MinAmount == -Half
MaxAmount == Half - 1
Amounts == MinAmount..MaxAmount

Moneys == [currency : Currencies, amount : Amounts]

ASSUME MoneyAssumption ==
  /\ Half \in Nat \ {0}
  /\ Currencies \subseteq Codes
  /\ Texts \subseteq Seq(STRING) /\ Operands \subseteq Amounts
  /\ NoMoney \notin Moneys

VARIABLES
  m,      \* the value
  error,  \* of the last operation: "none", "overflow", "mismatch", "invalid"
  exact,  \* the result of the last operation in unbounded arithmetic
  text    \* what m was read from or written as, <<>> when neither

vars == <<m, error, exact, text>>

-----------------------------------------------------------------------------
Numerals == <<"0", "1", "2", "3", "4", "5", "6", "7", "8", "9">>
IsDigit(c) == c \in {Numerals[i] : i \in 1..10}
ValueOf(c) == (CHOOSE i \in 1..10 : Numerals[i] = c) - 1

\* strconv.FormatInt of a number that is not negative.
FormatInt[n \in Nat] ==
  IF n < 10 THEN <<Numerals[n + 1]>>
            ELSE Append(FormatInt[n \div 10], Numerals[(n % 10) + 1])

\* At least three digits: one before the point, two after it.
Pad(digits) ==
  IF Len(digits) = 1 THEN <<"0", "0">> \o digits
  ELSE IF Len(digits) = 2 THEN <<"0">> \o digits
  ELSE digits

\* amountString: sign, whole part, point, two decimals.
Format(amount) ==
  LET digits == Pad(FormatInt[IF amount < 0 THEN -amount ELSE amount])
      point == Len(digits) - 2
  IN (IF amount < 0 THEN <<"-">> ELSE <<>>)
       \o SubSeq(digits, 1, point) \o <<".">> \o SubSeq(digits, point + 1, point + 2)

IsSigned(t) == t # <<>> /\ Head(t) = "-"
Unsigned(t) == IF IsSigned(t) THEN Tail(t) ELSE t

\* amountRegex: -?(0|[1-9]\d*)\.\d{2}
MatchesRegex(t) ==
  LET u == Unsigned(t)
      n == Len(u)
  IN /\ n >= 4 /\ u[n - 2] = "."
     /\ \A i \in (1..n) \ {n - 2} : IsDigit(u[i])
     /\ n > 4 => u[1] # "0"

\* Variation: negative zero is an amount.
IsAmountSigned(t) == MatchesRegex(t)

IsAmount(t) == MatchesRegex(t) /\ t # <<"-", "0", ".", "0", "0">>

\* The text without its point, which is the last but two.
WithoutPoint(u) == SubSeq(u, 1, Len(u) - 3) \o SubSeq(u, Len(u) - 1, Len(u))

\* What the digits say, read from the first to the last.
Number(digits) ==
  LET upTo[i \in 0..Len(digits)] ==
        IF i = 0 THEN 0 ELSE (10 * upTo[i - 1]) + ValueOf(digits[i])
  IN upTo[Len(digits)]

\* strconv.ParseInt of the text without its point, before its range check.
ParseInt(t) ==
  LET value == Number(WithoutPoint(Unsigned(t)))
  IN IF IsSigned(t) THEN -value ELSE value

-----------------------------------------------------------------------------
\* What the hardware makes of a sum: two's complement wraparound.
Wrap(x) == ((x + Half) % (2 * Half)) - Half

Give(currency, amount, t) ==
  /\ m' = [currency |-> currency, amount |-> amount]
  /\ error' = "none"
  /\ text' = t

Fail(e) == error' = e /\ text' = <<>> /\ UNCHANGED m

\* New, and UnmarshalJSON: currency first, syntax, then range.
New(code, t) ==
  \/ /\ code \notin Currencies \/ ~IsAmount(t)
     /\ Fail("invalid") /\ UNCHANGED exact
  \/ /\ code \in Currencies /\ IsAmount(t)
     /\ exact' = ParseInt(t)
     /\ \/ ParseInt(t) \in Amounts /\ Give(code, ParseInt(t), t)
        \/ ParseInt(t) \notin Amounts /\ Fail("overflow")

FromMinorUnits(code, amount) ==
  /\ exact' = amount
  /\ \/ code \in Currencies /\ Give(code, amount, <<>>)
     \/ code \notin Currencies /\ Fail("invalid")

\* Variation: only a sum of positive amounts is looked at.
WrapsUpwards(a, b) == b > 0 /\ Wrap(a + b) < a

\* The check of Add: the sum has gone the wrong way.
Wraps(a, b) ==
  \/ b > 0 /\ Wrap(a + b) < a
  \/ b < 0 /\ Wrap(a + b) > a

\* Add, of values of one currency.
GiveSum(b) ==
  IF Wraps(m.amount, b) THEN Fail("overflow")
  ELSE Give(m.currency, Wrap(m.amount + b), <<>>)

Add(code, b) ==
  /\ m # NoMoney
  /\ exact' = m.amount + b
  /\ \/ code # m.currency /\ Fail("mismatch")
     \/ code = m.currency /\ GiveSum(b)

Negate ==
  /\ m # NoMoney
  /\ exact' = -m.amount
  /\ \/ m.amount = MinAmount /\ Fail("overflow")
     \/ m.amount # MinAmount /\ Give(m.currency, Wrap(-m.amount), <<>>)

\* Negate of the operand comes first, with its error, then Add.
Subtract(code, b) ==
  /\ m # NoMoney
  /\ exact' = m.amount - b
  /\ \/ b = MinAmount /\ Fail("overflow")
     \/ b # MinAmount /\ code # m.currency /\ Fail("mismatch")
     \/ b # MinAmount /\ code = m.currency /\ GiveSum(Wrap(-b))

MarshalJSON ==
  /\ m # NoMoney
  /\ exact' = m.amount /\ error' = "none"
  /\ text' = Format(m.amount)
  /\ UNCHANGED m

-----------------------------------------------------------------------------
Init == m = NoMoney /\ error = "none" /\ exact = 0 /\ text = <<>>

Next ==
  \/ /\ m = NoMoney /\ error = "none"
     /\ \E code \in Codes :
          \/ \E t \in Texts : New(code, t)
          \/ \E b \in Operands : FromMinorUnits(code, b)
  \/ \E code \in Currencies, b \in Operands : Add(code, b) \/ Subtract(code, b)
  \/ Negate \/ MarshalJSON

Spec == Init /\ [][Next]_vars

-----------------------------------------------------------------------------
\* The types: a value is always one that int64 holds, in a known currency.
TypeOK ==
  /\ m \in Moneys \cup {NoMoney}
  /\ error \in {"none", "overflow", "mismatch", "invalid"}

\* Arithmetic is exact: an operation without error gives the mathematical
\* result, and one that overflows has a result no Money can hold, except that
\* the least amount can be subtracted from nothing, not even from a negative
\* value (Negate of the operand comes first).
ArithmeticIsExact ==
  /\ error = "none" /\ m # NoMoney => m.amount = exact
  /\ error = "overflow" =>
       exact \notin Amounts \/ (m # NoMoney /\ exact = m.amount + Half)

\* One text per amount: what New accepts is exactly what amountString would
\* write, and what it writes New reads back, so that the payload hash of a
\* request does not depend on how its amount was written.
OneTextPerAmount ==
  m # NoMoney /\ text # <<>> =>
    /\ text = Format(m.amount)
    /\ IsAmount(text) /\ ParseInt(text) = m.amount

=============================================================================
