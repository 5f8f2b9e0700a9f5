---------------------------- MODULE MoneyProofs ----------------------------
(***************************************************************************)
(* Proofs about Money, for a machine word of any width and texts of any    *)
(* length.                                                                 *)
(*                                                                         *)
(* Wrap(n) is n for every n that fits in the word.  The comparisons which  *)
(* guard the arithmetic only ever wrap numbers that fit, and what they let *)
(* through fits as well, so no operation meets the wrapping at all.        *)
(*                                                                         *)
(* The digits of a text and of a number are read and written by recursive  *)
(* functions.  That they exist, and what they are at the next character,   *)
(* follows from the least place where two candidates would differ.  The    *)
(* texts that pass ParseMoney have three shapes (no point, one or two      *)
(* digits behind it), and each is read as the number it denotes.           *)
(***************************************************************************)
EXTENDS Money, FiniteSetTheorems, SequenceTheorems, WellFoundedInduction, TLAPS

\* The remainder of a number that is smaller than the divisor.
LEMMA SmallRemainder ==
  ASSUME NEW a \in Nat, NEW b \in Nat, a < b
  PROVE  a % b = a
  OBVIOUS

\* int64 arithmetic is exact on what fits in the word.
LEMMA WrapExact ==
  ASSUME NEW n \in MinInt..MaxInt
  PROVE  Wrap(n) = n
<1>1. MaxInt \in Nat
  BY MoneyAssumption
<1>2. /\ n \in Int /\ MinInt \in Int /\ MaxUint + 1 \in Nat
      /\ n - MinInt \in Nat /\ n - MinInt < MaxUint + 1
  BY <1>1 DEF MinInt, MaxUint
<1>3. (n - MinInt) % (MaxUint + 1) = n - MinInt
  BY <1>2, SmallRemainder
<1> QED
  BY <1>2, <1>3 DEF Wrap

\* The guard of Add compares with a difference that fits, and so tells exactly
\* the sums that do not fit.
LEMMA OverflowsExact ==
  ASSUME NEW a \in MinInt..MaxInt, NEW b \in MinInt..MaxInt
  PROVE  Overflows(a, b) <=> ~InRange(a + b)
<1>1. MaxInt \in Nat /\ MinInt = -MaxInt - 1 /\ a \in Int /\ b \in Int
  BY MoneyAssumption DEF MinInt
<1>2. b > 0 => Wrap(MaxInt - b) = MaxInt - b
  <2>1. b > 0 => MaxInt - b \in MinInt..MaxInt
    BY <1>1
  <2> QED
    BY <2>1, WrapExact
<1>3. b < 0 => Wrap(MinInt - b) = MinInt - b
  <2>1. b < 0 => MinInt - b \in MinInt..MaxInt
    BY <1>1
  <2> QED
    BY <2>1, WrapExact
<1>4. Overflows(a, b) <=> (b > 0 /\ a > MaxInt - b) \/ (b < 0 /\ a < MinInt - b)
  BY <1>2, <1>3 DEF Overflows
<1>5. InRange(a + b) <=> MinInt <= a + b /\ a + b <= MaxInt
  BY <1>1 DEF InRange
<1>6. MinInt <= a /\ a <= MaxInt
  BY <1>1
<1> QED
  BY <1>1, <1>4, <1>5, <1>6

\* Every amount but the smallest can be negated.
LEMMA NegationFits ==
  ASSUME NEW a \in MinInt..MaxInt, a # MinInt
  PROVE  -a \in MinInt..MaxInt /\ Wrap(-a) = -a
<1>1. MaxInt \in Nat /\ MinInt = -MaxInt - 1 /\ a \in Int
  BY MoneyAssumption DEF MinInt
<1>2. -a \in MinInt..MaxInt
  BY <1>1
<1> QED
  BY <1>2, WrapExact

-----------------------------------------------------------------------------
(***************************************************************************)
(* The operations on amounts of one currency.                              *)
(***************************************************************************)

Amounts(c) == {[amount |-> n, currency |-> c] : n \in MinInt..MaxInt}

\* What Add returns.
LEMMA AddExact ==
  ASSUME NEW c, NEW m \in Amounts(c), NEW n \in Amounts(c)
  PROVE  Add(m, n) = IF InRange(m.amount + n.amount)
                     THEN Ok([m EXCEPT !.amount = m.amount + n.amount]) ELSE Err("ErrOverflow")
<1>1. /\ m.amount \in MinInt..MaxInt /\ n.amount \in MinInt..MaxInt
      /\ m.currency = n.currency
  BY DEF Amounts
<1>2. Overflows(m.amount, n.amount) <=> ~InRange(m.amount + n.amount)
  BY <1>1, OverflowsExact
<1>3. InRange(m.amount + n.amount) => Wrap(m.amount + n.amount) = m.amount + n.amount
  BY WrapExact DEF InRange
<1> QED
  BY <1>1, <1>2, <1>3 DEF Add

\* What Subtract returns.
LEMMA SubtractExact ==
  ASSUME NEW c, NEW m \in Amounts(c), NEW n \in Amounts(c)
  PROVE  Subtract(m, n) = IF InRange(m.amount - n.amount) /\ n.amount # MinInt
                          THEN Ok([m EXCEPT !.amount = m.amount - n.amount])
                          ELSE Err("ErrOverflow")
<1>1. /\ m.amount \in MinInt..MaxInt /\ n.amount \in MinInt..MaxInt
      /\ m.amount \in Int /\ n.amount \in Int
      /\ m.currency = n.currency /\ n = [amount |-> n.amount, currency |-> c]
  BY MoneyAssumption DEF Amounts, MinInt
<1>2. CASE n.amount = MinInt
  BY <1>1, <1>2 DEF Subtract
<1>3. CASE n.amount # MinInt
  <2> DEFINE k == [n EXCEPT !.amount = Wrap(-n.amount)]
  <2>1. -n.amount \in MinInt..MaxInt /\ Wrap(-n.amount) = -n.amount
    BY <1>1, <1>3, NegationFits
  <2>2. k = [amount |-> -n.amount, currency |-> c]
    BY <1>1, <2>1
  <2>3. k \in Amounts(c) /\ k.amount = -n.amount
    BY <2>1, <2>2 DEF Amounts
  <2>4. m.amount + k.amount = m.amount - n.amount
    BY <1>1, <2>3
  <2>5. Subtract(m, n) = Add(m, k)
    BY <1>1, <1>3 DEF Subtract
  <2> HIDE DEF k
  <2>6. Add(m, k) = IF InRange(m.amount + k.amount)
                    THEN Ok([m EXCEPT !.amount = m.amount + k.amount]) ELSE Err("ErrOverflow")
    BY <2>3, AddExact
  <2> QED
    BY <1>3, <2>4, <2>5, <2>6
<1> QED
  BY <1>2, <1>3

\* The fields of an amount.
LEMMA AmountFields ==
  ASSUME NEW c, NEW m \in Amounts(c)
  PROVE  /\ m = [amount |-> m.amount, currency |-> c]
         /\ m.amount \in MinInt..MaxInt /\ m.amount \in Int /\ m.currency = c
         /\ \A k \in Int : [m EXCEPT !.amount = k] = [amount |-> k, currency |-> c]
  BY MoneyAssumption DEF Amounts, MinInt

\* The two kinds of result differ in their err.
LEMMA ResultKinds ==
  ASSUME NEW m
  PROVE  Ok(m).err = "" /\ Ok(m).money = m /\ Err("ErrOverflow").err # ""
  BY DEF Ok, Err

\* Subtract and Compare order two amounts alike.
LEMMA CompareExact ==
  ASSUME NEW c, NEW m \in Amounts(c), NEW n \in Amounts(c)
  PROVE  Subtract(m, n).err = "" =>
           Compare(m, n) = Compare(Subtract(m, n).money, [m EXCEPT !.amount = 0])
<1> DEFINE d == [amount |-> m.amount - n.amount, currency |-> c]
           z == [amount |-> 0, currency |-> c]
<1>1. /\ m.amount \in Int /\ n.amount \in Int /\ m.currency = c /\ n.currency = c
      /\ m.amount - n.amount \in Int
  BY AmountFields
<1>2. [m EXCEPT !.amount = m.amount - n.amount] = d /\ [m EXCEPT !.amount = 0] = z
  BY <1>1, AmountFields
<1>3. Subtract(m, n) \in {Ok(d), Err("ErrOverflow")}
  BY <1>2, SubtractExact
<1>4. d.amount = m.amount - n.amount /\ d.currency = c /\ z.amount = 0 /\ z.currency = c
  OBVIOUS
<1> HIDE DEF d, z
<1>5. (m.amount < n.amount <=> d.amount < z.amount) /\ (m.amount > n.amount <=> d.amount > z.amount)
  BY <1>1, <1>4
<1>6. Compare(m, n) = Compare(d, z)
  BY <1>1, <1>4, <1>5 DEF Compare
<1>7. Ok(d).money = d /\ Err("ErrOverflow").err # ""
  BY ResultKinds
<1> QED
  BY <1>2, <1>3, <1>6, <1>7, Zenon

\* An amount and its negation add up to zero.
LEMMA NegateExact ==
  ASSUME NEW c, NEW m \in Amounts(c)
  PROVE  Negate(m).err = "" => Add(m, Negate(m).money) = Ok([m EXCEPT !.amount = 0])
<1> DEFINE k == [amount |-> -m.amount, currency |-> c]
<1>1. /\ m.amount \in MinInt..MaxInt /\ m.amount \in Int /\ -m.amount \in Int
      /\ MaxInt \in Nat /\ MinInt = -MaxInt - 1
  BY AmountFields, MoneyAssumption DEF MinInt
<1>2. CASE m.amount = MinInt
  <2>1. Negate(m) = Err("ErrOverflow")
    BY <1>2 DEF Negate
  <2> QED
    BY <2>1, ResultKinds
<1>3. CASE m.amount # MinInt
  <2>1. -m.amount \in MinInt..MaxInt /\ Wrap(-m.amount) = -m.amount
    BY <1>1, <1>3, NegationFits
  <2>2. [m EXCEPT !.amount = Wrap(-m.amount)] = k
    BY <1>1, <2>1, AmountFields
  <2>3. Negate(m) = Ok(k)
    BY <1>3, <2>2 DEF Negate
  <2>4. k \in Amounts(c) /\ k.amount = -m.amount
    BY <2>1 DEF Amounts
  <2> HIDE DEF k
  <2>5. m.amount + k.amount = 0 /\ InRange(m.amount + k.amount)
    BY <1>1, <2>4 DEF InRange
  <2>6. Add(m, k) = Ok([m EXCEPT !.amount = m.amount + k.amount])
    BY <2>4, <2>5, AddExact
  <2>7. Ok(k).money = k
    BY ResultKinds
  <2> QED
    BY <2>3, <2>5, <2>6, <2>7
<1> QED
  BY <1>2, <1>3

-----------------------------------------------------------------------------
\* Two operands of one currency.
LEMMA OneCurrency ==
  ASSUME NEW m \in Operands, NEW n \in Operands
  PROVE  m.currency = n.currency => \E c : m \in Amounts(c) /\ n \in Amounts(c)
<1>1. 0 \in MinInt..MaxInt
  BY MoneyAssumption DEF MinInt
<1>2. ASSUME NEW k \in Operands
      PROVE  (k.currency = BRL /\ k \in Amounts(BRL)) \/ (k.currency = "" /\ k \in Amounts(""))
  <2>1. CASE k = NoMoney
    BY <1>1, <2>1 DEF Amounts, NoMoney
  <2>2. ASSUME NEW i \in MinInt..MaxInt, k = Of(i) PROVE k.currency = BRL /\ k \in Amounts(BRL)
    BY <2>2 DEF Amounts, Of
  <2> QED
    BY <2>1, <2>2 DEF Operands
<1>3. BRL # ""
  BY DEF BRL
<1> QED
  BY <1>2, <1>3

\* The operands are amounts of BRL or the zero value, and stay the same.
LEMMA OperandsStay ==
  MoneySpec => [](x \in Operands /\ y \in Operands)
<1> DEFINE Inv == x \in Operands /\ y \in Operands
<1>1. MoneyInit => Inv
  BY DEF MoneyInit
<1>2. Inv /\ [MoneyNext]_mvars => Inv'
  BY DEF MoneyNext, Type, mvars, Operands
<1> QED
  BY <1>1, <1>2, PTL DEF MoneySpec

\* ArithmeticExact of any word: Add, Subtract and Negate of money.go return the
\* exact result or ErrOverflow, and Compare is the sign of the difference, for
\* every pair of amounts of the same currency.
THEOREM ArithmeticIsExact ==
  MoneySpec => []ArithmeticExact
<1>1. (x \in Operands /\ y \in Operands) => ArithmeticExact
  <2> SUFFICES ASSUME NEW c, x \in Amounts(c), y \in Amounts(c)
               PROVE  ArithmeticExact
    BY OneCurrency DEF ArithmeticExact
  <2>2. x \in Amounts(c) /\ y \in Amounts(c)
    OBVIOUS
  <2>3. Add(x, y) = IF InRange(x.amount + y.amount)
                    THEN Ok([x EXCEPT !.amount = x.amount + y.amount]) ELSE Err("ErrOverflow")
    BY <2>2, AddExact
  <2>4. Subtract(x, y) = IF InRange(x.amount - y.amount) /\ y.amount # MinInt
                         THEN Ok([x EXCEPT !.amount = x.amount - y.amount])
                         ELSE Err("ErrOverflow")
    BY <2>2, SubtractExact
  <2>5. Subtract(x, y).err = "" => Compare(x, y) = Compare(Subtract(x, y).money, [x EXCEPT !.amount = 0])
    BY <2>2, CompareExact
  <2>6. Negate(x).err = "" => Add(x, Negate(x).money) = Ok([x EXCEPT !.amount = 0])
    BY <2>2, NegateExact
  <2> QED
    BY <2>3, <2>4, <2>5, <2>6 DEF ArithmeticExact
<1> QED
  BY <1>1, OperandsStay, PTL

-----------------------------------------------------------------------------
(***************************************************************************)
(* The two places of ParseMoney and String that work at the edge of the    *)
(* word.                                                                   *)
(***************************************************************************)

\* TooLarge compares the whole and the minor part without computing the amount:
\* it refuses exactly the amounts above MaxInt64, so that whole * 100 + minor
\* never wraps in ParseMoney.
THEOREM LimitIsExact ==
  ASSUME NEW whole \in Nat, NEW minor \in 0..99
  PROVE  /\ TooLarge(whole, minor) <=> whole * 100 + minor > MaxInt
         /\ ~TooLarge(whole, minor) => Wrap(whole * 100 + minor) = whole * 100 + minor
<1>1. MaxInt \in Nat
  BY MoneyAssumption
<1>2. /\ MaxInt = 100 * (MaxInt \div 100) + (MaxInt % 100)
      /\ MaxInt \div 100 \in Nat /\ MaxInt % 100 \in 0..99
  BY <1>1
<1>3. TooLarge(whole, minor) <=> whole * 100 + minor > MaxInt
  BY <1>1, <1>2 DEF TooLarge
<1>4. ~TooLarge(whole, minor) => whole * 100 + minor \in MinInt..MaxInt
  BY <1>1, <1>3 DEF MinInt
<1> QED
  BY <1>3, <1>4, WrapExact

\* The magnitude String prints behind a minus sign is that of the amount, for
\* MinInt64 as well, whose negation does not fit in the word.
THEOREM MagnitudeIsExact ==
  ASSUME NEW n \in MinInt..MaxInt, n < 0
  PROVE  Magnitude(n) = -n
<1>1. MaxInt \in Nat /\ MinInt = -MaxInt - 1 /\ n \in Int
  BY MoneyAssumption DEF MinInt
<1>2. -(n + 1) \in MinInt..MaxInt
  BY <1>1
<1> QED
  BY <1>1, <1>2, WrapExact DEF Magnitude

-----------------------------------------------------------------------------
(***************************************************************************)
(* Texts as numbers.                                                       *)
(***************************************************************************)

\* The least element of a set of naturals.
LEMMA Least ==
  ASSUME NEW T, T \subseteq Nat, T # {}
  PROVE  \E n \in T : \A k \in T : ~(k < n)
<1>1. PICK n \in T : \A k \in T : ~(<<k, n>> \in OpToRel(<, Nat))
  BY NatLessThanWellFounded, WFMin
<1>2. \A k \in T : k < n => <<k, n>> \in OpToRel(<, Nat)
  BY DEF OpToRel
<1> QED
  BY <1>1, <1>2

Chars   == Digits \cup OtherChars
Figures == Digits \cup {"."}

\* The ten digits.
LEMMA TenDigits ==
  /\ Digits = {"0", "1", "2", "3", "4", "5", "6", "7", "8", "9"}
  /\ DOMAIN DigitChars = 1..10
  /\ \A i \in 0..9 : DigitChars[i + 1] \in Digits /\ DigitValue(DigitChars[i + 1]) = i
<1>1. DOMAIN DigitChars = 1..10
  BY DEF DigitChars
<1>2. \A i \in 1..10 : i = 1 \/ i = 2 \/ i = 3 \/ i = 4 \/ i = 5 \/ i = 6 \/ i = 7 \/ i = 8 \/ i = 9 \/ i = 10
  OBVIOUS
<1>3. Digits = {"0", "1", "2", "3", "4", "5", "6", "7", "8", "9"}
  <2>1. Digits = {DigitChars[i] : i \in 1..10}
    BY <1>1 DEF Digits, Range
  <2> QED
    BY <1>2, <2>1 DEF DigitChars
<1>4. \A i, j \in 1..10 : DigitChars[i] = DigitChars[j] => i = j
  BY <1>2 DEF DigitChars
<1>5. ASSUME NEW i \in 0..9
      PROVE  DigitChars[i + 1] \in Digits /\ DigitValue(DigitChars[i + 1]) = i
  <2>1. i + 1 \in 1..10
    OBVIOUS
  <2>2. DigitChars[i + 1] \in Digits
    BY <1>1, <2>1 DEF Digits, Range
  <2>3. PICK c : c = DigitChars[i + 1]
    OBVIOUS
  <2>4. \A j \in 1..10 : DigitChars[j] = c <=> j = i + 1
    BY <1>4, <2>1, <2>3
  <2>5. (CHOOSE j \in DOMAIN DigitChars : DigitChars[j] = c) = i + 1
    BY <1>1, <2>1, <2>4
  <2>6. DigitValue(c) = (i + 1) - 1
    BY <2>5 DEF DigitValue
  <2> QED
    BY <2>2, <2>3, <2>6
<1> QED
  BY <1>1, <1>3, <1>5

\* A digit counts zero to nine, "0" counts zero, and no digit is a point.
LEMMA DigitFacts ==
  /\ \A c \in Digits : DigitValue(c) \in 0..9 /\ c # "."
  /\ "0" \in Digits /\ DigitValue("0") = 0
<1>1. ASSUME NEW c \in Digits PROVE DigitValue(c) \in 0..9
  <2>1. PICK j \in 1..10 : c = DigitChars[j]
    BY TenDigits DEF Digits, Range
  <2>2. j - 1 \in 0..9 /\ j = (j - 1) + 1
    OBVIOUS
  <2>3. DigitValue(DigitChars[(j - 1) + 1]) = j - 1
    BY <2>2, TenDigits
  <2> QED
    BY <2>1, <2>2, <2>3
<1>2. DigitChars[0 + 1] = "0"
  BY DEF DigitChars
<1>3. "0" \in Digits /\ DigitValue("0") = 0
  <2>1. 0 \in 0..9
    OBVIOUS
  <2>2. DigitChars[0 + 1] \in Digits /\ DigitValue(DigitChars[0 + 1]) = 0
    BY <2>1, TenDigits
  <2> QED
    BY <1>2, <2>2
<1> QED
  BY <1>1, <1>3, TenDigits

\* f holds the numbers that the first n characters of s make
Reads(f, s, n) ==
  /\ f \in [0..n -> Nat]
  /\ f[0] = 0
  /\ \A i \in 1..n : f[i] = IF s[i] = "." THEN f[i - 1] ELSE 10 * f[i - 1] + DigitValue(s[i])

\* Every text of digits and points has such numbers ...
LEMMA ReadsExist ==
  ASSUME NEW s \in Seq(Figures), NEW n \in 0..Len(s)
  PROVE  \E f : Reads(f, s, n)
<1> DEFINE T == {k \in 0..Len(s) : ~\E f : Reads(f, s, k)}
<1>1. Len(s) \in Nat
  OBVIOUS
<1> SUFFICES ASSUME T # {} PROVE FALSE
  OBVIOUS
<1>2. PICK k \in T : \A j \in T : ~(j < k)
  <2>1. T \subseteq Nat
    BY <1>1
  <2> HIDE DEF T
  <2> QED
    BY <2>1, Least
<1>3. k \in Nat /\ k <= Len(s)
  BY <1>1, <1>2
<1>4. CASE k = 0
  <2>1. Reads([i \in 0..0 |-> 0], s, 0)
    BY DEF Reads
  <2> QED
    BY <1>2, <1>4, <2>1
<1>5. CASE k # 0
  <2>1. k - 1 \in 0..Len(s) /\ k - 1 < k
    BY <1>1, <1>3, <1>5
  <2>2. PICK f : Reads(f, s, k - 1)
    BY <1>2, <2>1
  <2> DEFINE v == IF s[k] = "." THEN f[k - 1] ELSE 10 * f[k - 1] + DigitValue(s[k])
             g == [i \in 0..k |-> IF i = k THEN v ELSE f[i]]
  <2>3. v \in Nat
    <3>1. s[k] \in Figures
      BY <1>3, <1>5
    <3>2. f[k - 1] \in Nat
      BY <1>3, <1>5, <2>2 DEF Reads
    <3>3. s[k] # "." => DigitValue(s[k]) \in Nat
      BY <3>1, DigitFacts DEF Figures
    <3> QED
      BY <3>2, <3>3
  <2>4. g \in [0..k -> Nat]
    <3>1. \A i \in 0..k : i # k => f[i] \in Nat
      BY <1>3, <2>2 DEF Reads
    <3> QED
      BY <2>3, <3>1
  <2>5. g[0] = 0 /\ g[k] = v /\ \A i \in 0..(k - 1) : g[i] = f[i]
    BY <1>3, <1>5, <2>2 DEF Reads
  <2>6. \A i \in 1..k : g[i] = IF s[i] = "." THEN g[i - 1] ELSE 10 * g[i - 1] + DigitValue(s[i])
    <3> HIDE DEF g
    <3>1. ASSUME NEW i \in 1..k, i # k
          PROVE  g[i] = IF s[i] = "." THEN g[i - 1] ELSE 10 * g[i - 1] + DigitValue(s[i])
      <4>1. i \in 0..(k - 1) /\ i - 1 \in 0..(k - 1) /\ i \in 1..(k - 1)
        BY <1>3, <3>1
      <4> QED
        BY <2>2, <2>5, <4>1 DEF Reads
    <3>2. g[k - 1] = f[k - 1]
      BY <1>3, <1>5, <2>5
    <3> QED
      BY <2>5, <3>1, <3>2
  <2>7. Reads(g, s, k)
    BY <2>4, <2>5, <2>6 DEF Reads
  <2> QED
    BY <1>2, <2>7
<1> QED
  BY <1>4, <1>5

\* ... and only one reading of each prefix, which the prefix alone decides.
LEMMA ReadsAgree ==
  ASSUME NEW s, NEW t, NEW n \in Nat, NEW m \in Nat, n <= m,
         \A i \in 1..n : s[i] = t[i],
         NEW f, Reads(f, s, n), NEW g, Reads(g, t, m)
  PROVE  f[n] = g[n]
<1> DEFINE T == {k \in 0..n : f[k] # g[k]}
<1> SUFFICES ASSUME T # {} PROVE FALSE
  BY DEF T
<1>1. PICK k \in T : \A j \in T : ~(j < k)
  <2>1. T \subseteq Nat
    OBVIOUS
  <2> HIDE DEF T
  <2> QED
    BY <2>1, Least
<1>2. k \in Nat /\ k <= n /\ f[k] # g[k]
  BY <1>1
<1>3. k # 0
  BY <1>2 DEF Reads
<1>4. k - 1 \in 0..n /\ k - 1 < k /\ k \in 1..n /\ k \in 1..m
  BY <1>2, <1>3
<1>5. f[k - 1] = g[k - 1]
  BY <1>1, <1>4
<1>6. /\ f[k] = IF s[k] = "." THEN f[k - 1] ELSE 10 * f[k - 1] + DigitValue(s[k])
      /\ g[k] = IF t[k] = "." THEN g[k - 1] ELSE 10 * g[k - 1] + DigitValue(t[k])
  BY <1>4 DEF Reads
<1> QED
  BY <1>2, <1>4, <1>5, <1>6

\* Readings holds these numbers.
LEMMA ReadingsAre ==
  ASSUME NEW s \in Seq(Figures)
  PROVE  Reads(Readings(s), s, Len(s))
<1> DEFINE Is(f) == f = [n \in 0..Len(s) |-> IF n = 0 THEN 0
                                             ELSE IF s[n] = "." THEN f[n - 1]
                                             ELSE 10 * f[n - 1] + DigitValue(s[n])]
<1>1. Readings(s) = CHOOSE f : Is(f)
  BY DEF Readings
<1>2. Len(s) \in Nat
  OBVIOUS
<1>3. PICK g : Reads(g, s, Len(s))
  <2>1. Len(s) \in 0..Len(s)
    BY <1>2
  <2> QED
    BY <2>1, ReadsExist
<1>4. Is(g)
  <2>1. \A n \in 0..Len(s) : g[n] = IF n = 0 THEN 0 ELSE IF s[n] = "." THEN g[n - 1]
                                    ELSE 10 * g[n - 1] + DigitValue(s[n])
    BY <1>2, <1>3 DEF Reads
  <2>2. g = [n \in 0..Len(s) |-> g[n]]
    BY <1>3 DEF Reads
  <2> QED
    BY <2>1, <2>2
<1>5. Is(Readings(s))
  BY <1>1, <1>4
<1> DEFINE r == Readings(s)
           T == {k \in 0..Len(s) : r[k] # g[k]}
<1>6. /\ r = [n \in 0..Len(s) |-> r[n]]
      /\ r[0] = 0
      /\ \A n \in 1..Len(s) : r[n] = IF s[n] = "." THEN r[n - 1] ELSE 10 * r[n - 1] + DigitValue(s[n])
  <2> HIDE DEF r
  <2>1. r = [n \in 0..Len(s) |-> IF n = 0 THEN 0 ELSE IF s[n] = "." THEN r[n - 1]
                                 ELSE 10 * r[n - 1] + DigitValue(s[n])]
    BY <1>5 DEF r
  <2> QED
    BY <1>2, <2>1
<1> HIDE DEF r, Is
<1>7. ASSUME T # {} PROVE FALSE
  <2>1. PICK k \in T : \A j \in T : ~(j < k)
    <3>1. T \subseteq Nat
      BY <1>2
    <3> HIDE DEF T
    <3> QED
      BY <1>7, <3>1, Least
  <2>2. k \in Nat /\ k <= Len(s) /\ r[k] # g[k]
    BY <1>2, <2>1
  <2>3. k # 0
    BY <1>3, <1>6, <2>2 DEF Reads
  <2>4. k - 1 \in 0..Len(s) /\ k - 1 < k /\ k \in 1..Len(s)
    BY <1>2, <2>2, <2>3
  <2>5. r[k - 1] = g[k - 1]
    BY <2>1, <2>4
  <2>6. g[k] = IF s[k] = "." THEN g[k - 1] ELSE 10 * g[k - 1] + DigitValue(s[k])
    BY <1>3, <2>4 DEF Reads
  <2> QED
    BY <1>6, <2>2, <2>4, <2>5, <2>6
<1>8. r = g
  <2>1. \A k \in 0..Len(s) : r[k] = g[k]
    BY <1>7
  <2>2. g = [n \in 0..Len(s) |-> g[n]]
    BY <1>3 DEF Reads
  <2> QED
    BY <1>6, <2>1, <2>2
<1> QED
  BY <1>3, <1>8 DEF r

\* Decimal of the empty text, and of a text that is one character longer.
LEMMA DecimalSteps ==
  /\ Decimal(<<>>) = 0
  /\ \A s \in Seq(Figures) : Decimal(s) \in Nat
  /\ \A s \in Seq(Figures) : Decimal(Append(s, ".")) = Decimal(s)
  /\ \A s \in Seq(Figures) : \A c \in Digits :
       Decimal(Append(s, c)) = 10 * Decimal(s) + DigitValue(c)
<1>1. Decimal(<<>>) = 0
  <2>1. <<>> \in Seq(Figures) /\ Len(<<>>) = 0
    OBVIOUS
  <2>2. Reads(Readings(<<>>), <<>>, 0)
    BY <2>1, ReadingsAre
  <2> QED
    BY <2>1, <2>2 DEF Decimal, Reads
<1>2. ASSUME NEW s \in Seq(Figures) PROVE Decimal(s) \in Nat
  <2>1. Len(s) \in 0..Len(s)
    OBVIOUS
  <2>2. Reads(Readings(s), s, Len(s))
    BY ReadingsAre
  <2> QED
    BY <2>1, <2>2 DEF Decimal, Reads
<1>3. ASSUME NEW s \in Seq(Figures), NEW c \in Figures
      PROVE  Decimal(Append(s, c)) = IF c = "." THEN Decimal(s) ELSE 10 * Decimal(s) + DigitValue(c)
  <2>1. PICK t : t = Append(s, c)
    OBVIOUS
  <2>2. PICK n \in Nat : n = Len(s)
    OBVIOUS
  <2>3. /\ t \in Seq(Figures) /\ Len(t) = n + 1 /\ t[n + 1] = c
        /\ \A i \in 1..n : s[i] = t[i]
    BY <2>1, <2>2
  <2>4. Reads(Readings(s), s, n) /\ Reads(Readings(t), t, n + 1)
    BY <2>2, <2>3, ReadingsAre
  <2>5. Readings(s)[n] = Readings(t)[n]
    <3> DEFINE f == Readings(s)
               g == Readings(t)
    <3>1. Reads(f, s, n) /\ Reads(g, t, n + 1)
      BY <2>4
    <3>2. n + 1 \in Nat /\ n <= n + 1
      OBVIOUS
    <3> HIDE DEF f, g
    <3>3. f[n] = g[n]
      BY <2>3, <3>1, <3>2, ReadsAgree
    <3> QED
      BY <3>3 DEF f, g
  <2>6. n + 1 \in 1..(n + 1) /\ (n + 1) - 1 = n
    OBVIOUS
  <2>7. Readings(t)[n + 1] = IF t[n + 1] = "." THEN Readings(t)[n]
                             ELSE 10 * Readings(t)[n] + DigitValue(t[n + 1])
    BY <2>4, <2>6 DEF Reads
  <2>8. Decimal(s) = Readings(s)[n] /\ Decimal(t) = Readings(t)[n + 1]
    BY <2>2, <2>3 DEF Decimal
  <2> QED
    BY <2>1, <2>3, <2>5, <2>7, <2>8
<1>4. "." \in Figures /\ Digits \subseteq Figures /\ \A c \in Digits : c # "."
  BY DigitFacts DEF Figures
<1> QED
  BY <1>1, <1>2, <1>3, <1>4

\* The three shapes of a text that denotes an amount: a whole number, and one with
\* one or two places.
Whole(s)  == s \in Seq(Digits) /\ s # <<>>
Tenths(s) == \E w, d : Whole(w) /\ d \in Digits /\ s = Append(Append(w, "."), d)

IsCents(s, w, d, e) ==
  Whole(w) /\ d \in Digits /\ e \in Digits /\ s = Append(Append(Append(w, "."), d), e)
Cents(s) == \E w, d, e : IsCents(s, w, d, e)

\* isDigits of what is known to be a text.
LEMMA IsDigits ==
  ASSUME NEW s \in Seq(Chars)
  PROVE  isDigits(s) <=> Whole(s)
<1>1. Range(s) = {s[i] : i \in 1..Len(s)}
  BY DEF Range
<1>2. CASE Range(s) \subseteq Digits
  <2>1. \A i \in 1..Len(s) : s[i] \in Digits
    BY <1>1, <1>2
  <2>2. s \in Seq(Digits)
    BY <2>1
  <2> QED
    BY <1>2, <2>2 DEF isDigits, Whole
<1>3. CASE ~(Range(s) \subseteq Digits)
  <2>1. PICK i \in 1..Len(s) : s[i] \notin Digits
    BY <1>1, <1>3
  <2>2. s \notin Seq(Digits)
    BY <2>1
  <2> QED
    BY <1>3, <2>2 DEF isDigits, Whole
<1> QED
  BY <1>2, <1>3

\* The characters of the three shapes.
LEMMA ShapeIndices ==
  ASSUME NEW w, Whole(w), NEW d \in Digits, NEW e \in Digits
  PROVE  LET n == Len(w)
             s == Append(Append(w, "."), d)
             t == Append(s, e)
         IN /\ n \in Nat \ {0}
            /\ s \in Seq(Figures) /\ s \in Seq(Chars) /\ Len(s) = n + 2
            /\ t \in Seq(Figures) /\ t \in Seq(Chars) /\ Len(t) = n + 3
            /\ \A i \in 1..n : w[i] \in Digits /\ s[i] = w[i] /\ t[i] = w[i]
            /\ s[n + 1] = "." /\ t[n + 1] = "."
            /\ s[n + 2] = d /\ t[n + 2] = d /\ t[n + 3] = e
<1>1. /\ w \in Seq(Digits) /\ w # <<>>
      /\ Digits \subseteq Figures /\ Figures \subseteq Chars /\ "." \in Figures
  BY DEF Whole, Figures, Chars, OtherChars
<1>2. w \in Seq(Figures) /\ w \in Seq(Chars) /\ Len(w) \in Nat \ {0}
  BY <1>1
<1>3. PICK v : v = Append(w, ".")
  OBVIOUS
<1>4. /\ v \in Seq(Figures) /\ v \in Seq(Chars) /\ Len(v) = Len(w) + 1
      /\ \A i \in 1..Len(w) : v[i] = w[i]
      /\ v[Len(w) + 1] = "."
  BY <1>1, <1>2, <1>3
<1>5. PICK s : s = Append(v, d)
  OBVIOUS
<1>6. /\ s \in Seq(Figures) /\ s \in Seq(Chars) /\ Len(s) = Len(w) + 2
      /\ \A i \in 1..Len(w) : s[i] = w[i]
      /\ s[Len(w) + 1] = "." /\ s[Len(w) + 2] = d
  BY <1>1, <1>2, <1>4, <1>5
<1>7. PICK t : t = Append(s, e)
  OBVIOUS
<1>8. /\ t \in Seq(Figures) /\ t \in Seq(Chars) /\ Len(t) = Len(w) + 3
      /\ \A i \in 1..Len(w) : t[i] = w[i]
      /\ t[Len(w) + 1] = "." /\ t[Len(w) + 2] = d /\ t[Len(w) + 3] = e
  BY <1>1, <1>2, <1>6, <1>7
<1>9. \A i \in 1..Len(w) : w[i] \in Digits
  BY <1>1
<1> QED
  BY <1>2, <1>3, <1>5, <1>6, <1>7, <1>8, <1>9

\* A slice of a text.
LEMMA Slice ==
  ASSUME NEW s \in Seq(Figures), NEW a \in 1..Len(s), NEW b \in a..Len(s)
  PROVE  /\ SubSeq(s, a, b) \in Seq(Figures)
         /\ Len(SubSeq(s, a, b)) = b - a + 1
         /\ \A i \in 1..(b - a + 1) : SubSeq(s, a, b)[i] = s[a + i - 1]
<1>1. a \in Int /\ b \in Int /\ a <= b
  OBVIOUS
<1>2. \A i \in a..b : s[i] \in Figures
  OBVIOUS
<1>3. SubSeq(s, a, b) \in Seq(Figures)
  BY <1>1, <1>2, SubSeqProperties
<1>4. Len(SubSeq(s, a, b)) = b - a + 1
  OBVIOUS
<1>5. \A i \in 1..(b - a + 1) : SubSeq(s, a, b)[i] = s[a + i - 1]
  OBVIOUS
<1> QED
  BY <1>3, <1>4, <1>5

\* The parts of a text with one point.
LEMMA OnePoint ==
  ASSUME NEW s \in Seq(Chars), NEW p, Points(s) = {p}
  PROVE  /\ p \in 1..Len(s) /\ Cardinality(Points(s)) = 1
         /\ Min(Points(s)) = p /\ Max(Points(s)) = p
         /\ WholePart(s) = SubSeq(s, 1, p - 1) /\ MinorPart(s) = SubSeq(s, p + 1, Len(s))
<1>1. p \in 1..Len(s)
  BY DEF Points
<1>2. Cardinality({p}) = 1
  BY FS_Singleton
<1>3. Min({p}) = p /\ Max({p}) = p
  BY <1>1 DEF Min, Max
<1> QED
  BY <1>1, <1>2, <1>3 DEF WholePart, MinorPart

\* The parts of the three shapes.
LEMMA WholeParts ==
  ASSUME NEW s, Whole(s)
  PROVE  /\ s \in Seq(Figures) /\ s \in Seq(Chars)
         /\ Points(s) = {} /\ WholePart(s) = s /\ MinorPart(s) = <<>> /\ Cardinality(Points(s)) = 0
<1>1. s \in Seq(Digits) /\ Digits \subseteq Figures /\ Digits \subseteq Chars
  BY DEF Whole, Figures, Chars
<1>2. Points(s) = {}
  BY <1>1, DigitFacts DEF Points
<1> QED
  BY <1>1, <1>2, FS_EmptySet DEF WholePart, MinorPart

LEMMA TenthsParts ==
  ASSUME NEW w, Whole(w), NEW d \in Digits, NEW s, s = Append(Append(w, "."), d)
  PROVE  /\ s \in Seq(Figures) /\ s \in Seq(Chars) /\ Len(s) = Len(w) + 2
         /\ Points(s) = {Len(w) + 1} /\ WholePart(s) = w /\ MinorPart(s) = <<d>>
<1>1. PICK n \in Nat \ {0} : n = Len(w)
  BY DEF Whole
<1>2. /\ s \in Seq(Figures) /\ s \in Seq(Chars) /\ Len(s) = n + 2
      /\ \A i \in 1..n : w[i] \in Digits /\ s[i] = w[i]
      /\ s[n + 1] = "." /\ s[n + 2] = d
  BY <1>1, ShapeIndices
<1>3. Points(s) = {n + 1}
  <2>1. \A i \in 1..(n + 2) : s[i] = "." => i = n + 1
    <3>1. \A i \in 1..(n + 2) : i \in 1..n \/ i = n + 1 \/ i = n + 2
      BY <1>1
    <3> QED
      BY <1>2, <3>1, DigitFacts
  <2>2. n + 1 \in 1..(n + 2) /\ DOMAIN s = 1..(n + 2)
    BY <1>1, <1>2
  <2> QED
    BY <1>2, <2>1, <2>2 DEF Points
<1>4. WholePart(s) = SubSeq(s, 1, n) /\ MinorPart(s) = SubSeq(s, n + 2, n + 2)
  <2>1. PICK p : p = n + 1
    OBVIOUS
  <2>2. WholePart(s) = SubSeq(s, 1, p - 1) /\ MinorPart(s) = SubSeq(s, p + 1, Len(s))
    BY <1>2, <1>3, <2>1, OnePoint
  <2>3. p - 1 = n /\ p + 1 = n + 2
    BY <1>1, <2>1
  <2> QED
    BY <1>2, <2>2, <2>3
<1>5. SubSeq(s, 1, n) = w
  BY <1>1, <1>2 DEF Whole
<1>6. SubSeq(s, n + 2, n + 2) = <<d>>
  <2>1. PICK a, b, u : a = n + 2 /\ b = n + 2 /\ u = SubSeq(s, a, b)
    OBVIOUS
  <2>2. a \in 1..Len(s) /\ b \in a..Len(s)
    BY <1>1, <1>2, <2>1
  <2>3. /\ u \in Seq(Figures) /\ Len(u) = b - a + 1
        /\ \A i \in 1..(b - a + 1) : u[i] = s[a + i - 1]
    BY <1>2, <2>1, <2>2, Slice
  <2>4. Len(u) = 1 /\ u[1] = d
    BY <1>1, <1>2, <2>1, <2>3
  <2>5. PICK t : t = <<d>>
    OBVIOUS
  <2>6. t \in Seq(Figures) /\ Len(t) = 1 /\ t[1] = d
    BY <2>5 DEF Figures
  <2>7. \A i \in 1..1 : u[i] = t[i]
    BY <2>4, <2>6
  <2>8. u = t
    BY <2>3, <2>4, <2>6, <2>7, SeqEqual
  <2> QED
    BY <2>1, <2>5, <2>8
<1> QED
  BY <1>1, <1>2, <1>3, <1>4, <1>5, <1>6

LEMMA CentsParts ==
  ASSUME NEW s, NEW w, NEW d, NEW e, IsCents(s, w, d, e)
  PROVE  /\ s \in Seq(Figures) /\ s \in Seq(Chars) /\ Len(s) = Len(w) + 3
         /\ Points(s) = {Len(w) + 1} /\ WholePart(s) = w /\ MinorPart(s) = <<d, e>>
<1>0. Whole(w) /\ d \in Digits /\ e \in Digits /\ s = Append(Append(Append(w, "."), d), e)
  BY DEF IsCents
<1>1. PICK n \in Nat \ {0} : n = Len(w)
  BY <1>0 DEF Whole
<1>2. /\ s \in Seq(Figures) /\ s \in Seq(Chars) /\ Len(s) = n + 3
      /\ \A i \in 1..n : w[i] \in Digits /\ s[i] = w[i]
      /\ s[n + 1] = "." /\ s[n + 2] = d /\ s[n + 3] = e
  BY <1>0, <1>1, ShapeIndices
<1>3. Points(s) = {n + 1}
  <2>1. \A i \in 1..(n + 3) : s[i] = "." => i = n + 1
    <3>1. \A i \in 1..(n + 3) : i \in 1..n \/ i = n + 1 \/ i = n + 2 \/ i = n + 3
      BY <1>1
    <3> QED
      BY <1>0, <1>2, <3>1, DigitFacts
  <2>2. n + 1 \in 1..(n + 3) /\ DOMAIN s = 1..(n + 3)
    BY <1>1, <1>2
  <2> QED
    BY <1>2, <2>1, <2>2 DEF Points
<1>4. WholePart(s) = SubSeq(s, 1, n) /\ MinorPart(s) = SubSeq(s, n + 2, n + 3)
  <2>1. PICK p : p = n + 1
    OBVIOUS
  <2>2. WholePart(s) = SubSeq(s, 1, p - 1) /\ MinorPart(s) = SubSeq(s, p + 1, Len(s))
    BY <1>2, <1>3, <2>1, OnePoint
  <2>3. p - 1 = n /\ p + 1 = n + 2
    BY <1>1, <2>1
  <2> QED
    BY <1>2, <2>2, <2>3
<1>5. SubSeq(s, 1, n) = w
  BY <1>0, <1>1, <1>2 DEF Whole
<1>6. SubSeq(s, n + 2, n + 3) = <<d, e>>
  <2>1. PICK a, b, u : a = n + 2 /\ b = n + 3 /\ u = SubSeq(s, a, b)
    OBVIOUS
  <2>2. a \in 1..Len(s) /\ b \in a..Len(s)
    BY <1>1, <1>2, <2>1
  <2>3. /\ u \in Seq(Figures) /\ Len(u) = b - a + 1
        /\ \A i \in 1..(b - a + 1) : u[i] = s[a + i - 1]
    BY <1>2, <2>1, <2>2, Slice
  <2>4. Len(u) = 2 /\ u[1] = d /\ u[2] = e
    BY <1>1, <1>2, <2>1, <2>3
  <2>5. PICK t : t = <<d, e>>
    OBVIOUS
  <2>6. t \in Seq(Figures) /\ Len(t) = 2 /\ t[1] = d /\ t[2] = e
    BY <1>0, <2>5 DEF Figures
  <2>7. \A i \in 1..2 : u[i] = t[i]
    BY <2>4, <2>6
  <2>8. u = t
    BY <2>3, <2>4, <2>6, <2>7, SeqEqual
  <2> QED
    BY <2>1, <2>5, <2>8
<1> QED
  BY <1>1, <1>2, <1>3, <1>4, <1>5, <1>6

\* ParseMoney of a text whose whole part is a number and whose places, if there is
\* a point, are one or two digits: only the size is left to be checked.
LEMMA ParseFigures ==
  ASSUME NEW s \in Seq(Figures), s # <<>>, s[1] \in Digits,
         Cardinality(Points(s)) \in {0, 1},
         Whole(WholePart(s)), MinorPart(s) \in Seq(Digits), Len(MinorPart(s)) <= 2,
         Points(s) # {} => Whole(MinorPart(s)),
         NEW v \in Nat,
         v = 100 * Decimal(WholePart(s)) + Decimal(Padded(MinorPart(s))),
         Decimal(Padded(MinorPart(s))) \in 0..99
  PROVE  ParseMoney(s) = IF v <= MaxInt THEN Ok(Of(v)) ELSE Err("ErrOverflow")
<1>1. /\ s[1] \notin {" ", "-"} /\ Last(s) # " " /\ s # <<"NaN">>
      /\ "E" \notin Range(s) /\ " " \notin Range(s)
  <2>1. \A c \in Figures : c \notin {" ", "-", "E", "NaN"}
    BY TenDigits DEF Figures
  <2>2. \A i \in 1..Len(s) : s[i] \in Figures
    OBVIOUS
  <2>3. 1 \in 1..Len(s) /\ Len(s) \in 1..Len(s)
    OBVIOUS
  <2>4. s[1] \notin {" ", "-", "NaN"} /\ s[Len(s)] # " "
    BY <2>1, <2>2, <2>3
  <2>5. s # <<"NaN">>
    <3>1. <<"NaN">>[1] = "NaN"
      OBVIOUS
    <3> QED
      BY <2>4, <3>1, Zenon
  <2>6. "E" \notin Range(s) /\ " " \notin Range(s)
    <3>1. Range(s) = {s[i] : i \in 1..Len(s)}
      BY LenProperties DEF Range
    <3> QED
      BY <2>1, <2>2, <3>1, Zenon
  <2> QED
    BY <2>4, <2>5, <2>6 DEF Last
<1>2. isDigits(WholePart(s)) /\ (Points(s) # {} => isDigits(MinorPart(s)) /\ MinorPart(s) # <<>>)
  <2>1. \A t : Whole(t) => t \in Seq(Chars)
    BY WholeParts
  <2> QED
    BY <2>1, IsDigits DEF Whole
<1>3. Cardinality(Points(s)) <= 1 /\ ~(Cardinality(Points(s)) > 1)
  OBVIOUS
<1>4. PICK whole \in Nat : whole = Decimal(WholePart(s))
  <2>1. WholePart(s) \in Seq(Figures)
    BY WholeParts
  <2> QED
    BY <2>1, DecimalSteps
<1>5. PICK minor \in 0..99 : minor = Decimal(Padded(MinorPart(s)))
  OBVIOUS
<1>6. /\ TooLarge(whole, minor) <=> whole * 100 + minor > MaxInt
      /\ ~TooLarge(whole, minor) => Wrap(whole * 100 + minor) = whole * 100 + minor
  BY LimitIsExact
<1>7. v = whole * 100 + minor /\ MaxInt \in Nat
  BY <1>4, <1>5, MoneyAssumption
<1>8. ParseAmount(s) = IF v <= MaxInt THEN Ok(Of(v)) ELSE Err("ErrOverflow")
  <2>1. ParseAmount(s) = IF TooLarge(whole, minor) THEN Err("ErrOverflow")
                         ELSE Ok(Of(Wrap(whole * 100 + minor)))
    BY <1>4, <1>5 DEF ParseAmount
  <2>2. TooLarge(whole, minor) <=> ~(v <= MaxInt)
    BY <1>6, <1>7
  <2> QED
    BY <1>6, <1>7, <2>1, <2>2
<1>9. ParseMoney(s) = IF whole > MaxUint THEN Err("ErrOverflow") ELSE ParseAmount(s)
  <2>1. ~(Len(MinorPart(s)) > 2)
    OBVIOUS
  <2> QED
    BY <1>1, <1>2, <1>3, <1>4, <2>1 DEF ParseMoney
<1>10. whole > MaxUint => ~(v <= MaxInt)
  BY <1>7 DEF MaxUint
<1> QED
  BY <1>8, <1>9, <1>10

\* One and two digits, and one digit with the zero that Padded adds.
LEMMA OneDigit ==
  ASSUME NEW d \in Digits
  PROVE  /\ <<d>> \in Seq(Figures) /\ Whole(<<d>>) /\ Len(<<d>>) = 1
         /\ Decimal(<<d>>) = DigitValue(d)
<1>1. PICK u, v : u = <<>> /\ v = Append(u, d)
  OBVIOUS
<1>2. u \in Seq(Figures) /\ v = <<d>>
  BY <1>1
<1>3. Decimal(v) = 10 * Decimal(u) + DigitValue(d)
  BY <1>1, <1>2, DecimalSteps
<1>4. Decimal(u) = 0 /\ DigitValue(d) \in Nat
  BY <1>1, DecimalSteps, DigitFacts
<1>5. Decimal(v) = DigitValue(d)
  BY <1>3, <1>4
<1> QED
  BY <1>2, <1>5 DEF Whole, Figures

LEMMA TwoDigits ==
  ASSUME NEW d \in Digits, NEW e \in Digits
  PROVE  /\ Whole(<<d, e>>) /\ Len(<<d, e>>) = 2 /\ Padded(<<d, e>>) = <<d, e>>
         /\ Padded(<<d>>) = <<d, "0">>
         /\ Decimal(<<d, e>>) = 10 * DigitValue(d) + DigitValue(e)
         /\ DigitValue(d) \in Nat /\ DigitValue(e) \in Nat
         /\ Decimal(<<d, e>>) \in 0..99
<1>1. PICK u, v : u = <<d>> /\ v = Append(u, e)
  OBVIOUS
<1>2. u \in Seq(Figures) /\ v = <<d, e>>
  <2>1. <<d, e>> = Append(<<d>>, e)
    <3>1. <<d>> \in Seq(Digits)
      OBVIOUS
    <3> QED
      BY <3>1
  <2> QED
    BY <1>1, <2>1, OneDigit
<1>3. Decimal(v) = 10 * Decimal(u) + DigitValue(e)
  BY <1>1, <1>2, DecimalSteps
<1>4. Decimal(u) = DigitValue(d) /\ DigitValue(d) \in 0..9 /\ DigitValue(e) \in 0..9
  BY <1>1, OneDigit, DigitFacts
<1>5. Decimal(v) = 10 * DigitValue(d) + DigitValue(e) /\ Decimal(v) \in 0..99
  BY <1>3, <1>4
<1>6. Whole(<<d, e>>) /\ Len(<<d, e>>) = 2
  BY DEF Whole
<1>7. Padded(<<d, e>>) = <<d, e>> /\ Padded(<<d>>) = <<d, "0">>
  <2>1. <<d, "0">> = Append(<<d>>, "0")
    <3>1. <<d>> \in Seq(Digits) /\ "0" \in Digits
      BY DigitFacts
    <3> QED
      BY <3>1
  <2>2. Len(<<d>>) = 1 /\ Len(<<d, e>>) # 1
    OBVIOUS
  <2> QED
    BY <2>1, <2>2, Zenon DEF Padded
<1> QED
  BY <1>2, <1>4, <1>5, <1>6, <1>7

\* The number a text of one of the shapes with a point makes.
LEMMA ShapeDecimals ==
  ASSUME NEW w, Whole(w), NEW d \in Digits, NEW e \in Digits
  PROVE  LET s == Append(Append(w, "."), d)
         IN /\ Decimal(w) \in Nat
            /\ Decimal(s) = 10 * Decimal(w) + DigitValue(d)
            /\ Decimal(Append(s, e)) = 100 * Decimal(w) + 10 * DigitValue(d) + DigitValue(e)
<1>1. w \in Seq(Figures) /\ Decimal(w) \in Nat /\ DigitValue(d) \in Nat /\ DigitValue(e) \in Nat
  BY WholeParts, DecimalSteps, DigitFacts
<1>2. PICK u : u = Append(w, ".")
  OBVIOUS
<1>3. PICK s : s = Append(u, d)
  OBVIOUS
<1>4. PICK t : t = Append(s, e)
  OBVIOUS
<1>5. u \in Seq(Figures) /\ s \in Seq(Figures)
  BY <1>1, <1>2, <1>3 DEF Figures
<1>6. Decimal(u) = Decimal(w)
  BY <1>1, <1>2, DecimalSteps
<1>7. Decimal(s) = 10 * Decimal(u) + DigitValue(d)
  BY <1>3, <1>5, DecimalSteps
<1>8. Decimal(t) = 10 * Decimal(s) + DigitValue(e)
  BY <1>4, <1>5, DecimalSteps
<1>9. Decimal(t) = 100 * Decimal(w) + 10 * DigitValue(d) + DigitValue(e)
  BY <1>1, <1>6, <1>7, <1>8
<1> QED
  BY <1>1, <1>2, <1>3, <1>4, <1>6, <1>7, <1>9

\* what ParseMoney makes of a text that is well formed and denotes v
Parsed(v) == IF v <= MaxInt THEN Ok(Of(v)) ELSE Err("ErrOverflow")

\* A text of one of the three shapes is well formed, and is parsed to what it denotes.
LEMMA WholeParsed ==
  ASSUME NEW s, Whole(s)
  PROVE  WellFormed(s) /\ Denoted(s) = 100 * Decimal(s) /\ Decimal(s) \in Nat
         /\ ParseMoney(s) = Parsed(100 * Decimal(s))
<1>1. /\ s \in Seq(Figures) /\ s \in Seq(Chars) /\ s \in Seq(Digits) /\ s # <<>>
      /\ Points(s) = {} /\ WholePart(s) = s /\ MinorPart(s) = <<>> /\ Cardinality(Points(s)) = 0
  BY WholeParts DEF Whole
<1>2. WellFormed(s)
  <2>1. DOMAIN s = 1..Len(s) /\ \A i \in 1..Len(s) : s[i] \in Digits /\ s[i] # "."
    BY <1>1, DigitFacts
  <2> QED
    BY <1>1, <2>1 DEF WellFormed
<1>3. Decimal(s) \in Nat
  BY <1>1, DecimalSteps
<1>4. Denoted(s) = 100 * Decimal(s)
  BY <1>1, <1>3 DEF Denoted
<1>5. Padded(<<>>) = <<>> /\ Decimal(<<>>) = 0
  BY DecimalSteps DEF Padded
<1>6. PICK v \in Nat : v = 100 * Decimal(s)
  BY <1>3
<1>7. ParseMoney(s) = IF v <= MaxInt THEN Ok(Of(v)) ELSE Err("ErrOverflow")
  <2>1. s[1] \in Digits /\ Whole(WholePart(s)) /\ MinorPart(s) \in Seq(Digits) /\ Len(MinorPart(s)) <= 2
    BY <1>1
  <2>2. v = 100 * Decimal(WholePart(s)) + Decimal(Padded(MinorPart(s)))
        /\ Decimal(Padded(MinorPart(s))) \in 0..99
    BY <1>1, <1>3, <1>5, <1>6
  <2>3. Cardinality(Points(s)) \in {0, 1}
    BY <1>1
  <2> QED
    BY <1>1, <2>1, <2>2, <2>3, ParseFigures
<1> QED
  BY <1>2, <1>3, <1>4, <1>6, <1>7 DEF Parsed

LEMMA TenthsParsed ==
  ASSUME NEW w, Whole(w), NEW d \in Digits, NEW s, s = Append(Append(w, "."), d)
  PROVE  LET v == 100 * Decimal(w) + 10 * DigitValue(d)
         IN WellFormed(s) /\ v \in Nat /\ Denoted(s) = v /\ ParseMoney(s) = Parsed(v)
<1>1. /\ s \in Seq(Figures) /\ s \in Seq(Chars) /\ Len(s) = Len(w) + 2
      /\ Points(s) = {Len(w) + 1} /\ WholePart(s) = w /\ MinorPart(s) = <<d>>
  BY TenthsParts
<1>2. PICK n \in Nat \ {0} : n = Len(w)
  BY DEF Whole
<1>3. /\ w \in Seq(Digits) /\ w \in Seq(Figures)
      /\ \A i \in 1..n : w[i] \in Digits /\ s[i] = w[i]
      /\ s[n + 1] = "." /\ s[n + 2] = d
  BY <1>2, ShapeIndices, WholeParts DEF Whole
<1>4. WellFormed(s)
  <2>1. s # <<>> /\ DOMAIN s = 1..(n + 2)
    BY <1>1, <1>2
  <2>2. \A i \in 1..(n + 2) : i # n + 1 => s[i] \in Digits /\ s[i] # "."
    <3>1. \A i \in 1..(n + 2) : i \in 1..n \/ i = n + 1 \/ i = n + 2
      BY <1>2
    <3> QED
      BY <1>3, <3>1, DigitFacts
  <2>3. 1 < n + 1 /\ Len(s) - (n + 1) \in {1, 2}
    BY <1>1, <1>2
  <2> QED
    BY <1>3, <2>1, <2>2, <2>3 DEF WellFormed
<1>5. Decimal(w) \in Nat /\ DigitValue(d) \in 0..9
  BY <1>3, DecimalSteps, DigitFacts
<1>6. Decimal(s) = 10 * Decimal(w) + DigitValue(d)
  BY ShapeDecimals
<1>7. PICK v \in Nat : v = 100 * Decimal(w) + 10 * DigitValue(d)
  BY <1>5
<1>8. Denoted(s) = v
  <2>1. Points(s) # {} /\ Max(Points(s)) = n + 1
    <3>1. PICK p : p = n + 1
      OBVIOUS
    <3>2. Max(Points(s)) = p
      BY <1>1, <1>2, <3>1, OnePoint
    <3> QED
      BY <1>1, <3>1, <3>2
  <2>2. Len(s) - Max(Points(s)) = 1
    BY <1>1, <1>2, <2>1
  <2>3. Denoted(s) = Decimal(s) * 10
    BY <2>1, <2>2 DEF Denoted
  <2> QED
    BY <1>5, <1>6, <1>7, <2>3
<1>9. PICK t : t = MinorPart(s)
  OBVIOUS
<1>10. Decimal(Padded(t)) = 10 * DigitValue(d) /\ Decimal(Padded(t)) \in 0..99
  <2>1. PICK q : q = <<d, "0">>
    OBVIOUS
  <2>2. /\ Decimal(q) = 10 * DigitValue(d) + DigitValue("0")
        /\ Decimal(q) \in 0..99 /\ Padded(t) = q
    BY <1>1, <1>9, <2>1, TwoDigits, DigitFacts
  <2>3. Decimal(q) = 10 * DigitValue(d)
    BY <1>5, <2>2, DigitFacts
  <2> QED
    BY <2>2, <2>3
<1>11. ParseMoney(s) = IF v <= MaxInt THEN Ok(Of(v)) ELSE Err("ErrOverflow")
  <2>1. s[1] \in Digits /\ s # <<>> /\ Whole(WholePart(s))
    BY <1>1, <1>2, <1>3
  <2>2. Whole(t) /\ t \in Seq(Digits) /\ Len(t) <= 2
    <3>1. Whole(t) /\ Len(t) = 1
      BY <1>1, <1>9, OneDigit
    <3> QED
      BY <3>1 DEF Whole
  <2>3. v = 100 * Decimal(WholePart(s)) + Decimal(Padded(t))
    BY <1>1, <1>7, <1>10
  <2>4. Cardinality(Points(s)) \in {0, 1}
    BY <1>1, FS_Singleton
  <2> QED
    BY <1>1, <1>9, <1>10, <2>1, <2>2, <2>3, <2>4, ParseFigures
<1> QED
  BY <1>4, <1>7, <1>8, <1>11 DEF Parsed

LEMMA CentsParsed ==
  ASSUME NEW s, NEW w, NEW d, NEW e, IsCents(s, w, d, e)
  PROVE  LET v == 100 * Decimal(w) + 10 * DigitValue(d) + DigitValue(e)
         IN WellFormed(s) /\ v \in Nat /\ Denoted(s) = v /\ ParseMoney(s) = Parsed(v)
<1>0. Whole(w) /\ d \in Digits /\ e \in Digits /\ s = Append(Append(Append(w, "."), d), e)
  BY DEF IsCents
<1>1. /\ s \in Seq(Figures) /\ s \in Seq(Chars) /\ Len(s) = Len(w) + 3
      /\ Points(s) = {Len(w) + 1} /\ WholePart(s) = w /\ MinorPart(s) = <<d, e>>
  BY CentsParts
<1>2. PICK n \in Nat \ {0} : n = Len(w)
  BY <1>0 DEF Whole
<1>3. /\ w \in Seq(Digits) /\ w \in Seq(Figures)
      /\ \A i \in 1..n : w[i] \in Digits /\ s[i] = w[i]
      /\ s[n + 1] = "." /\ s[n + 2] = d /\ s[n + 3] = e
  BY <1>0, <1>2, ShapeIndices, WholeParts DEF Whole
<1>4. WellFormed(s)
  <2>1. s # <<>> /\ DOMAIN s = 1..(n + 3)
    BY <1>1, <1>2
  <2>2. \A i \in 1..(n + 3) : i # n + 1 => s[i] \in Digits /\ s[i] # "."
    <3>1. \A i \in 1..(n + 3) : i \in 1..n \/ i = n + 1 \/ i = n + 2 \/ i = n + 3
      BY <1>2
    <3> QED
      BY <1>0, <1>3, <3>1, DigitFacts
  <2>3. 1 < n + 1 /\ Len(s) - (n + 1) \in {1, 2}
    BY <1>1, <1>2
  <2> QED
    BY <1>3, <2>1, <2>2, <2>3 DEF WellFormed
<1>5. Decimal(w) \in Nat /\ DigitValue(d) \in 0..9 /\ DigitValue(e) \in 0..9
  BY <1>0, <1>3, DecimalSteps, DigitFacts
<1>6. Decimal(s) = 100 * Decimal(w) + 10 * DigitValue(d) + DigitValue(e)
  BY <1>0, ShapeDecimals
<1>7. PICK v \in Nat : v = 100 * Decimal(w) + 10 * DigitValue(d) + DigitValue(e)
  <2>1. \A a \in Nat : \A b, c \in 0..9 : 100 * a + 10 * b + c \in Nat
    OBVIOUS
  <2> QED
    BY <1>5, <2>1
<1>8. Denoted(s) = v
  <2>1. Points(s) # {} /\ Max(Points(s)) = n + 1
    <3>1. PICK p : p = n + 1
      OBVIOUS
    <3>2. Max(Points(s)) = p
      BY <1>1, <1>2, <3>1, OnePoint
    <3> QED
      BY <1>1, <3>1, <3>2
  <2>2. Len(s) - Max(Points(s)) = 2
    BY <1>1, <1>2, <2>1
  <2>3. Denoted(s) = Decimal(s) * 1
    BY <2>1, <2>2 DEF Denoted
  <2> QED
    BY <1>6, <1>7, <2>3
<1>9. PICK t : t = MinorPart(s)
  OBVIOUS
<1>10. Decimal(Padded(t)) = 10 * DigitValue(d) + DigitValue(e) /\ Decimal(Padded(t)) \in 0..99
  BY <1>0, <1>1, <1>9, TwoDigits
<1>11. ParseMoney(s) = IF v <= MaxInt THEN Ok(Of(v)) ELSE Err("ErrOverflow")
  <2>1. s[1] \in Digits /\ s # <<>> /\ Whole(WholePart(s))
    BY <1>0, <1>1, <1>2, <1>3
  <2>2. Whole(t) /\ t \in Seq(Digits) /\ Len(t) <= 2
    <3>1. Whole(t) /\ Len(t) = 2
      BY <1>0, <1>1, <1>9, TwoDigits
    <3> QED
      BY <3>1 DEF Whole
  <2>3. v = 100 * Decimal(WholePart(s)) + Decimal(Padded(t))
    <3>1. PICK a \in Nat, b \in 0..9, c \in 0..9 :
             a = Decimal(w) /\ b = DigitValue(d) /\ c = DigitValue(e)
      BY <1>5
    <3>2. v = 100 * a + 10 * b + c /\ Decimal(Padded(t)) = 10 * b + c /\ Decimal(WholePart(s)) = a
      BY <1>1, <1>7, <1>10, <3>1
    <3> QED
      BY <3>2
  <2>4. Cardinality(Points(s)) \in {0, 1}
    BY <1>1, FS_Singleton
  <2> QED
    BY <1>1, <1>9, <1>10, <2>1, <2>2, <2>3, <2>4, ParseFigures
<1> QED
  BY <1>4, <1>7, <1>8, <1>11 DEF Parsed

\* A text with one point, a digit before it, one or two behind it, and digits
\* everywhere else has one of the shapes with a point.
LEMMA PointShapes ==
  ASSUME NEW s \in Seq(Chars), NEW p \in 1..Len(s),
         1 < p, Len(s) - p \in {1, 2}, s[p] = ".",
         \A i \in 1..Len(s) : i # p => s[i] \in Digits
  PROVE  Tenths(s) \/ Cents(s)
<1>1. PICK w : w = SubSeq(s, 1, p - 1)
  OBVIOUS
<1>2. PICK n \in Nat : n = p - 1 /\ n # 0 /\ p = n + 1
  OBVIOUS
<1>3. /\ w \in Seq(Digits) /\ Len(w) = n /\ \A i \in 1..n : w[i] = s[i]
  <2>1. s \in Seq(Figures)
    <3>1. \A i \in 1..Len(s) : s[i] \in Figures
      BY DEF Figures
    <3> QED
      BY <3>1
  <2>2. /\ w \in Seq(Figures) /\ Len(w) = (p - 1) - 1 + 1
        /\ \A i \in 1..((p - 1) - 1 + 1) : w[i] = s[1 + i - 1]
    <3>1. PICK a, b : a = 1 /\ b = p - 1
      OBVIOUS
    <3>2. a \in 1..Len(s) /\ b \in a..Len(s) /\ w = SubSeq(s, a, b)
      BY <1>1, <3>1
    <3>3. /\ w \in Seq(Figures) /\ Len(w) = b - a + 1
          /\ \A i \in 1..(b - a + 1) : w[i] = s[a + i - 1]
      BY <2>1, <3>2, Slice
    <3> QED
      BY <3>1, <3>3
  <2>3. Len(w) = n /\ \A i \in 1..n : w[i] = s[i]
    BY <1>2, <2>2
  <2>4. \A i \in 1..n : w[i] \in Digits
    BY <1>2, <2>3
  <2> QED
    BY <2>2, <2>3, <2>4
<1>4. Whole(w)
  BY <1>2, <1>3 DEF Whole
<1>5. CASE Len(s) - p = 1
  <2>1. Len(s) = n + 2
    BY <1>2, <1>5
  <2>2. PICK d \in Digits : d = s[n + 2]
    BY <1>2, <2>1
  <2>3. PICK t : t = Append(Append(w, "."), d)
    OBVIOUS
  <2>4. /\ t \in Seq(Chars) /\ Len(t) = n + 2
        /\ \A i \in 1..n : t[i] = w[i]
        /\ t[n + 1] = "." /\ t[n + 2] = d
    BY <1>3, <1>4, <2>3, ShapeIndices
  <2>5. \A i \in 1..(n + 2) : i \in 1..n \/ i = n + 1 \/ i = n + 2
    OBVIOUS
  <2>6. s[n + 1] = "."
    BY <1>2
  <2>7. \A i \in 1..(n + 2) : s[i] = t[i]
    BY <1>3, <2>2, <2>4, <2>5, <2>6
  <2>8. s = t
    BY <2>1, <2>4, <2>7, SeqEqual
  <2> QED
    BY <1>4, <2>2, <2>3, <2>8 DEF Tenths
<1>6. CASE Len(s) - p = 2
  <2>1. Len(s) = n + 3
    BY <1>2, <1>6
  <2>2. PICK d \in Digits, e \in Digits : d = s[n + 2] /\ e = s[n + 3]
    BY <1>2, <2>1
  <2>3. PICK t : t = Append(Append(Append(w, "."), d), e)
    OBVIOUS
  <2>4. /\ t \in Seq(Chars) /\ Len(t) = n + 3
        /\ \A i \in 1..n : t[i] = w[i]
        /\ t[n + 1] = "." /\ t[n + 2] = d /\ t[n + 3] = e
    BY <1>3, <1>4, <2>3, ShapeIndices
  <2>5. \A i \in 1..(n + 3) : i \in 1..n \/ i = n + 1 \/ i = n + 2 \/ i = n + 3
    OBVIOUS
  <2>6. s[n + 1] = "."
    BY <1>2
  <2>7. \A i \in 1..(n + 3) : s[i] = t[i]
    BY <1>3, <2>2, <2>4, <2>5, <2>6
  <2>8. s = t
    BY <2>1, <2>4, <2>7, SeqEqual
  <2>9. IsCents(s, w, d, e)
    BY <1>4, <2>3, <2>8 DEF IsCents
  <2> QED
    BY <2>9 DEF Cents
<1> QED
  BY <1>5, <1>6

\* A well formed text has one of the three shapes.
LEMMA WellFormedShapes ==
  ASSUME NEW s \in Seq(Chars), WellFormed(s)
  PROVE  Whole(s) \/ Tenths(s) \/ Cents(s)
<1>1. /\ s # <<>> /\ DOMAIN s = 1..Len(s)
      /\ \A i \in 1..Len(s) : s[i] \in Digits \/ (s[i] = "." /\ 1 < i /\ Len(s) - i \in {1, 2})
      /\ \A i, j \in 1..Len(s) : s[i] = "." /\ s[j] = "." => i = j
  BY DEF WellFormed
<1>2. CASE \A i \in 1..Len(s) : s[i] \in Digits
  <2>1. s \in Seq(Digits)
    BY <1>2
  <2> QED
    BY <1>1, <2>1 DEF Whole
<1>3. ASSUME NEW p \in 1..Len(s), s[p] \notin Digits PROVE Tenths(s) \/ Cents(s)
  <2>1. s[p] = "." /\ 1 < p /\ Len(s) - p \in {1, 2}
    BY <1>1, <1>3
  <2>2. \A i \in 1..Len(s) : i # p => s[i] \in Digits
    BY <1>1, <2>1
  <2> QED
    BY <2>1, <2>2, PointShapes
<1> QED
  BY <1>2, <1>3

\* the checks of ParseMoney on the parts of a text
PartsPass(s) ==
  /\ s # <<>> /\ ~(Cardinality(Points(s)) > 1) /\ isDigits(WholePart(s))
  /\ Points(s) # {} => MinorPart(s) # <<>> /\ ~(Len(MinorPart(s)) > 2) /\ isDigits(MinorPart(s))

\* So has every text whose parts pass the checks of ParseMoney.
LEMMA CheckedShapes ==
  ASSUME NEW s \in Seq(Chars), PartsPass(s)
  PROVE  Whole(s) \/ Tenths(s) \/ Cents(s)
<1>1. /\ s # <<>> /\ ~(Cardinality(Points(s)) > 1) /\ isDigits(WholePart(s))
      /\ Points(s) # {} => MinorPart(s) # <<>> /\ ~(Len(MinorPart(s)) > 2) /\ isDigits(MinorPart(s))
  BY DEF PartsPass
<1>2. CASE Points(s) = {}
  <2>1. WholePart(s) = s
    BY <1>2 DEF WholePart
  <2> QED
    BY <1>1, <2>1, IsDigits
<1>3. CASE Points(s) # {}
  <2>1. PICK p \in Points(s) : TRUE
    BY <1>3
  <2>2. Points(s) = {p}
    <3>1. Points(s) \subseteq 1..Len(s) /\ Len(s) \in Nat
      BY DEF Points
    <3>2. IsFiniteSet(Points(s))
      <4>1. IsFiniteSet(1..Len(s))
        BY <3>1, FS_Interval
      <4> QED
        BY <3>1, <4>1, FS_Subset
    <3>3. Cardinality(Points(s)) \in Nat /\ Cardinality(Points(s)) # 0
      BY <1>3, <3>2, FS_CardinalityType, FS_EmptySet
    <3>4. Cardinality(Points(s)) = 1
      BY <1>1, <3>3
    <3>5. PICK q : Points(s) = {q}
      BY <3>2, <3>4, FS_Singleton
    <3> QED
      BY <2>1, <3>5
  <2>3. /\ p \in 1..Len(s) /\ WholePart(s) = SubSeq(s, 1, p - 1)
        /\ MinorPart(s) = SubSeq(s, p + 1, Len(s))
    BY <2>2, OnePoint
  <2>4. s[p] = "." /\ p \in Nat /\ Len(s) \in Nat
    BY <2>1, <2>3 DEF Points
  <2>5. 1 < p
    <3>1. p = 1 => SubSeq(s, 1, p - 1) = <<>>
      OBVIOUS
    <3> QED
      BY <1>1, <2>3, <3>1 DEF isDigits
  <2>6. p # Len(s)
    <3>1. p = Len(s) => SubSeq(s, p + 1, Len(s)) = <<>>
      BY <2>4
    <3> QED
      BY <1>1, <1>3, <2>3, <3>1
  <2>7. Len(s) - p \in {1, 2}
    <3>1. Len(SubSeq(s, p + 1, Len(s))) = Len(s) - p
      BY <2>3, <2>4, <2>6
    <3> QED
      BY <1>1, <1>3, <2>3, <2>4, <2>6, <3>1
  <2>8. \A i \in 1..Len(s) : i # p => s[i] \in Digits
    <3>1. \A t : Range(t) \subseteq Digits => \A i \in DOMAIN t : t[i] \in Digits
      BY DEF Range
    <3>2. ASSUME NEW i \in 1..Len(s), i < p PROVE s[i] \in Digits
      <4>1. PICK t : t = WholePart(s)
        OBVIOUS
      <4>2. i \in DOMAIN t /\ t[i] = s[i]
        BY <2>3, <2>4, <3>2, <4>1
      <4> QED
        BY <1>1, <3>1, <4>1, <4>2 DEF isDigits
    <3>3. ASSUME NEW i \in 1..Len(s), i > p PROVE s[i] \in Digits
      <4>1. PICK t : t = MinorPart(s)
        OBVIOUS
      <4>2. i - p \in DOMAIN t /\ t[i - p] = s[i]
        BY <2>3, <2>4, <3>3, <4>1
      <4> QED
        BY <1>1, <1>3, <3>1, <4>1, <4>2 DEF isDigits
    <3> QED
      BY <2>4, <3>2, <3>3
  <2> QED
    BY <2>3, <2>4, <2>5, <2>7, <2>8, PointShapes
<1> QED
  BY <1>2, <1>3

\* What ParseMoney accepts has passed them.
LEMMA AcceptedShapes ==
  ASSUME NEW s \in Seq(Chars), ParseMoney(s).err = ""
  PROVE  Whole(s) \/ Tenths(s) \/ Cents(s)
<1>1. Err("ErrInvalidMoney").err # "" /\ Err("ErrScaleExceeded").err # ""
      /\ Err("ErrScientificNotation").err # "" /\ Err("ErrNegativeExternal").err # ""
      /\ Err("ErrOverflow").err # ""
  BY DEF Err
<1>2. PartsPass(s)
  BY <1>1, Zenon DEF ParseMoney, PartsPass
<1> QED
  BY <1>2, CheckedShapes

\* What ParseMoney makes of any text.
LEMMA ParsedText ==
  ASSUME NEW s \in Seq(Chars)
  PROVE  /\ WellFormed(s) => Denoted(s) \in Nat /\ ParseMoney(s) = Parsed(Denoted(s))
         /\ ~WellFormed(s) => ParseMoney(s).err # ""
<1>1. ASSUME Whole(s) \/ Tenths(s) \/ Cents(s)
      PROVE  WellFormed(s) /\ Denoted(s) \in Nat /\ ParseMoney(s) = Parsed(Denoted(s))
  <2>1. CASE Whole(s)
    <3>1. PICK k : k = Decimal(s)
      OBVIOUS
    <3>2. WellFormed(s) /\ Denoted(s) = 100 * k /\ k \in Nat /\ ParseMoney(s) = Parsed(100 * k)
      BY <2>1, <3>1, WholeParsed
    <3>3. 100 * k \in Nat
      BY <3>2
    <3> QED
      BY <3>2, <3>3
  <2>2. CASE Tenths(s)
    <3>1. PICK w, d : Whole(w) /\ d \in Digits /\ s = Append(Append(w, "."), d)
      BY <2>2 DEF Tenths
    <3>2. PICK v : v = 100 * Decimal(w) + 10 * DigitValue(d)
      OBVIOUS
    <3>3. WellFormed(s) /\ v \in Nat /\ Denoted(s) = v /\ ParseMoney(s) = Parsed(v)
      BY <3>1, <3>2, TenthsParsed
    <3> QED
      BY <3>3
  <2>3. CASE Cents(s)
    <3>1. PICK w, d, e : IsCents(s, w, d, e)
      BY <2>3 DEF Cents
    <3>2. PICK v : v = 100 * Decimal(w) + 10 * DigitValue(d) + DigitValue(e)
      OBVIOUS
    <3>3. WellFormed(s) /\ v \in Nat /\ Denoted(s) = v /\ ParseMoney(s) = Parsed(v)
      BY <3>1, <3>2, CentsParsed
    <3> QED
      BY <3>3
  <2> QED
    BY <1>1, <2>1, <2>2, <2>3
<1>2. WellFormed(s) => Whole(s) \/ Tenths(s) \/ Cents(s)
  BY WellFormedShapes
<1>3. ParseMoney(s).err = "" => Whole(s) \/ Tenths(s) \/ Cents(s)
  BY AcceptedShapes
<1> QED
  BY <1>1, <1>2, <1>3

\* The text consists of known characters.
LEMMA TextType ==
  MoneySpec => [](text \in Seq(Chars))
<1>1. Alphabet \subseteq Chars
  BY MoneyAssumption DEF Chars, Digits
<1>2. MoneyInit => text \in Seq(Chars)
  BY DEF MoneyInit
<1>3. text \in Seq(Chars) /\ [MoneyNext]_mvars => (text \in Seq(Chars))'
  BY <1>1 DEF MoneyNext, Type, mvars
<1> QED
  BY <1>2, <1>3, PTL DEF MoneySpec

\* ParseExact for texts of any length, any alphabet and a word of any width:
\* ParseMoney accepts the decimal numbers with at most two places that fit, and
\* nothing else, and returns them to the cent.
THEOREM ParseIsExact ==
  MoneySpec => []ParseExact
<1>1. text \in Seq(Chars) => ParseExact
  <2> SUFFICES ASSUME text \in Seq(Chars) PROVE ParseExact
    OBVIOUS
  <2>1. /\ WellFormed(text) => Denoted(text) \in Nat /\ ParseMoney(text) = Parsed(Denoted(text))
        /\ ~WellFormed(text) => ParseMoney(text).err # ""
    BY ParsedText
  <2>2. \A v : (v <= MaxInt => Parsed(v).err = "" /\ Parsed(v).money = Of(v))
               /\ (~(v <= MaxInt) => Parsed(v).err # "")
    BY DEF Parsed, Ok, Err
  <2>3. PICK r, v : r = ParseMoney(text) /\ v = Denoted(text)
    OBVIOUS
  <2>4. r.err = "" <=> WellFormed(text) /\ v <= MaxInt
    BY <2>1, <2>2, <2>3
  <2>5. r.err = "" => r.money = Of(v)
    BY <2>1, <2>2, <2>3, <2>4
  <2> QED
    BY <2>3, <2>4, <2>5 DEF ParseExact
<1> QED
  BY <1>1, TextType, PTL

-----------------------------------------------------------------------------
(***************************************************************************)
(* Amounts as texts.                                                       *)
(***************************************************************************)

\* Division by ten.
LEMMA Tens ==
  ASSUME NEW n \in Nat
  PROVE  /\ n \div 10 \in Nat /\ n % 10 \in 0..9 /\ n = 10 * (n \div 10) + (n % 10)
         /\ n >= 10 => n \div 10 < n /\ n \div 10 >= 1
  OBVIOUS

\* f holds the digits of the numbers up to k
Spells(f, k) ==
  f = [n \in 0..k |-> IF n < 10 THEN <<DigitChars[n + 1]>>
                      ELSE Append(f[n \div 10], DigitChars[(n % 10) + 1])]

\* There are such digits for every number ...
LEMMA SpellingExists ==
  ASSUME NEW k \in Nat
  PROVE  \E f : Spells(f, k)
<1> DEFINE T == {j \in Nat : ~\E f : Spells(f, j)}
<1> SUFFICES ASSUME T # {} PROVE FALSE
  OBVIOUS
<1>1. PICK m \in T : \A j \in T : ~(j < m)
  <2>1. T \subseteq Nat
    OBVIOUS
  <2> HIDE DEF T
  <2> QED
    BY <2>1, Least
<1>2. m \in Nat
  BY <1>1
<1>3. CASE m = 0
  <2>1. PICK f : f = [n \in 0..0 |-> <<DigitChars[n + 1]>>]
    OBVIOUS
  <2>2. \A n \in 0..0 : n < 10
    OBVIOUS
  <2>3. Spells(f, 0)
    BY <2>1, <2>2, Zenon DEF Spells
  <2> QED
    BY <1>1, <1>3, <2>3
<1>4. CASE m # 0
  <2>1. m - 1 \in Nat /\ m - 1 < m
    BY <1>2, <1>4
  <2>2. PICK f : Spells(f, m - 1)
    BY <1>1, <2>1
  <2> DEFINE One(h, n) == IF n < 10 THEN <<DigitChars[n + 1]>>
                          ELSE Append(h[n \div 10], DigitChars[(n % 10) + 1])
             g == [n \in 0..m |-> IF n = m THEN One(f, n) ELSE f[n]]
  <2>3. \A n \in 0..(m - 1) : f[n] = One(f, n)
    BY <2>2 DEF Spells
  <2>4. \A n \in 0..(m - 1) : g[n] = f[n]
    BY <1>2, <2>1
  <2>5. g[m] = One(f, m)
    BY <1>2
  <2>6. \A n \in 0..m : n >= 10 => n \div 10 \in 0..(m - 1)
    <3>1. ASSUME NEW n \in 0..m, n >= 10 PROVE n \div 10 \in 0..(m - 1)
      <4>1. n \in Nat /\ n <= m
        BY <1>2
      <4>2. n \div 10 \in Nat /\ n \div 10 < n
        BY <3>1, <4>1, Tens
      <4> QED
        BY <1>2, <4>1, <4>2
    <3> QED
      BY <3>1
  <2>7. g = [n \in 0..m |-> g[n]]
    OBVIOUS
  <2> HIDE DEF g
  <2>8. \A n \in 0..m : One(g, n) = One(f, n)
    <3>1. ASSUME NEW n \in 0..m PROVE One(g, n) = One(f, n)
      <4>1. n < 10 \/ n >= 10
        BY <1>2
      <4>2. n >= 10 => g[n \div 10] = f[n \div 10]
        BY <2>4, <2>6
      <4> QED
        BY <4>1, <4>2
    <3> QED
      BY <3>1
  <2>9. \A n \in 0..m : g[n] = One(g, n)
    <3>1. \A n \in 0..m : n = m \/ n \in 0..(m - 1)
      BY <1>2
    <3> HIDE DEF One
    <3> QED
      BY <2>3, <2>4, <2>5, <2>8, <3>1
  <2>10. Spells(g, m)
    <3>1. g = [n \in 0..m |-> One(g, n)]
      <4> HIDE DEF One
      <4> QED
        BY <2>7, <2>9
    <3> QED
      BY <3>1, Zenon DEF Spells
  <2> QED
    BY <1>1, <2>10
<1> QED
  BY <1>3, <1>4

\* ... and DigitsOf holds them.
LEMMA DigitsOfIs ==
  ASSUME NEW n \in 0..MaxUint
  PROVE  /\ n < 10 => DigitsOf[n] = <<DigitChars[n + 1]>>
         /\ n >= 10 => DigitsOf[n] = Append(DigitsOf[n \div 10], DigitChars[(n % 10) + 1])
<1> DEFINE Is(f) == f = [i \in 0..MaxUint |->
                           IF i < 10 THEN <<DigitChars[i + 1]>>
                           ELSE Append(f[i \div 10], DigitChars[(i % 10) + 1])]
<1>1. DigitsOf = CHOOSE f : Is(f)
  BY DEF DigitsOf
<1>2. \E f : Is(f)
  <2>1. MaxUint \in Nat
    BY MoneyAssumption DEF MaxUint
  <2>2. PICK f : Spells(f, MaxUint)
    BY <2>1, SpellingExists
  <2>3. Is(f)
    BY <2>2, Zenon DEF Spells
  <2> QED
    BY <2>3
<1>3. Is(DigitsOf)
  BY <1>1, <1>2
<1>4. PICK D : D = DigitsOf
  OBVIOUS
<1>5. D = [i \in 0..MaxUint |-> IF i < 10 THEN <<DigitChars[i + 1]>>
                                ELSE Append(D[i \div 10], DigitChars[(i % 10) + 1])]
  BY <1>3, <1>4
<1>6. D[n] = IF n < 10 THEN <<DigitChars[n + 1]>> ELSE Append(D[n \div 10], DigitChars[(n % 10) + 1])
  BY <1>5
<1>7. n >= 10 => ~(n < 10)
  BY MoneyAssumption DEF MaxUint
<1> QED
  BY <1>4, <1>6, <1>7

\* What is written of a number is read as that number.
LEMMA DigitsRead ==
  ASSUME NEW n \in 0..MaxUint
  PROVE  Whole(DigitsOf[n]) /\ Decimal(DigitsOf[n]) = n
<1> DEFINE T == {j \in 0..MaxUint : ~(Whole(DigitsOf[j]) /\ Decimal(DigitsOf[j]) = j)}
<1>0. MaxUint \in Nat
  BY MoneyAssumption DEF MaxUint
<1> SUFFICES ASSUME T # {} PROVE FALSE
  OBVIOUS
<1>1. PICK m \in T : \A j \in T : ~(j < m)
  <2>1. T \subseteq Nat
    BY <1>0
  <2> HIDE DEF T
  <2> QED
    BY <2>1, Least
<1>2. m \in Nat /\ m <= MaxUint /\ m \in 0..MaxUint
  BY <1>0, <1>1
<1>3. CASE m < 10
  <2>1. m \in 0..9
    BY <1>2, <1>3
  <2>2. PICK d : d = DigitChars[m + 1]
    OBVIOUS
  <2>3. d \in Digits /\ DigitValue(d) = m
    BY <2>1, <2>2, TenDigits
  <2>4. DigitsOf[m] = <<d>>
    BY <1>2, <1>3, <2>2, DigitsOfIs
  <2>5. Whole(<<d>>) /\ Decimal(<<d>>) = m
    BY <2>3, OneDigit
  <2> QED
    BY <1>1, <2>4, <2>5
<1>4. CASE m >= 10
  <2>1. PICK q \in Nat, r \in 0..9 : q = m \div 10 /\ r = m % 10
    BY <1>2, Tens
  <2>2. q < m /\ m = 10 * q + r
    BY <1>2, <1>4, <2>1, Tens
  <2>3. q \in 0..MaxUint
    BY <1>0, <1>2, <2>2
  <2>4. PICK u : u = DigitsOf[q]
    OBVIOUS
  <2>5. Whole(u) /\ Decimal(u) = q
    BY <1>1, <2>2, <2>3, <2>4
  <2>6. PICK d : d = DigitChars[r + 1]
    OBVIOUS
  <2>7. d \in Digits /\ DigitValue(d) = r
    BY <2>6, TenDigits
  <2>8. DigitsOf[m] = Append(u, d)
    BY <1>2, <1>4, <2>1, <2>4, <2>6, DigitsOfIs
  <2>9. PICK t : t = Append(u, d)
    OBVIOUS
  <2>10. u \in Seq(Digits) /\ u \in Seq(Figures)
    BY <2>5, WholeParts DEF Whole
  <2>11. Whole(t)
    BY <2>7, <2>9, <2>10 DEF Whole
  <2>12. Decimal(t) = 10 * Decimal(u) + DigitValue(d)
    BY <2>7, <2>9, <2>10, DecimalSteps
  <2>13. Decimal(t) = m
    BY <2>2, <2>5, <2>7, <2>12
  <2> QED
    BY <1>1, <2>8, <2>9, <2>11, <2>13
<1> QED
  BY <1>2, <1>3, <1>4

\* The two digits "%02d" writes of a number below a hundred.
LEMMA TwoPlaces ==
  ASSUME NEW n \in 0..99, n \in 0..MaxUint
  PROVE  \E d, e \in Digits :
           /\ n = 10 * DigitValue(d) + DigitValue(e)
           /\ (IF Len(DigitsOf[n]) = 1 THEN <<"0">> \o DigitsOf[n] ELSE DigitsOf[n]) = <<d, e>>
<1>1. n \in Nat
  OBVIOUS
<1>2. CASE n < 10
  <2>1. n \in 0..9
    BY <1>2
  <2>2. PICK e : e = DigitChars[n + 1]
    OBVIOUS
  <2>3. e \in Digits /\ DigitValue(e) = n
    BY <2>1, <2>2, TenDigits
  <2>4. DigitsOf[n] = <<e>>
    BY <1>2, <2>2, DigitsOfIs
  <2>5. Len(<<e>>) = 1 /\ <<"0">> \o <<e>> = <<"0", e>>
    <3>1. PICK a, b, t, u : a = <<"0">> /\ b = <<e>> /\ t = a \o b /\ u = <<"0", e>>
      OBVIOUS
    <3>2. /\ a \in Seq(Digits) /\ Len(a) = 1 /\ a[1] = "0"
          /\ b \in Seq(Digits) /\ Len(b) = 1 /\ b[1] = e
          /\ u \in Seq(Digits) /\ Len(u) = 2 /\ u[1] = "0" /\ u[2] = e
      BY <2>3, <3>1, DigitFacts
    <3>3. t \in Seq(Digits) /\ Len(t) = 2 /\ \A i \in 1..2 : t[i] = IF i <= 1 THEN a[i] ELSE b[i - 1]
      BY <3>1, <3>2, ConcatProperties
    <3>4. \A i \in 1..2 : t[i] = u[i]
      BY <3>2, <3>3
    <3>5. t = u
      BY <3>2, <3>3, <3>4, SeqEqual
    <3> QED
      BY <3>1, <3>2, <3>5
  <2>6. (IF Len(DigitsOf[n]) = 1 THEN <<"0">> \o DigitsOf[n] ELSE DigitsOf[n]) = <<"0", e>>
    BY <2>4, <2>5, Zenon
  <2>7. "0" \in Digits /\ n = 10 * DigitValue("0") + DigitValue(e)
    BY <1>1, <2>3, DigitFacts
  <2> QED
    BY <2>3, <2>6, <2>7
<1>3. CASE n >= 10
  <2>1. PICK q \in Nat, r \in 0..9 : q = n \div 10 /\ r = n % 10
    BY <1>1, Tens
  <2>2. q < n /\ n = 10 * q + r
    BY <1>1, <1>3, <2>1, Tens
  <2>3. q \in 0..9 /\ q < 10
    BY <2>1, <2>2
  <2>4. q \in 0..MaxUint
    BY <2>2, <2>3, MoneyAssumption DEF MaxUint
  <2>5. PICK d, e : d = DigitChars[q + 1] /\ e = DigitChars[r + 1]
    OBVIOUS
  <2>6. d \in Digits /\ DigitValue(d) = q /\ e \in Digits /\ DigitValue(e) = r
    BY <2>3, <2>5, TenDigits
  <2>7. DigitsOf[q] = <<d>>
    BY <2>3, <2>4, <2>5, DigitsOfIs
  <2>8. DigitsOf[n] = Append(<<d>>, e)
    BY <1>3, <2>1, <2>5, <2>7, DigitsOfIs
  <2>9. <<d, e>> = Append(<<d>>, e)
    <3>1. <<d>> \in Seq(Digits)
      BY <2>6
    <3> QED
      BY <2>6, <3>1
  <2>10. Len(<<d, e>>) # 1
    OBVIOUS
  <2>11. (IF Len(DigitsOf[n]) = 1 THEN <<"0">> \o DigitsOf[n] ELSE DigitsOf[n]) = <<d, e>>
    BY <2>8, <2>9, <2>10, Zenon
  <2> QED
    BY <2>2, <2>6, <2>11
<1> QED
  BY <1>1, <1>2, <1>3

\* Two more digits behind a text.
LEMMA TwoMore ==
  ASSUME NEW w \in Seq(Chars), NEW d \in Digits, NEW e \in Digits
  PROVE  w \o <<".">> \o <<d, e>> = Append(Append(Append(w, "."), d), e)
<1>1. "." \in Chars /\ d \in Chars /\ e \in Chars
  BY DEF Chars, OtherChars
<1>2. PICK u : u = w \o <<".">>
  OBVIOUS
<1>3. u = Append(w, ".") /\ u \in Seq(Chars)
  BY <1>1, <1>2, AppendIsConcat
<1>4. PICK p, t : p = <<d, e>> /\ t = u \o p
  OBVIOUS
<1>5. p \in Seq(Chars) /\ Len(p) = 2 /\ p[1] = d /\ p[2] = e
  BY <1>1, <1>4
<1>6. /\ t \in Seq(Chars) /\ Len(t) = Len(u) + 2
      /\ \A i \in 1..Len(u) : t[i] = u[i]
      /\ t[Len(u) + 1] = d /\ t[Len(u) + 2] = e
  <2>1. PICK n \in Nat : n = Len(u)
    BY <1>3
  <2>2. t \in Seq(Chars) /\ Len(t) = n + 2
    BY <1>3, <1>4, <1>5, <2>1, ConcatProperties
  <2>3. \A i \in 1..(n + 2) : t[i] = IF i <= n THEN u[i] ELSE p[i - n]
    BY <1>3, <1>4, <1>5, <2>1, ConcatProperties
  <2>4. t[n + 1] = p[1] /\ t[n + 2] = p[2]
    BY <2>3
  <2> QED
    BY <1>5, <2>1, <2>2, <2>3, <2>4
<1>7. PICK v : v = Append(Append(u, d), e)
  OBVIOUS
<1>8. /\ v \in Seq(Chars) /\ Len(v) = Len(u) + 2
      /\ \A i \in 1..Len(u) : v[i] = u[i]
      /\ v[Len(u) + 1] = d /\ v[Len(u) + 2] = e
  BY <1>1, <1>3, <1>7
<1>9. \A i \in 1..(Len(u) + 2) : t[i] = v[i]
  <2>1. \A i \in 1..(Len(u) + 2) : i \in 1..Len(u) \/ i = Len(u) + 1 \/ i = Len(u) + 2
    BY <1>3
  <2> QED
    BY <1>6, <1>8, <2>1
<1>10. t = v
  BY <1>6, <1>8, <1>9, SeqEqual
<1> QED
  BY <1>2, <1>3, <1>4, <1>7, <1>10

\* What Format writes is well formed and denotes the amount.
LEMMA FormatShape ==
  ASSUME NEW n \in 0..(MaxInt + 1)
  PROVE  /\ Format(n) \in Seq(Chars) /\ Format(n) # <<>> /\ WellFormed(Format(n))
         /\ Denoted(Format(n)) = n /\ ParseMoney(Format(n)) = Parsed(n)
<1>0. MaxInt \in Nat /\ n \in Nat /\ n <= MaxInt + 1 /\ MaxInt >= 1 /\ MaxUint = 2 * MaxInt + 1
  BY MoneyAssumption DEF MaxUint
<1>1. PICK q \in Nat, r \in 0..99 : q = n \div 100 /\ r = n % 100 /\ n = 100 * q + r
  BY <1>0
<1>2. q \in 0..MaxUint /\ r \in 0..MaxUint
  BY <1>0, <1>1
<1>3. PICK d \in Digits, e \in Digits :
           /\ r = 10 * DigitValue(d) + DigitValue(e)
           /\ (IF Len(DigitsOf[r]) = 1 THEN <<"0">> \o DigitsOf[r] ELSE DigitsOf[r]) = <<d, e>>
  BY <1>2, TwoPlaces
<1>4. PICK w : w = DigitsOf[q]
  OBVIOUS
<1>5. Whole(w) /\ Decimal(w) = q
  BY <1>2, <1>4, DigitsRead
<1>6. PICK s : s = Format(n)
  OBVIOUS
<1>7. s = w \o <<".">> \o <<d, e>>
  BY <1>1, <1>3, <1>4, <1>6, Zenon DEF Format
<1>8. w \in Seq(Chars)
  BY <1>5, WholeParts
<1>9. IsCents(s, w, d, e)
  BY <1>5, <1>7, <1>8, TwoMore DEF IsCents
<1>10. s \in Seq(Chars) /\ Len(s) = Len(w) + 3
  BY <1>9, CentsParts
<1>11. s # <<>>
  <2>1. Len(w) + 3 # 0
    BY <1>8
  <2>2. Len(<<>>) = 0
    OBVIOUS
  <2> QED
    BY <1>10, <2>1, <2>2
<1>12. n = 100 * Decimal(w) + 10 * DigitValue(d) + DigitValue(e)
  <2>1. DigitValue(d) \in Nat /\ DigitValue(e) \in Nat
    BY DigitFacts
  <2> QED
    BY <1>1, <1>3, <1>5, <2>1
<1>13. WellFormed(s) /\ Denoted(s) = n /\ ParseMoney(s) = Parsed(n)
  BY <1>9, <1>12, CentsParsed
<1> QED
  BY <1>6, <1>10, <1>11, <1>13

\* The minus sign in front of a text.
LEMMA Signed ==
  ASSUME NEW t \in Seq(Chars)
  PROVE  Head(<<"-">> \o t) = "-" /\ Tail(<<"-">> \o t) = t
<1>1. "-" \in Chars
  BY DEF Chars, OtherChars
<1>2. PICK m, u : m = <<"-">> /\ u = m \o t
  OBVIOUS
<1>3. m \in Seq(Chars) /\ Len(m) = 1 /\ m[1] = "-"
  BY <1>1, <1>2
<1>4. PICK n \in Nat : n = Len(t)
  OBVIOUS
<1>5. /\ u \in Seq(Chars) /\ Len(u) = n + 1
      /\ \A i \in 1..(n + 1) : u[i] = IF i <= 1 THEN m[i] ELSE t[i - 1]
  BY <1>2, <1>3, <1>4, ConcatProperties
<1>6. u # <<>> /\ u[1] = "-"
  BY <1>3, <1>4, <1>5
<1>7. PICK v : v = Tail(u)
  OBVIOUS
<1>8. v \in Seq(Chars) /\ Len(v) = n /\ \A i \in 1..n : v[i] = u[i + 1]
  BY <1>4, <1>5, <1>6, <1>7, HeadTailProperties
<1>9. \A i \in 1..n : v[i] = t[i]
  BY <1>4, <1>5, <1>8
<1>10. v = t
  BY <1>4, <1>8, <1>9, SeqEqual
<1>11. Head(u) = "-"
  BY <1>5, <1>6, HeadTailProperties
<1> QED
  BY <1>2, <1>7, <1>10, <1>11

\* FormatRoundTrip for every amount of a word of any width: what String and
\* MarshalJSON write of a balance is what ParseMoney and UnmarshalJSON read back,
\* and the text of a negative amount, MinInt64 too, is its magnitude behind a
\* minus sign.
THEOREM FormatIsReadBack ==
  MoneySpec => []FormatRoundTrip
<1>1. x \in Operands => FormatRoundTrip
  <2>0. MaxInt \in Nat /\ MinInt = -MaxInt - 1
    BY MoneyAssumption DEF MinInt
  <2>1. ASSUME x = NoMoney PROVE FormatRoundTrip
    <3>1. x.currency # BRL /\ ~(x.amount < 0)
      <4>1. NoMoney.currency = "" /\ NoMoney.amount = 0
        BY DEF NoMoney
      <4>2. ~(0 < 0) /\ BRL # ""
        BY DEF BRL
      <4> QED
        BY <2>1, <4>1, <4>2, Zenon
    <3>2. MarshalJSON(x) = [err |-> "ErrUnsupportedCurrency", amount |-> <<>>]
      BY <3>1 DEF MarshalJSON
    <3>3. MarshalJSON(x).err # ""
      BY <3>2
    <3> QED
      BY <3>1, <3>3 DEF FormatRoundTrip
  <2>2. ASSUME NEW n \in MinInt..MaxInt, x = Of(n) PROVE FormatRoundTrip
    <3>1. n \in Int /\ -MaxInt - 1 <= n /\ n <= MaxInt /\ x.amount = n /\ x.currency = BRL
      <4>1. Of(n).amount = n /\ Of(n).currency = BRL
        BY DEF Of
      <4>2. n \in Int /\ -MaxInt - 1 <= n /\ n <= MaxInt
        BY <2>0
      <4> QED
        BY <2>2, <4>1, <4>2, Zenon
    <3>2. CASE n < 0
      <4>1. Magnitude(n) = -n /\ -n \in 0..(MaxInt + 1)
        <5>1. Magnitude(n) = -n
          BY <3>2, MagnitudeIsExact
        <5>2. -n \in 0..(MaxInt + 1)
          <6>1. n \in Int /\ -MaxInt - 1 <= n
            BY <3>1
          <6> QED
            BY <2>0, <3>2, <6>1
        <5> QED
          BY <5>1, <5>2
      <4>2. PICK s : s = Format(-n)
        OBVIOUS
      <4>3. s \in Seq(Chars) /\ WellFormed(s) /\ Denoted(s) = -n
        BY <4>1, <4>2, FormatShape
      <4>4. String(x) = <<"-">> \o s
        BY <3>1, <3>2, <4>1, <4>2 DEF String
      <4>5. Head(String(x)) = "-" /\ Tail(String(x)) = s
        BY <4>3, <4>4, Signed
      <4>6. MarshalJSON(x) = [err |-> "ErrNegativeExternal", amount |-> <<>>]
        BY <3>1, <3>2 DEF MarshalJSON
      <4>7. MarshalJSON(x).err # "" /\ ~(x.amount >= 0)
        BY <3>1, <3>2, <4>6
      <4> QED
        BY <3>1, <4>3, <4>5, <4>7 DEF FormatRoundTrip
    <3>3. CASE n >= 0
      <4>1. n \in 0..(MaxInt + 1) /\ n <= MaxInt /\ ~(n < 0)
        <5>1. n \in Int /\ n <= MaxInt /\ n >= 0
          BY <3>1, <3>3
        <5> QED
          BY <2>0, <5>1
      <4>2. ParseMoney(Format(n)) = Ok(Of(n))
        BY <4>1, FormatShape DEF Parsed
      <4>3. MarshalJSON(x) = [err |-> "", amount |-> Format(n)]
        BY <3>1, <4>1 DEF MarshalJSON, String
      <4>4. MarshalJSON(x).err = "" /\ MarshalJSON(x).amount = Format(n)
        <5>1. \A f : [err |-> "", amount |-> f].err = "" /\ [err |-> "", amount |-> f].amount = f
          OBVIOUS
        <5> QED
          BY <4>3, <5>1, Zenon
      <4> QED
        BY <2>2, <3>1, <3>3, <4>1, <4>2, <4>4 DEF FormatRoundTrip
    <3> QED
      BY <3>1, <3>2, <3>3
  <2> QED
    BY <2>1, <2>2 DEF Operands
<1>2. MoneySpec => [](x \in Operands)
  <2>1. x \in Operands /\ y \in Operands => x \in Operands
    OBVIOUS
  <2> QED
    BY <2>1, OperandsStay, PTL
<1> QED
  BY <1>1, <1>2, PTL
=============================================================================
