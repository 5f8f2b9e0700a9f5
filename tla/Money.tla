------------------------------- MODULE Money -------------------------------
(***************************************************************************)
(* money.Money: amounts of minor units in a signed machine word, the text  *)
(* form they have in requests and responses, and their arithmetic.         *)
(*                                                                         *)
(* The operations are pure; the state is the input of one call, a text     *)
(* that grows character by character or two amounts.  MaxInt stands for    *)
(* math.MaxInt64 and every operation of the code that could leave the word *)
(* wraps around, as Go's does.                                             *)
(***************************************************************************)
EXTENDS Integers, Sequences, FiniteSets, SequencesExt

CONSTANTS
  MaxInt,    \* math.MaxInt64
  Alphabet,  \* the characters of the texts
  MaxLength  \* bound: the length of a text

\* "E" stands for e, E and +; "NaN" for the words the parser knows; " " for white
\* space and the comma
DigitChars == <<"0", "1", "2", "3", "4", "5", "6", "7", "8", "9">>
OtherChars == {".", "-", "E", "NaN", " ", "x"}

ASSUME MoneyAssumption ==
  /\ MaxInt \in Nat \ {0} /\ MaxLength \in Nat
  /\ Alphabet \subseteq Range(DigitChars) \cup OtherChars

VARIABLES
  text,  \* the input of ParseMoney
  x, y   \* the receiver and the argument of Add, Subtract and Compare

mvars == <<text, x, y>>

MinInt  == -MaxInt - 1
MaxUint == 2 * MaxInt + 1

\* a result of int64 arithmetic
Wrap(n) == ((n - MinInt) % (MaxUint + 1)) + MinInt

BRL == "BRL"
Of(amount) == [amount |-> amount, currency |-> BRL]

\* the zero value Money{}, whose currency is not valid
NoMoney == [amount |-> 0, currency |-> ""]

Ok(m)    == [err |-> "", money |-> m]
Err(err) == [err |-> err, money |-> NoMoney]

-----------------------------------------------------------------------------
(***************************************************************************)
(* ParseMoney.                                                             *)
(***************************************************************************)
Digits == Range(DigitChars)
DigitValue(c) == (CHOOSE i \in DOMAIN DigitChars : DigitChars[i] = c) - 1

isDigits(s) == s # <<>> /\ Range(s) \subseteq Digits

\* the numbers that the first n characters of s make, a point passed over
Readings(s) ==
  LET value[n \in 0..Len(s)] ==
        IF n = 0 THEN 0
        ELSE IF s[n] = "." THEN value[n - 1]
        ELSE 10 * value[n - 1] + DigitValue(s[n])
  IN value

\* the number strconv.ParseUint reads of digits, before it is compared with MaxUint
Decimal(s) == Readings(s)[Len(s)]

Points(s)    == {i \in DOMAIN s : s[i] = "."}
WholePart(s) == IF Points(s) = {} THEN s ELSE SubSeq(s, 1, Min(Points(s)) - 1)
MinorPart(s) == IF Points(s) = {} THEN <<>> ELSE SubSeq(s, Min(Points(s)) + 1, Len(s))

\* one digit after the point means tenths
Padded(s) == IF Len(s) = 1 THEN Append(s, "0") ELSE s

\* Mutant: only the whole units are compared with the limit.
MutantWholeLimit(whole, minor) == whole > MaxInt \div 100

\* whole * 100 + minor is more than MaxInt
TooLarge(whole, minor) ==
  \/ whole > MaxInt \div 100
  \/ whole = MaxInt \div 100 /\ minor > MaxInt % 100

ParseAmount(s) ==
  LET whole == Decimal(WholePart(s))
      minor == Decimal(Padded(MinorPart(s)))
  IN IF TooLarge(whole, minor)
     THEN Err("ErrOverflow")
     ELSE Ok(Of(Wrap(whole * 100 + minor)))

ParseMoney(s) ==
  IF s = <<>> \/ s[1] = " " \/ Last(s) = " "            THEN Err("ErrInvalidMoney")
  ELSE IF s = <<"NaN">> \/ "E" \in Range(s)             THEN Err("ErrScientificNotation")
  ELSE IF " " \in Range(s)                              THEN Err("ErrInvalidMoney")
  ELSE IF s[1] = "-"                                    THEN Err("ErrNegativeExternal")
  ELSE IF Cardinality(Points(s)) > 1                    THEN Err("ErrInvalidMoney")
  ELSE IF ~isDigits(WholePart(s))                       THEN Err("ErrInvalidMoney")
  ELSE IF Decimal(WholePart(s)) > MaxUint               THEN Err("ErrOverflow")
  ELSE IF Points(s) # {} /\ MinorPart(s) = <<>>         THEN Err("ErrInvalidMoney")
  ELSE IF Len(MinorPart(s)) > 2                         THEN Err("ErrScaleExceeded")
  ELSE IF Points(s) # {} /\ ~isDigits(MinorPart(s))     THEN Err("ErrInvalidMoney")
  ELSE ParseAmount(s)

-----------------------------------------------------------------------------
(***************************************************************************)
(* String, MarshalJSON and UnmarshalJSON.                                  *)
(***************************************************************************)
DigitsOf[n \in 0..MaxUint] ==
  IF n < 10 THEN <<DigitChars[n + 1]>>
  ELSE Append(DigitsOf[n \div 10], DigitChars[(n % 10) + 1])

\* Mutant: "%d.%d".
MutantUnpadded(n) == DigitsOf[n \div 100] \o <<".">> \o DigitsOf[n % 100]

\* "%d.%02d"
Format(n) ==
  LET minor == DigitsOf[n % 100]
  IN DigitsOf[n \div 100] \o <<".">> \o (IF Len(minor) = 1 THEN <<"0">> \o minor ELSE minor)

\* uint64(-(m.amount + 1)) + 1, which no amount overflows
Magnitude(n) == Wrap(-(n + 1)) + 1

String(m) ==
  IF m.amount < 0 THEN <<"-">> \o Format(Magnitude(m.amount)) ELSE Format(m.amount)

MarshalJSON(m) ==
  IF m.currency # BRL      THEN [err |-> "ErrUnsupportedCurrency", amount |-> <<>>]
  ELSE IF m.amount < 0     THEN [err |-> "ErrNegativeExternal", amount |-> <<>>]
  ELSE [err |-> "", amount |-> String(m)]

-----------------------------------------------------------------------------
(***************************************************************************)
(* Arithmetic.                                                             *)
(***************************************************************************)

\* Mutant: the sum is computed first and then compared.
MutantLateCheck(a, b) == b > 0 /\ Wrap(a + b) > MaxInt

Overflows(a, b) ==
  \/ b > 0 /\ a > Wrap(MaxInt - b)
  \/ b < 0 /\ a < Wrap(MinInt - b)

Add(m, n) ==
  IF m.currency # n.currency            THEN Err("ErrCurrencyMismatch")
  ELSE IF Overflows(m.amount, n.amount) THEN Err("ErrOverflow")
  ELSE Ok([m EXCEPT !.amount = Wrap(m.amount + n.amount)])

Negate(m) ==
  IF m.amount = MinInt THEN Err("ErrOverflow") ELSE Ok([m EXCEPT !.amount = Wrap(-m.amount)])

Subtract(m, n) ==
  IF m.currency # n.currency  THEN Err("ErrCurrencyMismatch")
  ELSE IF n.amount = MinInt   THEN Err("ErrOverflow")
  ELSE Add(m, [n EXCEPT !.amount = Wrap(-n.amount)])

Compare(m, n) ==
  IF m.currency # n.currency  THEN [err |-> "ErrCurrencyMismatch", sign |-> 0]
  ELSE IF m.amount < n.amount THEN [err |-> "", sign |-> -1]
  ELSE IF m.amount > n.amount THEN [err |-> "", sign |-> 1]
  ELSE [err |-> "", sign |-> 0]

-----------------------------------------------------------------------------
(***************************************************************************)
(* The inputs: every text, and every pair of amounts.                      *)
(***************************************************************************)
Operands == {Of(n) : n \in MinInt..MaxInt} \cup {NoMoney}

MoneyInit == text = <<>> /\ x \in Operands /\ y \in Operands

\* the empty text goes with every pair, the others with the zero values
Type(c) ==
  /\ x = NoMoney /\ y = NoMoney
  /\ Len(text) < MaxLength
  /\ text' = Append(text, c)
  /\ UNCHANGED <<x, y>>

MoneyNext == \E c \in Alphabet : Type(c)

MoneySpec == MoneyInit /\ [][MoneyNext]_mvars

-----------------------------------------------------------------------------
\* what a text denotes: digits with at most one point that has a digit before
\* it and one or two behind it; the value counts the places behind the point
WellFormed(s) ==
  /\ s # <<>>
  /\ \A i \in DOMAIN s : s[i] \in Digits \/ (s[i] = "." /\ 1 < i /\ Len(s) - i \in {1, 2})
  /\ \A i, j \in DOMAIN s : s[i] = "." /\ s[j] = "." => i = j

Denoted(s) ==
  LET places == IF Points(s) = {} THEN 0 ELSE Len(s) - Max(Points(s))
  IN Decimal(s) * (IF places = 0 THEN 100 ELSE IF places = 1 THEN 10 ELSE 1)

\* ParseMoney accepts a text exactly when it is a decimal number with at most two
\* places that fits in MaxInt minor units, and returns that number to the cent:
\* no text is wrapped around, truncated or rounded.
ParseExact ==
  LET r == ParseMoney(text) IN
  /\ r.err = "" <=> WellFormed(text) /\ Denoted(text) <= MaxInt
  /\ r.err = "" => r.money = Of(Denoted(text))

\* What String writes of an amount is what ParseMoney reads back, so a balance
\* survives MarshalJSON and UnmarshalJSON; a negative amount, MinInt64 too, is
\* written as the minus sign and its magnitude, and never leaves as JSON.
FormatRoundTrip ==
  /\ MarshalJSON(x).err = "" <=> x.currency = BRL /\ x.amount >= 0
  /\ MarshalJSON(x).err = "" => ParseMoney(MarshalJSON(x).amount) = Ok(x)
  /\ x.amount < 0 => /\ Head(String(x)) = "-"
                     /\ WellFormed(Tail(String(x)))
                     /\ Denoted(Tail(String(x))) = -x.amount

InRange(n) == n \in MinInt..MaxInt

\* Add, Subtract and Negate return the exact result or ErrOverflow, and Add fails
\* only when the exact sum does not fit; Subtract gives up for MinInt64 as well;
\* Compare agrees with the sign of the difference.
ArithmeticExact ==
  x.currency = y.currency =>
    /\ Add(x, y) = IF InRange(x.amount + y.amount)
                   THEN Ok([x EXCEPT !.amount = x.amount + y.amount]) ELSE Err("ErrOverflow")
    /\ Subtract(x, y) = IF InRange(x.amount - y.amount) /\ y.amount # MinInt
                        THEN Ok([x EXCEPT !.amount = x.amount - y.amount]) ELSE Err("ErrOverflow")
    /\ Subtract(x, y).err = "" => Compare(x, y) = Compare(Subtract(x, y).money, [x EXCEPT !.amount = 0])
    /\ Negate(x).err = "" => Add(x, Negate(x).money) = Ok([x EXCEPT !.amount = 0])
=============================================================================
