SPECIFICATION MoneySpec
CONSTANTS
  MaxInt = 127
  Alphabet <- SomeCharacters
  MaxLength = 5
INVARIANT
  ParseExact
  FormatRoundTrip
  ArithmeticExact
CHECK_DEADLOCK FALSE
