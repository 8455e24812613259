CONSTANTS
  Bits = 4
  N = 2
  Radix = 10
  Places = 2
  Mantissa = 3
  LongMantissa = 4
  Exponents = 16
  Operands <- TwoWordOperands
  Ends <- TwoWordEnds
SPECIFICATION Spec
INVARIANTS
  TypeOK
  ArithmeticMatchesIntegers
  OrderAndRounding
  BuildsAgree
