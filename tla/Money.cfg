SPECIFICATION Spec
CONSTANTS
  Half = 128
  Currencies = {"BRL", "USD"}
  Codes = {"BRL", "USD", "none"}
  Texts <- AllTexts
  Operands <- Limits
  NoMoney = NoMoney
\* A value that could not be made is the end.
CHECK_DEADLOCK FALSE
INVARIANTS ArithmeticIsExact OneTextPerAmount
