SPECIFICATION FilterSpec
CONSTANTS
  k1 = k1
  k2 = k2
  dotted = dotted
  t1 = t1
  t2 = t2
  acc = acc
  six = six
  sixNumber = sixNumber
  Null = Null
  SyntaxError = SyntaxError
  NoFilter = NoFilter
  NoType = NoType
  NoValues = NoValues
  NoModulo = NoModulo
  Keys <- TwoKeysAndAPath
  Path <- ReadAsPath
  Types <- TwoTypes
  Strings <- TwoStrings
  JsNumbers <- OneJsNumber
  Numbers <- TwoNumbers
  BigInt <- ParseBigInt
  Modulos <- SomeModulos
  MaxHeight = 6
  MaxValues = 2
INVARIANTS EventFilterAgrees TransactionFilterSafe EventFilterThrowsOnlyOnIncomparable
CHECK_DEADLOCK FALSE
