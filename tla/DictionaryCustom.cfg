SPECIFICATION Spec
CONSTANTS
  k1 = k1
  dotted = dotted
  part = part
  t1 = t1
  t2 = t2
  acc = acc
  six = six
  zero = zero
  sixNumber = sixNumber
  customFilter = customFilter
  Null = Null
  NoScalar = NoScalar
  SyntaxError = SyntaxError
  NoFilter = NoFilter
  NoType = NoType
  NoValues = NoValues
  NoModulo = NoModulo
  Keys <- OneKeyAndAPath
  Path <- ReadAsPath
  Types <- TwoTypes
  Strings <- TwoStrings
  JsNumbers <- OneJsNumber
  Numbers <- TwoNumbers
  BigInt <- ParseBigInt
  Modulos <- SomeModulos
  MaxValues = 2
  MaxHeight = 3
  MaxHandlers = 2
  CustomHandlers <- Custom
  Stored <- AddressesAsObjects
INVARIANTS DictionarySound
CHECK_DEADLOCK FALSE
