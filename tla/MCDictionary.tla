---------------------------- MODULE MCDictionary -----------------------------
(***************************************************************************)
(* Dictionary for TLC: a field and a key that is a path into it, two       *)
(* types, an account address and a numeral, and up to two handlers.  The   *)
(* dictionary stores addresses as objects and amounts as text.             *)
(***************************************************************************)
EXTENDS Dictionary

CONSTANTS k1, dotted, part, t1, t2, acc, six, zero, sixNumber, customFilter, NoScalar

OneKeyAndAPath == {k1, dotted}
ReadAsPath == [k \in OneKeyAndAPath |-> IF k = dotted THEN <<k1, part>> ELSE <<k>>]
TwoTypes == {t1, t2}
TwoStrings == {acc, six}
OneJsNumber == {sixNumber}
TwoNumbers == {0, 6}
ParseBigInt ==
  [v \in TwoStrings \cup OneJsNumber \cup {Null} |->
     IF v \in {six, sixNumber} THEN 6 ELSE SyntaxError]
SomeModulos == {0, 2, 3}
NoCustom == {}
Custom == {[kind |-> "Custom", filter |-> customFilter]}
AddressesAsObjects ==
  [v \in Values |->
     CASE v.kind \in {"string", "number"} -> v.text
       [] v.kind = "bigint" -> IF v.number = 6 THEN six ELSE zero
       [] OTHER -> NoScalar]

==============================================================================
