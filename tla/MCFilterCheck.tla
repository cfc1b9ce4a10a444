--------------------------- MODULE MCFilterCheck -----------------------------
(***************************************************************************)
(* FilterCheck for TLC: two fields and a key that is a path, two types, an *)
(* account address that is no numeral, the numeral "6", the number 6 and   *)
(* null.                                                                   *)
(***************************************************************************)
EXTENDS FilterCheck

CONSTANTS k1, k2, dotted, t1, t2, acc, six, sixNumber

TwoKeysAndAPath == {k1, k2, dotted}
ReadAsPath == [k \in TwoKeysAndAPath |-> IF k = dotted THEN <<k1, k2>> ELSE <<k>>]
TwoTypes == {t1, t2}
TwoStrings == {acc, six}
OneJsNumber == {sixNumber}
TwoNumbers == {0, 6}
ParseBigInt ==
  [v \in TwoStrings \cup OneJsNumber \cup {Null} |->
     IF v \in {six, sixNumber} THEN 6 ELSE SyntaxError]
SomeModulos == {2}

==============================================================================
