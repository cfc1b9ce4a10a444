------------------------------- MODULE Filters -------------------------------
(***************************************************************************)
(* The filters of handlers: FilterTypeMap of IndexerManager                *)
(* (packages/node/src/indexer/indexer.manager.ts) and the functions it     *)
(* names (packages/node/src/concordium/block.concordium.ts).               *)
(*                                                                         *)
(* A field of a transaction or event is abstracted to what the comparisons *)
(* tell apart: missing, a string, a JavaScript number, a bigint, an        *)
(* account or contract address in one of the SDK's three shapes, or        *)
(* anything else.  A value of a filter is whatever the manifest gives: it  *)
(* is declared a string, but only "is an object" is validated of           *)
(* filter.values, so it may be a number or null.  A comparison may throw,  *)
(* so its result is "yes", "no" or "throws".                               *)
(***************************************************************************)
EXTENDS Integers, Sequences

CONSTANTS
  Keys,         \* keys of filter.values
  Path,         \* the path lodash reads a key as, a function on Keys
  Types,        \* transaction types and event tags
  Strings,      \* strings that occur in filters and in fields
  JsNumbers,    \* JavaScript numbers that occur in filters and in fields
  Null,         \* null, in filters
  Numbers,      \* bigints that occur in fields
  BigInt,       \* BigInt(v), a function on FilterValues
  SyntaxError,  \* it throws: v is no numeral, a fraction or null
  NoFilter,     \* handler.filter === undefined
  NoType,       \* filter.type === undefined
  NoValues,     \* filter.values === undefined
  NoModulo,     \* filter.modulo === undefined
  Modulos,      \* bound: the modulos of block filters
  MaxHeight,    \* bound: heights of blocks
  MaxValues     \* bound: keys of filter.values

\* The values of filter.values.
FilterValues == Strings \cup JsNumbers \cup {Null}

\* The keys that can be a field's name: the others have dots or brackets.
PlainKeys == {k \in Keys : Path[k] = <<k>>}

ASSUME FilterAssumption ==
  /\ Numbers \subseteq Nat
  /\ BigInt \in [FilterValues -> Nat \cup {SyntaxError}]
  /\ SyntaxError \notin Nat
  /\ NoType \notin Types
  /\ NoModulo \notin Nat
  /\ Modulos \subseteq Nat
  /\ MaxHeight \in Nat
  /\ MaxValues \in Nat

Undefined == [kind |-> "undefined"]
Other == [kind |-> "object"]

Values ==
  {Undefined, Other}
  \cup [kind : {"string", "AddressAccount"}, text : Strings]
  \cup [kind : {"number"}, text : JsNumbers]
  \cup [kind : {"bigint", "AddressContract", "ContractAddress"}, number : Numbers]

ItemKinds == {"Transaction", "TransactionEvent", "SpecialEvent"}

\* Anything a runtime handler can be given.
BlockItems(heights) == [kind : {"Block"}, height : heights, onSchedule : BOOLEAN]
TransactionValues ==
  {v \in Values : v.kind \in {"undefined", "object", "string", "number", "bigint"}}

Items ==
  [kind : {"Transaction"}, type : Types, fields : [PlainKeys -> TransactionValues]]
  \cup [kind : ItemKinds \ {"Transaction"}, type : Types, fields : [PlainKeys -> Values]]

Pairs == [key : Keys, value : FilterValues]

\* The entries of filter.values, in the order of its keys: no key twice.
ValueLists ==
  UNION {{vs \in [1..n -> Pairs] : \A i, k \in 1..n : vs[i].key = vs[k].key => i = k}
           : n \in 0..MaxValues}

BlockFilters == [modulo : Modulos \cup {NoModulo}, timestamp : BOOLEAN]
ItemFilters == [type : Types \cup {NoType}, values : ValueLists \cup {NoValues}]

\* The handlers a runtime data source can have.
Handlers ==
  [kind : {"Block"}, filter : BlockFilters \cup {NoFilter}]
  \cup [kind : ItemKinds, filter : ItemFilters \cup {NoFilter}]

------------------------------------------------------------------------------

\* a && b of the comparisons: b is not evaluated unless a holds.
And(a, b) == IF a = "yes" THEN b ELSE a

\* a || b: b is not evaluated unless a fails.
Or(a, b) == IF a = "no" THEN b ELSE a

Is(p) == IF p THEN "yes" ELSE "no"

\* transaction[key] and txEvent[key]: the key itself, never a path.
Field(item, key) == IF key \in PlainKeys THEN item.fields[key] ELSE Undefined

\* t.type and t.index of a missing field throw.
isAddressAccount(t) == IF t = Undefined THEN "throws" ELSE Is(t.kind = "AddressAccount")

isContractAddress(t) == IF t = Undefined THEN "throws" ELSE Is(t.kind = "ContractAddress")

equalsAddressAccount(t, address) ==
  And(isAddressAccount(t), Is(t.kind = "AddressAccount" /\ t.text = address))

\* t.index === BigInt(index)
EqualsIndex(number, index) ==
  IF BigInt[index] = SyntaxError THEN "throws" ELSE Is(number = BigInt[index])

equalsContractAddress(t, index) ==
  IF isContractAddress(t) = "yes" THEN EqualsIndex(t.number, index) ELSE isContractAddress(t)

\* Mutant, contract addresses are forgotten.
equalsAddressOfAccount(t, addressOrIndex) == equalsAddressAccount(t, addressOrIndex)

\* An Address is an account or wraps a contract address.
equalsAddress(t, addressOrIndex) ==
  IF t.kind = "AddressContract" THEN EqualsIndex(t.number, addressOrIndex)
  ELSE equalsAddressAccount(t, addressOrIndex)

\* Mutant, without the try.
equalsBigIntUncaught(a, b) ==
  IF BigInt[b] = SyntaxError THEN "throws" ELSE Is(a.kind = "bigint" /\ a.number = BigInt[b])

\* The try answers for what BigInt throws on.
equalsBigInt(a, b) ==
  IF BigInt[b] = SyntaxError THEN "no" ELSE Is(a.kind = "bigint" /\ a.number = BigInt[b])

StrictlyEqual(field, value) == Is(field.kind \in {"string", "number"} /\ field.text = value)

\* The condition of filterTxEventProcessor on one key of filter.values.
FieldMatches(field, value) ==
  Or(StrictlyEqual(field, value),
     Or(equalsAddressAccount(field, value),
        Or(equalsContractAddress(field, value),
           Or(equalsAddress(field, value), equalsBigInt(field, value)))))

\* The checks ahead of the loop over filter.values, "values" if it is reached.
BeforeValues(item, filter) ==
  IF filter = NoFilter THEN "yes"
  ELSE IF filter.type # NoType /\ item.type # filter.type THEN "no"
  ELSE IF filter.values = NoValues THEN "yes" ELSE "values"

\* The loop, given the result for each key: it stops at the first that is no match.
AllValues(results) ==
  LET stops == {i \in DOMAIN results : results[i] # "yes"}
  IN IF stops = {} THEN "yes"
     ELSE results[CHOOSE i \in stops : \A k \in stops : i <= k]

filterTxEventProcessor(txEvent, filter) ==
  IF BeforeValues(txEvent, filter) # "values" THEN BeforeValues(txEvent, filter)
  ELSE AllValues([i \in DOMAIN filter.values |->
         FieldMatches(Field(txEvent, filter.values[i].key), filter.values[i].value)])

\* Mutant, with the comparisons of events.
filterTransactionsAsEvents(transaction, filter) ==
  filterTxEventProcessor(transaction, filter)

filterTransactionsProcessor(transaction, filter) ==
  IF BeforeValues(transaction, filter) # "values" THEN BeforeValues(transaction, filter)
  ELSE AllValues([i \in DOMAIN filter.values |->
         StrictlyEqual(Field(transaction, filter.values[i].key), filter.values[i].value)])

\* filter.modulo of 0 is falsy; filterBlockTimestamp of node-core decides on
\* the cron schedule.
filterBlocksProcessor(block, filter) ==
  IF filter = NoFilter THEN "yes"
  ELSE IF filter.modulo \notin {NoModulo, 0} /\ block.height % filter.modulo # 0 THEN "no"
  ELSE Is(filter.timestamp => block.onSchedule)

\* indexData asks only the handlers of the item's kind.
FilterMap(item, handler) ==
  CASE item.kind # handler.kind -> "no"
    [] item.kind = handler.kind /\ item.kind = "Block" ->
         filterBlocksProcessor(item, handler.filter)
    [] item.kind = handler.kind /\ item.kind = "Transaction" ->
         filterTransactionsProcessor(item, handler.filter)
    [] OTHER -> filterTxEventProcessor(item, handler.filter)

------------------------------------------------------------------------------

\* The reference: what a value of the manifest says of a field.
Means(field, value) ==
  \/ field.kind \in {"string", "number", "AddressAccount"} /\ field.text = value
  \/ /\ field.kind \in {"bigint", "AddressContract", "ContractAddress"}
     /\ field.number = BigInt[value]

\* There is nothing to compare: the field is missing, or it is the address of a
\* contract and the value is no index.
Incomparable(field, value) ==
  \/ field = Undefined
  \/ field.kind \in {"AddressContract", "ContractAddress"} /\ BigInt[value] = SyntaxError

\* An item is what a filter with a type or with values describes.
Describes(filter, item) ==
  /\ filter.type \in {NoType, item.type}
  /\ filter.values # NoValues =>
       \A i \in DOMAIN filter.values :
         Means(Field(item, filter.values[i].key), filter.values[i].value)

==============================================================================
