---------------------------- MODULE FilterProofs -----------------------------
(***************************************************************************)
(* Filters decide what they say, and the dictionary skips nothing that     *)
(* they let pass, for any fields, types, strings, numbers, modulos,        *)
(* contents and lengths of filter.values, and for any form in which the    *)
(* dictionary stores addresses and amounts.                                *)
(*                                                                         *)
(* The lemmas about the comparisons of Filters serve both FilterCheck,     *)
(* where a handler's filter is evaluated, and Dictionary, where a query    *)
(* entry has to match whatever a filter lets pass.                         *)
(***************************************************************************)
EXTENDS FilterCheck, Dictionary, WellFoundedInduction, TLAPS

------------------------------------------------------------------------------
(* The comparisons.                                                        *)

\* The natural numbers are well ordered, for sets.
LEMMA LeastNatural ==
  ASSUME NEW S \in SUBSET Nat, S # {}
  PROVE  \E i \in S : \A k \in S : i <= k
<1>. DEFINE R == OpToRel(<, Nat)
<1>1. IsWellFoundedOn(R, Nat)
  BY NatLessThanWellFounded
<1>2. \E i \in S : \A k \in S : ~ (<<k, i>> \in R)
  <2>. HIDE DEF R
  <2>. QED
    BY <1>1, WFMin
<1>3. \A i, k \in Nat : <<k, i>> \in R <=> k < i
  BY DEF OpToRel
<1>4. PICK i \in S : \A k \in S : ~ (<<k, i>> \in R)
  BY <1>2
<1>5. \A k \in S : i <= k
  <2>. HIDE DEF R
  <2>. SUFFICES ASSUME NEW k \in S PROVE i <= k
    OBVIOUS
  <2>1. i \in Nat /\ k \in Nat /\ ~ (<<k, i>> \in R)
    BY <1>4
  <2>2. ~ (k < i)
    BY <1>3, <2>1
  <2>. QED
    BY <2>1, <2>2
<1>. QED
  BY <1>5

\* FieldMatches throws exactly if there is nothing to compare, and otherwise says
\* what the filter means.
LEMMA FieldMatchesMeans ==
  ASSUME NEW field \in Values, NEW value \in FilterValues
  PROVE  /\ FieldMatches(field, value) \in {"yes", "no", "throws"}
         /\ FieldMatches(field, value) = "throws" <=> Incomparable(field, value)
         /\ FieldMatches(field, value) = "yes" <=> Means(field, value)
<1>. USE DEF Or, And, Is, FieldMatches, StrictlyEqual, equalsAddressAccount,
     equalsContractAddress, equalsAddress, equalsBigInt, EqualsIndex, isAddressAccount,
     isContractAddress, Means, Incomparable
<1>1. CASE field = Undefined
  BY <1>1 DEF Undefined
<1>2. CASE field.kind \in {"object", "string", "number", "AddressAccount"}
  <2>1. field # Undefined
    BY <1>2 DEF Undefined
  <2>. QED
    BY <1>2, <2>1
<1>3. CASE field.kind \in {"bigint", "AddressContract", "ContractAddress"} /\ field.number \in Nat
  <2>1. field # Undefined
    BY <1>3 DEF Undefined
  <2>2. CASE BigInt[value] = SyntaxError
    <3>1. field.number # SyntaxError
      BY <1>3, FilterAssumption
    <3>. QED
      BY <1>3, <2>1, <2>2, <3>1
  <2>3. CASE BigInt[value] # SyntaxError
    BY <1>3, <2>1, <2>3
  <2>. QED
    BY <2>2, <2>3
<1>4. \/ field = Undefined
      \/ field.kind \in {"object", "string", "number", "AddressAccount"}
      \/ field.kind \in {"bigint", "AddressContract", "ContractAddress"} /\ field.number \in Nat
  <2>1. CASE field \in [kind : {"string", "AddressAccount"}, text : Strings]
    BY <2>1
  <2>4. CASE field \in [kind : {"number"}, text : JsNumbers]
    BY <2>4
  <2>2. CASE field \in [kind : {"bigint", "AddressContract", "ContractAddress"}, number : Numbers]
    BY <2>2, FilterAssumption
  <2>3. CASE field \in {Undefined, Other}
    BY <2>3 DEF Other
  <2>. QED
    BY <2>1, <2>2, <2>3, <2>4 DEF Values
<1>. QED
  BY <1>1, <1>2, <1>3, <1>4

\* The loop over filter.values stops at the first value that is no match.
LEMMA AllValuesStops ==
  ASSUME NEW n \in Nat, NEW results, DOMAIN results = 1..n
  PROVE  \/ /\ \A i \in 1..n : results[i] = "yes"
            /\ AllValues(results) = "yes"
         \/ \E i \in 1..n :
              /\ results[i] # "yes"
              /\ \A k \in 1..(i - 1) : results[k] = "yes"
              /\ AllValues(results) = results[i]
<1>. DEFINE stops == {i \in DOMAIN results : results[i] # "yes"}
<1>1. CASE stops = {}
  BY <1>1 DEF AllValues
<1>2. CASE stops # {}
  <2>. DEFINE first == CHOOSE i \in stops : \A k \in stops : i <= k
  <2>1. first \in stops /\ \A k \in stops : first <= k
    <3>1. stops \in SUBSET Nat
      OBVIOUS
    <3>2. \E i \in stops : \A k \in stops : i <= k
      <4>. HIDE DEF stops
      <4>. QED
        BY <1>2, <3>1, LeastNatural
    <3>. HIDE DEF stops
    <3>. QED
      BY <3>2
  <2>2. AllValues(results) = results[first]
    BY <1>2 DEF AllValues
  <2>3. \A k \in 1..(first - 1) : results[k] = "yes"
    BY <2>1
  <2>. QED
    BY <2>1, <2>2, <2>3
<1>. QED
  BY <1>1, <1>2

------------------------------------------------------------------------------
(* The filters.                                                            *)

\* filter.values is a list of pairs.
LEMMA ValueListPairs ==
  ASSUME NEW vs \in ValueLists
  PROVE  \E n \in Nat : /\ DOMAIN vs = 1..n
                        /\ \A i \in 1..n : vs[i].key \in Keys /\ vs[i].value \in FilterValues
<1>1. PICK n \in 0..MaxValues : vs \in [1..n -> Pairs]
  BY DEF ValueLists
<1>2. n \in Nat
  BY FilterAssumption
<1>. QED
  BY <1>1, <1>2 DEF Pairs

\* Every item below the block has a kind of its own, a type and fields.
LEMMA ItemTyped ==
  ASSUME NEW it \in Items
  PROVE  /\ it.kind \in ItemKinds
         /\ it.type \in Types
         /\ it.type # NoType
         /\ it.fields \in [PlainKeys -> Values]
<1>1. CASE it \in [kind : {"Transaction"}, type : Types, fields : [PlainKeys -> TransactionValues]]
  BY <1>1, FilterAssumption DEF ItemKinds, TransactionValues
<1>2. CASE it \in [kind : ItemKinds \ {"Transaction"}, type : Types, fields : [PlainKeys -> Values]]
  BY <1>2, FilterAssumption
<1>. QED
  BY <1>1, <1>2 DEF Items

\* Whatever the key, there is a value or none.
LEMMA FieldValue ==
  ASSUME NEW it \in Items, NEW key
  PROVE  Field(it, key) \in Values
  BY ItemTyped DEF Field, Values

\* What the checks ahead of the loop leave to it.
LEMMA BeforeValuesMeans ==
  ASSUME NEW it \in Items, NEW f \in ItemFilters, f # NoFilter
  PROVE  /\ BeforeValues(it, f) \in {"yes", "no", "values"}
         /\ BeforeValues(it, f) = "no" <=> f.type \notin {NoType, it.type}
         /\ BeforeValues(it, f) = "values" <=>
              f.type \in {NoType, it.type} /\ f.values # NoValues
  BY DEF BeforeValues

\* An event filter lets exactly those events pass that it describes, and throws
\* exactly if a value that is no match is met first where there is nothing to
\* compare.
LEMMA EventFilterMeans ==
  ASSUME NEW it \in Items, NEW f \in ItemFilters, f # NoFilter
  PROVE  /\ filterTxEventProcessor(it, f) \in {"yes", "no", "throws"}
         /\ filterTxEventProcessor(it, f) = "yes" <=> Describes(f, it)
         /\ filterTxEventProcessor(it, f) = "throws" <=>
              /\ BeforeValues(it, f) = "values"
              /\ \E i \in DOMAIN f.values :
                   /\ Incomparable(Field(it, f.values[i].key), f.values[i].value)
                   /\ \A k \in 1..(i - 1) : Means(Field(it, f.values[k].key), f.values[k].value)
<1>. DEFINE field(i) == Field(it, f.values[i].key)
            value(i) == f.values[i].value
            results == [i \in DOMAIN f.values |-> FieldMatches(field(i), value(i))]
<1>1. CASE BeforeValues(it, f) # "values"
  <2>1. filterTxEventProcessor(it, f) = BeforeValues(it, f)
    BY <1>1 DEF filterTxEventProcessor
  <2>2. f.type \in {NoType, it.type} => f.values = NoValues
    BY <1>1, BeforeValuesMeans
  <2>. QED
    BY <1>1, <2>1, <2>2, BeforeValuesMeans DEF Describes
<1>2. CASE BeforeValues(it, f) = "values"
  <2>1. f.type \in {NoType, it.type} /\ f.values # NoValues
    BY <1>2, BeforeValuesMeans
  <2>2. f.values \in ValueLists
    BY <2>1 DEF ItemFilters
  <2>3. PICK n \in Nat : /\ DOMAIN f.values = 1..n
                         /\ \A i \in 1..n : f.values[i].key \in Keys /\ f.values[i].value \in FilterValues
    BY <2>2, ValueListPairs
  <2>4. \A i \in 1..n : field(i) \in Values /\ value(i) \in FilterValues
    BY <2>3, FieldValue
  <2>5. \A i \in 1..n :
          /\ results[i] \in {"yes", "no", "throws"}
          /\ results[i] = "throws" <=> Incomparable(field(i), value(i))
          /\ results[i] = "yes" <=> Means(field(i), value(i))
    BY <2>3, <2>4, FieldMatchesMeans
  <2>6. filterTxEventProcessor(it, f) = AllValues(results)
    BY <1>2 DEF filterTxEventProcessor
  <2>7. Describes(f, it) <=> \A i \in 1..n : Means(field(i), value(i))
    BY <2>1, <2>3 DEF Describes
  <2>8. DOMAIN results = 1..n
    BY <2>3
  <2>. HIDE DEF field, value, results
  <2>9. CASE (\A i \in 1..n : results[i] = "yes") /\ AllValues(results) = "yes"
    <3>1. \A i \in 1..n : Means(field(i), value(i)) /\ ~ Incomparable(field(i), value(i))
      BY <2>5, <2>9
    <3>. QED
      BY <1>2, <2>3, <2>6, <2>7, <2>9, <3>1 DEF field, value
  <2>10. CASE \E i \in 1..n : /\ results[i] # "yes"
                              /\ \A k \in 1..(i - 1) : results[k] = "yes"
                              /\ AllValues(results) = results[i]
    <3>1. PICK i \in 1..n : /\ results[i] # "yes"
                            /\ \A k \in 1..(i - 1) : results[k] = "yes"
                            /\ AllValues(results) = results[i]
      BY <2>10
    <3>2. ~ Means(field(i), value(i)) /\ \A k \in 1..(i - 1) : Means(field(k), value(k))
      BY <2>5, <3>1
    <3>3. ASSUME NEW k \in 1..n, Incomparable(field(k), value(k)),
                 \A l \in 1..(k - 1) : Means(field(l), value(l))
          PROVE  k = i
      <4>1. ~ Means(field(k), value(k))
        BY <2>5, <3>3
      <4>2. ~ (k < i)
        BY <3>2, <4>1
      <4>3. ~ (i < k)
        BY <3>2, <3>3
      <4>. QED
        BY <4>2, <4>3
    <3>. QED
      BY <1>2, <2>3, <2>5, <2>6, <2>7, <3>1, <3>2, <3>3 DEF field, value
  <2>. QED
    BY <2>8, <2>9, <2>10, AllValuesStops
<1>. QED
  BY <1>1, <1>2

\* A transaction filter compares with ===: what it lets pass it describes, and
\* it never throws.
LEMMA TransactionFilterMeans ==
  ASSUME NEW it \in Items, NEW f \in ItemFilters, f # NoFilter
  PROVE  /\ filterTransactionsProcessor(it, f) \in {"yes", "no"}
         /\ filterTransactionsProcessor(it, f) = "yes" => Describes(f, it)
<1>. DEFINE field(i) == Field(it, f.values[i].key)
            value(i) == f.values[i].value
            results == [i \in DOMAIN f.values |-> StrictlyEqual(field(i), value(i))]
<1>1. CASE BeforeValues(it, f) # "values"
  <2>1. filterTransactionsProcessor(it, f) = BeforeValues(it, f)
    BY <1>1 DEF filterTransactionsProcessor
  <2>2. f.type \in {NoType, it.type} => f.values = NoValues
    BY <1>1, BeforeValuesMeans
  <2>. QED
    BY <1>1, <2>1, <2>2, BeforeValuesMeans DEF Describes
<1>2. CASE BeforeValues(it, f) = "values"
  <2>1. f.type \in {NoType, it.type} /\ f.values \in ValueLists
    BY <1>2, BeforeValuesMeans DEF ItemFilters
  <2>2. PICK n \in Nat : DOMAIN f.values = 1..n
    BY <2>1, ValueListPairs
  <2>3. \A i \in 1..n : /\ results[i] \in {"yes", "no"}
                        /\ results[i] = "yes" => Means(field(i), value(i))
    BY <2>2 DEF StrictlyEqual, Is, Means
  <2>4. DOMAIN results = 1..n
    BY <2>2
  <2>5. filterTransactionsProcessor(it, f) = AllValues(results)
    BY <1>2 DEF filterTransactionsProcessor
  <2>6. (\A i \in 1..n : Means(field(i), value(i))) => Describes(f, it)
    BY <2>1, <2>2 DEF Describes
  <2>. HIDE DEF field, value, results
  <2>7. CASE (\A i \in 1..n : results[i] = "yes") /\ AllValues(results) = "yes"
    BY <2>3, <2>5, <2>6, <2>7
  <2>8. CASE \E i \in 1..n : results[i] # "yes" /\ AllValues(results) = results[i]
    BY <2>3, <2>5, <2>8
  <2>. QED
    BY <2>4, <2>7, <2>8, AllValuesStops
<1>. QED
  BY <1>1, <1>2

------------------------------------------------------------------------------
(* FilterCheck: one evaluation of one filter.                              *)

\* The handler asked is one of the item's kind, and a verdict is what its filter
\* answers for that item.
FilterInv ==
  /\ item \in Items
  /\ handler \in Handlers /\ handler.kind = item.kind
  /\ verdict \in {"none", FilterMap(item, handler)}

\* FilterInv is inductive.
LEMMA FilterInvariant == FilterSpec => []FilterInv
<1>1. FilterInit => FilterInv
  BY DEF FilterInit, FilterInv
<1>2. FilterInv /\ [Filter]_filterVars => FilterInv'
  BY DEF FilterInv, Filter, filterVars
<1>. QED
  BY <1>1, <1>2, PTL DEF FilterSpec

\* Handlers of the kinds of things in a block have item filters.
LEMMA ItemHandler ==
  ASSUME NEW it \in Items, NEW h \in Handlers, h.kind = it.kind, h.filter # NoFilter
  PROVE  /\ h.filter \in ItemFilters
         /\ it.kind = "Transaction" => FilterMap(it, h) = filterTransactionsProcessor(it, h.filter)
         /\ it.kind # "Transaction" => FilterMap(it, h) = filterTxEventProcessor(it, h.filter)
<1>1. it.kind \in ItemKinds /\ it.kind # "Block"
  BY ItemTyped DEF ItemKinds
<1>. QED
  BY <1>1 DEF Handlers, FilterMap

\* filterTxEventProcessor answers what the filter says, for any filter and event.
THEOREM EventFilterCorrect == FilterSpec => []EventFilterAgrees
<1>1. ASSUME FilterInv PROVE EventFilterAgrees
  <2>. SUFFICES ASSUME item.kind \in {"TransactionEvent", "SpecialEvent"},
                       handler.filter # NoFilter
                PROVE  /\ verdict = "yes" => Describes(handler.filter, item)
                       /\ verdict = "no" => ~ Describes(handler.filter, item)
    BY DEF EventFilterAgrees
  <2>1. item \in Items
    BY <1>1 DEF FilterInv
  <2>2. /\ handler.filter \in ItemFilters
        /\ FilterMap(item, handler) = filterTxEventProcessor(item, handler.filter)
    BY <1>1, <2>1, ItemHandler DEF FilterInv
  <2>. QED
    BY <1>1, <2>1, <2>2, EventFilterMeans DEF FilterInv
<1>. QED
  BY <1>1, FilterInvariant, PTL

\* It throws exactly if it comes to something it cannot compare before it comes to
\* a value that does not match.
THEOREM EventFilterThrows == FilterSpec => []EventFilterThrowsOnlyOnIncomparable
<1>1. ASSUME FilterInv PROVE EventFilterThrowsOnlyOnIncomparable
  <2>. SUFFICES ASSUME verdict # "none", item.kind \in {"TransactionEvent", "SpecialEvent"},
                       handler.filter # NoFilter
                PROVE  EventFilterThrowsOnlyOnIncomparable
    BY DEF EventFilterThrowsOnlyOnIncomparable
  <2>. DEFINE loop == handler.filter.type \in {NoType, item.type} /\ handler.filter.values # NoValues
              values == IF loop THEN handler.filter.values ELSE <<>>
              field(i) == Field(item, values[i].key)
  <2>1. item \in Items
    BY <1>1 DEF FilterInv
  <2>2. handler.filter \in ItemFilters /\ verdict = filterTxEventProcessor(item, handler.filter)
    BY <1>1, <2>1, ItemHandler DEF FilterInv
  <2>3. BeforeValues(item, handler.filter) = "values" <=> loop
    BY <2>1, <2>2, BeforeValuesMeans
  <2>4. verdict = "throws" <=>
          \E i \in DOMAIN values :
            /\ Incomparable(field(i), values[i].value)
            /\ \A k \in 1..(i - 1) : Means(field(k), values[k].value)
    <3>1. CASE loop
      <4>1. values = handler.filter.values
        BY <3>1
      <4>. HIDE DEF values, loop
      <4>. QED
        BY <2>1, <2>2, <2>3, <3>1, <4>1, EventFilterMeans
    <3>2. CASE ~ loop
      <4>1. DOMAIN values = {}
        BY <3>2
      <4>. HIDE DEF values, loop
      <4>. QED
        BY <2>1, <2>2, <2>3, <3>2, <4>1, EventFilterMeans
    <3>. QED
      BY <3>1, <3>2
  <2>5. values = IF \/ handler.filter.type \notin {NoType, item.type}
                    \/ handler.filter.values = NoValues
                 THEN <<>> ELSE handler.filter.values
    OBVIOUS
  <2>. HIDE DEF values, loop
  <2>. QED
    BY <2>4, <2>5 DEF EventFilterThrowsOnlyOnIncomparable
<1>. QED
  BY <1>1, FilterInvariant, PTL

\* filterTransactionsProcessor lets nothing else pass and never fails a block.
THEOREM TransactionFilterCorrect == FilterSpec => []TransactionFilterSafe
<1>1. ASSUME FilterInv PROVE TransactionFilterSafe
  <2>. SUFFICES ASSUME item.kind = "Transaction", handler.filter # NoFilter
                PROVE  /\ verdict = "yes" => Describes(handler.filter, item)
                       /\ verdict # "throws"
    BY DEF TransactionFilterSafe
  <2>1. item \in Items
    BY <1>1 DEF FilterInv
  <2>2. /\ handler.filter \in ItemFilters
        /\ FilterMap(item, handler) = filterTransactionsProcessor(item, handler.filter)
    BY <1>1, <2>1, ItemHandler DEF FilterInv
  <2>. QED
    BY <1>1, <2>1, <2>2, TransactionFilterMeans DEF FilterInv
<1>. QED
  BY <1>1, FilterInvariant, PTL

------------------------------------------------------------------------------
(* Dictionary: what the entries make node-core fetch.                      *)

\* The query entries are always those of the present handlers.
DictionaryInv ==
  /\ handlers \subseteq Handlers \cup CustomHandlers
  /\ queryEntries = buildDictionaryQueryEntries(handlers)

\* The entries are rebuilt with every change of the data sources.
LEMMA DictionaryInvariant == Spec => []DictionaryInv
<1>1. Init => DictionaryInv
  BY DEF Init, DictionaryInv
<1>2. DictionaryInv /\ [Next]_vars => DictionaryInv'
  <2>1. ASSUME DictionaryInv, NEW h \in Handlers \cup CustomHandlers, AddHandler(h)
        PROVE  DictionaryInv'
    BY <2>1 DEF DictionaryInv, AddHandler
  <2>2. ASSUME DictionaryInv, UNCHANGED vars
        PROVE  DictionaryInv'
    BY <2>2 DEF DictionaryInv, vars
  <2>. QED
    BY <2>1, <2>2 DEF Next
<1>. QED
  BY <1>1, <1>2, PTL DEF Spec

\* A handler of a kind of things in a block that does not rule out the dictionary
\* has a filter, and adds its entry.
LEMMA ItemHandlerEntry ==
  ASSUME DictionaryInv, NEW h \in handlers, h.kind \in ItemKinds, ~ CannotUseDictionary(h)
  PROVE  /\ h \in Handlers
         /\ h.filter # NoFilter
         /\ h.filter \in ItemFilters
<1>1. h \in Handlers
  BY DictionaryAssumption DEF DictionaryInv
<1>2. h.filter # NoFilter
  BY DEF CannotUseDictionary
<1>. QED
  BY <1>1, <1>2 DEF Handlers, ItemKinds

\* What is left of filter.values in an entry is one of its pairs, the key as a path.
LEMMA NestedPairs ==
  ASSUME NEW vs, NEW v \in Nested(vs)
  PROVE  \E i \in DOMAIN vs : v = [path |-> Path[vs[i].key], value |-> vs[i].value]
  BY DEF Nested

\* The entries have the shape of dictionary queries.
THEOREM DictionaryTypeCorrect == Spec => []TypeOK
<1>1. ASSUME DictionaryInv PROVE TypeOK
  <2>1. ASSUME NEW entry \in queryEntries
        PROVE  /\ entry.entity \in ItemKinds
               /\ entry.type \in Types \cup {NoType}
               /\ entry.values # NoValues =>
                    entry.values \subseteq [path : {Path[k] : k \in Keys}, value : FilterValues]
    <3>1. ~ \E h \in handlers : CannotUseDictionary(h)
      BY <1>1, <2>1 DEF DictionaryInv, buildDictionaryQueryEntries
    <3>2. PICK h \in handlers : h.kind \in ItemKinds /\ entry = QueryEntry(h)
      BY <1>1, <2>1, <3>1 DEF DictionaryInv, buildDictionaryQueryEntries
    <3>3. h.filter \in ItemFilters
      BY <1>1, <3>1, <3>2, ItemHandlerEntry
    <3>4. ASSUME entry.values # NoValues, NEW v \in entry.values
          PROVE  v \in [path : {Path[k] : k \in Keys}, value : FilterValues]
      <4>1. h.filter.values # NoValues /\ v \in Nested(h.filter.values)
        BY <3>2, <3>4 DEF QueryEntry
      <4>2. h.filter.values \in ValueLists
        BY <3>3, <4>1 DEF ItemFilters
      <4>3. PICK i \in DOMAIN h.filter.values :
              v = [path |-> Path[h.filter.values[i].key], value |-> h.filter.values[i].value]
        BY <4>1, NestedPairs
      <4>4. h.filter.values[i].key \in Keys /\ h.filter.values[i].value \in FilterValues
        BY <4>2, <4>3, ValueListPairs
      <4>. QED
        BY <4>3, <4>4
    <3>. QED
      BY <3>2, <3>3, <3>4 DEF QueryEntry, ItemFilters
  <2>. QED
    BY <1>1, <2>1 DEF TypeOK, DictionaryInv
<1>. QED
  BY <1>1, DictionaryInvariant, PTL

\* An entry has the item stored under it that its filter describes, if no address
\* and no amount is compared: the keys are then fields, and what is strictly equal
\* is stored as it is.
LEMMA EntryMatchesDescribed ==
  ASSUME NEW it \in Items, NEW h, h.kind = it.kind, h.filter # NoFilter,
         Describes(h.filter, it), ComparesScalars(h, it)
  PROVE  EntryMatches(QueryEntry(h), it)
<1>. DEFINE values == h.filter.values
            entry == QueryEntry(h)
<1>1. entry.entity = it.kind /\ entry.type \in {NoType, it.type}
  BY DEF QueryEntry, Describes
<1>2. ASSUME entry.values # NoValues, NEW v \in entry.values
      PROVE  /\ Len(v.path) = 1 /\ v.path[1] \in PlainKeys
             /\ Stored[it.fields[v.path[1]]] = v.value
  <2>1. values # NoValues /\ v \in Nested(values)
    BY <1>2 DEF QueryEntry
  <2>2. PICK i \in DOMAIN values : v = [path |-> Path[values[i].key], value |-> values[i].value]
    BY <2>1, NestedPairs
  <2>. DEFINE key == values[i].key
  <2>3. Field(it, key).kind \in {"string", "number"}
    BY <2>1 DEF ComparesScalars
  <2>4. key \in PlainKeys
    BY <2>3 DEF Field, Undefined
  <2>5. v.path = <<key>> /\ v.value = values[i].value
    BY <2>2, <2>4 DEF PlainKeys
  <2>6. Means(Field(it, key), values[i].value)
    BY <2>1 DEF Describes
  <2>7. it.fields[key].text = values[i].value
    BY <2>3, <2>4, <2>6 DEF Means, Field
  <2>8. it.fields[key] \in Values
    BY <2>4, ItemTyped
  <2>9. Stored[it.fields[key]] = it.fields[key].text
    BY <2>3, <2>4, <2>8, DictionaryAssumption DEF Field
  <2>10. Len(v.path) = 1 /\ v.path[1] = key
    BY <2>5
  <2>. HIDE DEF key, values
  <2>. QED
    BY <2>4, <2>5, <2>7, <2>9, <2>10
<1>. HIDE DEF entry
<1>3. EntryMatches(entry, it)
  BY <1>1, <1>2 DEF EntryMatches
<1>. QED
  BY <1>3 DEF entry

\* Whatever the filter of a runtime handler lets pass by its strings and numbers is
\* fetched.
LEMMA ItemFetched ==
  ASSUME DictionaryInv, NEW h \in handlers, h \in Handlers,
         NEW it \in Items, FilterMap(it, h) = "yes", ComparesScalars(h, it), NEW height
  PROVE  Fetched(height, it)
<1>1. h.kind = it.kind /\ it.kind \in ItemKinds /\ h.kind # "Block"
  BY ItemTyped DEF FilterMap, ItemKinds
<1>2. CASE queryEntries = {}
  BY <1>1, <1>2 DEF Fetched
<1>3. CASE queryEntries # {}
  <2>1. ~ CannotUseDictionary(h)
    BY <1>3 DEF DictionaryInv, buildDictionaryQueryEntries
  <2>2. h.filter # NoFilter /\ h.filter \in ItemFilters
    BY <1>1, <2>1, ItemHandlerEntry
  <2>3. Describes(h.filter, it)
    BY <1>1, <2>2, ItemHandler, EventFilterMeans, TransactionFilterMeans
  <2>4. QueryEntry(h) \in queryEntries
    BY <1>1, <1>3 DEF DictionaryInv, buildDictionaryQueryEntries
  <2>5. EntryMatches(QueryEntry(h), it)
    BY <1>1, <2>2, <2>3, EntryMatchesDescribed
  <2>. QED
    BY <1>3, <2>4, <2>5 DEF Fetched
<1>. QED
  BY <1>2, <1>3

\* A block that the filter of a block handler lets pass is fetched, unless the
\* modulo is 0: that one filters nothing, and asks for no height.
LEMMA BlockFetched ==
  ASSUME DictionaryInv, NEW h \in handlers, h \in Handlers,
         h.filter # NoFilter => h.filter.modulo # 0,
         NEW b \in BlockItems(0..MaxHeight), FilterMap(b, h) = "yes", NEW it
  PROVE  Fetched(b.height, it)
<1>1. h.kind = "Block" /\ b.kind = "Block"
  BY DEF BlockItems, FilterMap
<1>2. CASE h.filter = NoFilter \/ h.filter.modulo = NoModulo
  <2>1. CannotUseDictionary(h)
    BY <1>1, <1>2 DEF CannotUseDictionary
  <2>2. queryEntries = {}
    BY <2>1 DEF DictionaryInv, buildDictionaryQueryEntries
  <2>. QED
    BY <1>2, <2>2 DEF Fetched
<1>3. CASE h.filter # NoFilter /\ h.filter.modulo # NoModulo
  <2>1. h.filter.modulo \in Modulo(handlers)
    BY <1>1, <1>3 DEF Modulo
  <2>2. filterBlocksProcessor(b, h.filter) = "yes"
    BY <1>1 DEF FilterMap
  <2>3. b.height % h.filter.modulo = 0
    BY <1>3, <2>2 DEF filterBlocksProcessor
  <2>4. ModuloHeight(handlers, b.height)
    BY <2>1, <2>3 DEF ModuloHeight
  <2>. QED
    BY <2>4 DEF Fetched
<1>. QED
  BY <1>2, <1>3

\* What DictionarySound says, of the handlers of runtime data sources.
RuntimeHandlersServed ==
  \A h \in handlers \ CustomHandlers :
    /\ \A it \in Items, height \in 0..MaxHeight :
         FilterMap(it, h) = "yes" /\ ComparesScalars(h, it) => Fetched(height, it)
    /\ \A b \in BlockItems(0..MaxHeight), it \in Items :
         FilterMap(b, h) = "yes" /\ (h.filter # NoFilter => h.filter.modulo # 0)
         => Fetched(b.height, it)

\* buildDictionaryQueryEntries misses nothing that a runtime handler would run on,
\* whichever other handlers, custom ones included, the project has.
THEOREM RuntimeHandlersAreServed == Spec => []RuntimeHandlersServed
<1>1. ASSUME DictionaryInv PROVE RuntimeHandlersServed
  <2>. SUFFICES ASSUME NEW h \in handlers, h \in Handlers
                PROVE  /\ \A it \in Items, height \in 0..MaxHeight :
                            FilterMap(it, h) = "yes" /\ ComparesScalars(h, it)
                            => Fetched(height, it)
                       /\ \A b \in BlockItems(0..MaxHeight), it \in Items :
                            /\ FilterMap(b, h) = "yes"
                            /\ h.filter # NoFilter => h.filter.modulo # 0
                            => Fetched(b.height, it)
    BY <1>1 DEF RuntimeHandlersServed, DictionaryInv
  <2>1. ASSUME NEW it \in Items, NEW height \in 0..MaxHeight,
               FilterMap(it, h) = "yes", ComparesScalars(h, it)
        PROVE  Fetched(height, it)
    BY <1>1, <2>1, ItemFetched
  <2>2. ASSUME NEW b \in BlockItems(0..MaxHeight), NEW it \in Items, FilterMap(b, h) = "yes",
               h.filter # NoFilter => h.filter.modulo # 0
        PROVE  Fetched(b.height, it)
    BY <1>1, <2>2, BlockFetched
  <2>. QED
    BY <2>1, <2>2
<1>. QED
  BY <1>1, DictionaryInvariant, PTL

\* So the dictionary is sound for a project without a custom data source, for which
\* the run dictionary_custom refutes it.
THEOREM DictionaryIsSound ==
  ASSUME CustomHandlers = {}
  PROVE  Spec => []DictionarySound
<1>1. ASSUME RuntimeHandlersServed PROVE DictionarySound
  BY <1>1 DEF RuntimeHandlersServed, DictionarySound
<1>. QED
  BY <1>1, RuntimeHandlersAreServed, PTL

==============================================================================
