----------------------------- MODULE Dictionary ------------------------------
(***************************************************************************)
(* Which heights are fetched when a dictionary is in use: DictionaryV1     *)
(* turns the filters of all handlers into query entries                    *)
(* (packages/node/src/indexer/dictionary/v1/dictionaryV1.ts); node-core    *)
(* then skips every height that no entry matches and that is no multiple   *)
(* of a modulo.  A height skipped here is never seen by any handler, so    *)
(* the entries must not miss anything that the filters let through.        *)
(*                                                                         *)
(* External are the dictionary and node-core's choice of heights.  The     *)
(* matcher 'contains' compares with what the dictionary has stored of an   *)
(* item's fields: strings and numbers as they are, while an address or an  *)
(* amount may be stored in any form (Stored), or as an object that equals  *)
(* no value of a filter.                                                   *)
(***************************************************************************)
EXTENDS Filters, FiniteSets

CONSTANTS
  MaxHandlers,      \* bound: handlers of all data sources
  CustomHandlers,   \* the handlers of custom data sources, of a kind of their own
  Stored            \* what the dictionary stores for a field, a function on Values

ASSUME DictionaryAssumption ==
  /\ \A h \in CustomHandlers : h.kind \notin ItemKinds \cup {"Block"}
  /\ \A v \in Values : v.kind \in {"string", "number"} => Stored[v] = v.text

VARIABLES
  handlers,         \* ds.mapping.handlers of all data sources
  queryEntries      \* what the dictionary is asked for

vars == <<handlers, queryEntries>>

------------------------------------------------------------------------------

\* filter.type || filter.values
HasCondition(filter) == filter.type # NoType \/ filter.values # NoValues

\* Mutant, block handlers without a modulo are forgotten.
CannotUseDictionaryWithoutModulo(h) ==
  \/ h.filter = NoFilter
  \/ h.kind \in ItemKinds /\ ~ HasCondition(h.filter)

\* The handlers for which buildDictionaryQueryEntries returns [] at once.
CannotUseDictionary(h) ==
  \/ h.filter = NoFilter
  \/ h.kind = "Block" /\ h.filter.modulo = NoModulo
  \/ h.kind \in ItemKinds /\ ~ HasCondition(h.filter)

\* Mutant, nested[key] = value.
NestedFlat(values) ==
  {[path |-> <<values[i].key>>, value |-> values[i].value] : i \in DOMAIN values}

\* setWith(nested, key, value) over filter.values, as the values by their paths:
\* one goes when a later key is set at its path, above it or below it.
Nested(values) ==
  LET path(i) == Path[values[i].key]
      within(i, k) == Len(path(i)) <= Len(path(k)) /\ SubSeq(path(k), 1, Len(path(i))) = path(i)
      kept == {i \in DOMAIN values :
                 ~ \E k \in DOMAIN values : k > i /\ (within(i, k) \/ within(k, i))}
  IN {[path |-> path(i), value |-> values[i].value] : i \in kept}

\* txFilterToQueryEntry, txEventFilterToQueryEntry and
\* speicalEventFilterToQueryEntry.
QueryEntry(h) ==
  [entity |-> h.kind, type |-> h.filter.type,
   values |-> IF h.filter.values = NoValues THEN NoValues ELSE Nested(h.filter.values)]

\* Block handlers with a modulo and handlers of any other kind add no entry.
buildDictionaryQueryEntries(hs) ==
  IF \E h \in hs : CannotUseDictionary(h) THEN {}
  ELSE {QueryEntry(h) : h \in {g \in hs : g.kind \in ItemKinds}}

\* getModulos of node-core.
Modulo(hs) == {h.filter.modulo : h \in {g \in hs : g.kind = "Block" /\ g.filter # NoFilter}}
                \ {NoModulo, 0}

ModuloHeight(hs, height) == \E m \in Modulo(hs) : height % m = 0

\* A dictionary entry against an item: a condition on `undefined` is no
\* condition, and data contains the nested object if it has each of its values.
\* A path into a field is taken to match nothing: no entry matches more.
EntryMatches(entry, item) ==
  /\ entry.entity = item.kind
  /\ entry.type \in {NoType, item.type}
  /\ entry.values # NoValues =>
       \A v \in entry.values :
         /\ Len(v.path) = 1 /\ v.path[1] \in PlainKeys
         /\ Stored[item.fields[v.path[1]]] = v.value

\* FetchService of node-core: is the block of this height, with this item in
\* it, enqueued?  Without entries every height is, or every modulo height if
\* only block handlers with a modulo exist.
Fetched(height, item) ==
  IF queryEntries # {}
  THEN ModuloHeight(handlers, height) \/ \E entry \in queryEntries : EntryMatches(entry, item)
  ELSE \/ ModuloHeight(handlers, height)
       \/ \E h \in handlers :
            h.kind # "Block" \/ h.filter = NoFilter \/ h.filter.modulo \in {NoModulo, 0}

------------------------------------------------------------------------------

Init ==
  /\ handlers \in {{h} : h \in Handlers \cup CustomHandlers}
  /\ queryEntries = buildDictionaryQueryEntries(handlers)

\* A data source is created, or its start block is reached: the queries are
\* built anew from all handlers.
AddHandler(h) ==
  /\ Cardinality(handlers) < MaxHandlers
  /\ handlers' = handlers \cup {h}
  /\ queryEntries' = buildDictionaryQueryEntries(handlers')

Next == \E h \in Handlers \cup CustomHandlers : AddHandler(h)

Spec == Init /\ [][Next]_vars

------------------------------------------------------------------------------

TypeOK ==
  /\ handlers \subseteq Handlers \cup CustomHandlers
  /\ \A entry \in queryEntries :
       /\ entry.entity \in ItemKinds
       /\ entry.type \in Types \cup {NoType}
       /\ entry.values # NoValues =>
            entry.values \subseteq [path : {Path[k] : k \in Keys}, value : FilterValues]

\* The filter compares only strings and numbers of the item.
ComparesScalars(h, item) ==
  h.filter # NoFilter /\ h.filter.values # NoValues =>
    \A i \in DOMAIN h.filter.values :
      Field(item, h.filter.values[i].key).kind \in {"string", "number"}

\* buildDictionaryQueryEntries with the filters of IndexerManager: a block is
\* fetched whenever a handler would run on the block or on something in it, except
\* by a comparison with an address or an amount, where it is up to the form the
\* dictionary stores, and except for a modulo of 0, which filters nothing and asks
\* for nothing.  What a custom handler runs on is up to its processor: on anything.
DictionarySound ==
  \A h \in handlers :
    /\ \A item \in Items, height \in 0..MaxHeight :
         \/ h \in CustomHandlers
         \/ FilterMap(item, h) = "yes" /\ ComparesScalars(h, item)
         => Fetched(height, item)
    /\ \A b \in BlockItems(0..MaxHeight), item \in Items :
         FilterMap(b, h) = "yes" /\ (h.filter # NoFilter => h.filter.modulo # 0)
         => Fetched(b.height, item)

==============================================================================
