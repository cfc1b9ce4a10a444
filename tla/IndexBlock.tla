----------------------------- MODULE IndexBlock ------------------------------
(***************************************************************************)
(* How IndexerManager runs the mappings over one block                     *)
(* (packages/node/src/indexer/indexer.manager.ts): the block, then each    *)
(* transaction followed by the events that carry its hash, then the        *)
(* special events.  Each is given to every data source by an awaited call  *)
(* of indexData, whose handlers may throw or create dynamic data sources;  *)
(* node-core pushes these onto the very array the loop runs over.          *)
(*                                                                         *)
(* Items are named by their places in the lists of the block; which        *)
(* handlers of a data source match an item is the matter of module Filters.*)
(***************************************************************************)
EXTENDS Integers, Sequences, FiniteSets

CONSTANTS
  MaxTransactions,    \* bound: transactions of the block
  MaxEvents,          \* bound: transaction events of the block
  MaxSpecialEvents,   \* bound: special events of the block
  MaxDataSources      \* bound: data sources at the end of the block

ASSUME IndexAssumption ==
  /\ {MaxTransactions, MaxEvents, MaxSpecialEvents} \subseteq Nat
  /\ MaxDataSources \in Nat \ {0}

VARIABLES
  transactions,       \* number of block.transactions
  transactionEvents,  \* block.transactionEvents: the hash of each one's transaction
  specialEvents,      \* number of block.specialEvents
  dataSources,        \* number of dataSources
  loop,               \* the loop of indexBlockData that is running
  tx,                 \* index of the current transaction
  event,              \* index of the current event in its list
  ds,                 \* index of the next data source of the innermost loop
  visits,             \* history: the calls of indexData that succeeded
  bornAt,             \* history: bornAt[d]: visits before data source d existed
  outcome             \* of the call of internalIndexBlock

block == <<transactions, transactionEvents, specialEvents>>
vars == <<block, dataSources, loop, tx, event, ds, visits, bornAt, outcome>>

\* The events of n transactions, by the hash (the index) of theirs: one to three
\* for the kinds whose summary has an event in a field of its own, any number for
\* those that have a list, none for an unknown kind or for what is no account
\* transaction.
wrapTransactionEvents(n) == UNION {[1..m -> 1..n] : m \in 0..MaxEvents}

\* flatMap over the transactions of the block: one's events after another's.
FlatMapped(events) == \A i, k \in DOMAIN events : i <= k => events[i] <= events[k]

\* Mutant, the filter on the hash is forgotten.
AllEvents(t) == DOMAIN transactionEvents

\* The events that the inner loop of transaction t runs over.
EventsOf(t) == {e \in DOMAIN transactionEvents : transactionEvents[e] = t}

BlockItem == <<"Block", 0>>
TxItem(t) == <<"Transaction", t>>
EventItem(e) == <<"TransactionEvent", e>>
SpecialItem(i) == <<"SpecialEvent", i>>

Init ==
  /\ transactions \in 0..MaxTransactions
  /\ transactionEvents \in {es \in wrapTransactionEvents(transactions) : FlatMapped(es)}
  /\ specialEvents \in 0..MaxSpecialEvents
  /\ dataSources \in 1..MaxDataSources
  /\ loop = "block"
  /\ tx = 1
  /\ event = 1
  /\ ds = 1
  /\ visits = <<>>
  /\ bornAt = [d \in 1..dataSources |-> 0]
  /\ outcome = "indexing"

------------------------------------------------------------------------------

\* await indexData(kind, item, dataSources[ds], getVM) succeeds; its handlers
\* may have created data sources, each of which was pushed onto the array.
IndexData(i) ==
  /\ outcome = "indexing"
  /\ ds <= dataSources
  /\ visits' = Append(visits, <<i, ds>>)
  /\ ds' = ds + 1
  /\ dataSources' \in dataSources..MaxDataSources
  /\ bornAt' = [d \in 1..dataSources' |-> IF d <= dataSources THEN bornAt[d] ELSE Len(visits)]
  /\ UNCHANGED <<block, loop, tx, event, outcome>>

\* A loop over the data sources has ended: control goes to l, t, e.
GoTo(l, t, e) ==
  /\ outcome = "indexing"
  /\ ds > dataSources
  /\ loop' = l
  /\ tx' = t
  /\ event' = e
  /\ ds' = 1
  /\ UNCHANGED <<block, dataSources, visits, bornAt, outcome>>

\* The loop head that comes after the events of the transactions before t.
LoopAfter(t, n) ==
  IF t <= n THEN "tx" ELSE IF specialEvents > 0 THEN "special" ELSE "end"

\* Mutant, off by one: the last transaction is left out.
AfterTransactionsTooEarly(t) == LoopAfter(t, transactions - 1)

\* Mutant, off by one: runs past the last transaction.
AfterTransactionsTooLate(t) == LoopAfter(t, transactions + 1)

AfterTransactions(t) == LoopAfter(t, transactions)

IndexBlockContent ==
  /\ loop = "block"
  /\ IndexData(BlockItem) \/ GoTo(AfterTransactions(1), 1, 1)

\* The head of the loop over events, with those still to come.
GoToEvents(events) ==
  IF events = {} THEN GoTo(AfterTransactions(tx + 1), tx + 1, 1)
  ELSE GoTo("event", tx, CHOOSE e \in events : \A k \in events : e <= k)

IndexTransaction ==
  /\ loop = "tx"
  /\ IndexData(TxItem(tx)) \/ GoToEvents(EventsOf(tx))

IndexTransactionEvent ==
  /\ loop = "event"
  /\ IndexData(EventItem(event)) \/ GoToEvents({e \in EventsOf(tx) : e > event})

IndexSpecialEvent ==
  /\ loop = "special"
  /\ \/ IndexData(SpecialItem(event))
     \/ IF event < specialEvents THEN GoTo("special", tx, event + 1)
        ELSE GoTo("end", tx, event + 1)

\* internalIndexBlock returns to the dispatcher.
Finish ==
  /\ outcome = "indexing"
  /\ loop = "end"
  /\ outcome' = "indexed"
  /\ UNCHANGED <<block, dataSources, loop, tx, event, ds, visits, bornAt>>

\* indexData throws: the error leaves indexBlockData at once.
Fail ==
  /\ outcome = "indexing"
  /\ loop # "end"
  /\ ds <= dataSources
  /\ outcome' = "failed"
  /\ UNCHANGED <<block, dataSources, loop, tx, event, ds, visits, bornAt>>

IndexBlockData ==
  \/ IndexBlockContent
  \/ IndexTransaction
  \/ IndexTransactionEvent
  \/ IndexSpecialEvent
  \/ Finish
  \/ Fail

Spec == Init /\ [][IndexBlockData]_vars

------------------------------------------------------------------------------

\* What indexBlockData hands to the data sources.
BlockItems ==
  {BlockItem}
  \cup {TxItem(t) : t \in 1..transactions}
  \cup {EventItem(e) : e \in DOMAIN transactionEvents}
  \cup {SpecialItem(i) : i \in 1..specialEvents}

TypeOK ==
  /\ transactions \in 0..MaxTransactions
  /\ transactionEvents \in wrapTransactionEvents(transactions)
  /\ specialEvents \in 0..MaxSpecialEvents
  /\ dataSources \in 1..MaxDataSources
  /\ loop \in {"block", "tx", "event", "special", "end"}
  /\ tx \in 1..(transactions + 1)
  /\ event \in 1..(MaxEvents + MaxSpecialEvents + 1)
  /\ ds \in 1..(dataSources + 1)
  /\ visits \in Seq(BlockItems \X (1..MaxDataSources))
  /\ bornAt \in [1..dataSources -> 0..Len(visits)]
  /\ outcome \in {"indexing", "indexed", "failed"}

\* The events of the transactions before t.
EventsBefore(t) == {e \in DOMAIN transactionEvents : transactionEvents[e] < t}

\* The place of an item in chain order: after the block come the transactions, each
\* with its events behind it, and then the special events.
Place(it) ==
  CASE it[1] = "Block" -> 1
    [] it[1] = "Transaction" -> 1 + it[2] + Cardinality(EventsBefore(it[2]))
    [] it[1] = "TransactionEvent" -> 1 + transactionEvents[it[2]] + it[2]
    [] it[1] = "SpecialEvent" -> 1 + transactions + Len(transactionEvents) + it[2]

\* The items of the block in chain order.
Items ==
  [p \in 1..(1 + transactions + Len(transactionEvents) + specialEvents) |->
     CHOOSE it \in BlockItems : Place(it) = p]

\* indexBlockData: when the block has been indexed, every data source has seen
\* exactly the items from the one at which it came into being on: none twice
\* and none missed, whenever dynamic data sources were created.
EveryItemOnce ==
  outcome = "indexed" =>
    \A d \in 1..dataSources, p \in 1..Len(Items) :
      Cardinality({n \in 1..Len(visits) : visits[n] = <<Items[p], d>>}) =
        IF \E q \in 1..p : Items[q] = visits[bornAt[d] + 1][1] THEN 1 ELSE 0

\* The item that the running loops hand out, and its place in the block.
CurrentItem ==
  CASE loop = "block" -> BlockItem
    [] loop = "tx" -> TxItem(tx)
    [] loop = "event" -> EventItem(event)
    [] loop = "special" -> SpecialItem(event)

Position == IF loop = "end" THEN Len(Items) + 1 ELSE Place(CurrentItem)

Order == INSTANCE IndexOrder WITH items <- Items, item <- Position, next <- ds

\* The nested loops of indexBlockData, over arrays that grow while they run,
\* implement the flat order of module IndexOrder.
ImplementsOrder == Order!Spec

==============================================================================
