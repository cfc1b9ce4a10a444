----------------------------- MODULE IndexOrder ------------------------------
(***************************************************************************)
(* What indexing a block promises to the mappings: the items of the block  *)
(* are taken in chain order; every item is handed to every data source, in *)
(* the order of the data sources, before the next item is touched; a data  *)
(* source that is created on the way joins at the end and sees the item it *)
(* was created at and all later ones; after an error nothing more happens. *)
(***************************************************************************)
EXTENDS Naturals, Sequences

CONSTANT MaxDataSources   \* bound: data sources at the end of the block

VARIABLES
  items,          \* the items of the block, in chain order
  dataSources,    \* number of data sources so far
  item,           \* the item being handed out
  next,           \* the data source to be given it next
  visits,         \* the pairs of item and data source handled so far
  outcome

vars == <<items, dataSources, item, next, visits, outcome>>

Init ==
  /\ dataSources \in 1..MaxDataSources
  /\ item = 1
  /\ next = 1
  /\ visits = <<>>
  /\ outcome = "indexing"

\* A data source handles the item, and may create data sources.
Handle ==
  /\ outcome = "indexing"
  /\ item <= Len(items)
  /\ next <= dataSources
  /\ visits' = Append(visits, <<items[item], next>>)
  /\ dataSources' \in dataSources..MaxDataSources
  /\ next' = next + 1
  /\ UNCHANGED <<items, item, outcome>>

\* All data sources have seen the item.
Advance ==
  /\ outcome = "indexing"
  /\ item <= Len(items)
  /\ next > dataSources
  /\ item' = item + 1
  /\ next' = 1
  /\ UNCHANGED <<items, dataSources, visits, outcome>>

Finish ==
  /\ outcome = "indexing"
  /\ item = Len(items) + 1
  /\ outcome' = "indexed"
  /\ UNCHANGED <<items, dataSources, item, next, visits>>

\* A handler throws.
Fail ==
  /\ outcome = "indexing"
  /\ outcome' = "failed"
  /\ UNCHANGED <<items, dataSources, item, next, visits>>

Next == Handle \/ Advance \/ Finish \/ Fail

Spec == Init /\ [][Next]_vars

==============================================================================
