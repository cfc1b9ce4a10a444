---------------------------- MODULE FilterCheck ------------------------------
(***************************************************************************)
(* One evaluation of a handler's filter on a transaction, transaction      *)
(* event or special event of a block, as indexData makes it, against what  *)
(* the filter says.                                                        *)
(***************************************************************************)
EXTENDS Filters

VARIABLES item, handler, verdict

filterVars == <<item, handler, verdict>>

FilterInit ==
  /\ item \in Items
  /\ handler \in {h \in Handlers : h.kind = item.kind}
  /\ verdict = "none"

\* ds.mapping.handlers.filter(...) on one handler.
Filter ==
  /\ verdict = "none"
  /\ verdict' = FilterMap(item, handler)
  /\ UNCHANGED <<item, handler>>

FilterSpec == FilterInit /\ [][Filter]_filterVars

------------------------------------------------------------------------------

\* filterTxEventProcessor: when it answers, an event passes exactly if its
\* type and every field named by the filter are what the filter says,
\* whichever shape the SDK gives an address or an amount, and whatever the
\* manifest has under filter.values, a number or null included.
EventFilterAgrees ==
  item.kind \in {"TransactionEvent", "SpecialEvent"} /\ handler.filter # NoFilter =>
    /\ verdict = "yes" => Describes(handler.filter, item)
    /\ verdict = "no" => ~ Describes(handler.filter, item)

\* filterTransactionsProcessor never lets a transaction pass that the filter
\* does not describe, and never throws.
TransactionFilterSafe ==
  item.kind = "Transaction" /\ handler.filter # NoFilter =>
    /\ verdict = "yes" => Describes(handler.filter, item)
    /\ verdict # "throws"

\* filterTxEventProcessor fails the block on an event of the type of the filter
\* exactly if, going through the values, it comes to one that it has nothing to
\* compare with (block.concordium.ts:83, :95) before one that does not match: a
\* field that is missing, as is any that the filter names by a path, or a contract
\* against a string, a number or a null that is no index.  An amount or an account
\* is never the reason.
EventFilterThrowsOnlyOnIncomparable ==
  (/\ verdict # "none"
   /\ item.kind \in {"TransactionEvent", "SpecialEvent"}
   /\ handler.filter # NoFilter) =>
    LET values == IF handler.filter.type \notin {NoType, item.type}
                     \/ handler.filter.values = NoValues
                  THEN <<>> ELSE handler.filter.values
        field(i) == Field(item, values[i].key)
    IN verdict = "throws" <=>
         \E i \in DOMAIN values :
           /\ Incomparable(field(i), values[i].value)
           /\ \A k \in 1..(i - 1) : Means(field(k), values[k].value)

==============================================================================
