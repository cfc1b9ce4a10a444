-------------------------- MODULE IndexBlockProofs ---------------------------
(***************************************************************************)
(* The nested loops of indexBlockData implement the flat order of          *)
(* IndexOrder, and every data source sees every item from its own first    *)
(* one on exactly once, for blocks of any size and any number of data      *)
(* sources created on the way.                                             *)
(*                                                                         *)
(* All of it rests on the places of items in chain order: no two items     *)
(* share one (PlaceInjective), and a loop that has ended hands over to the *)
(* place behind its own (StepKinds), because the events of a transaction   *)
(* are next to each other in block.transactionEvents (EventsBeforePrefix). *)
(***************************************************************************)
EXTENDS IndexBlock, FiniteSetTheorems, SequenceTheorems, WellFoundedInduction, TLAPS

\* The loop that runs is at something that is there.
LoopInv ==
  \/ loop = "block" /\ tx = 1 /\ event = 1
  \/ loop = "tx" /\ tx \in 1..transactions /\ event = 1
  \/ loop = "event" /\ event \in EventsOf(tx)
  \/ loop = "special" /\ tx = transactions + 1 /\ event \in 1..specialEvents
  \/ loop = "end" /\ tx = transactions + 1 /\ event \in 1..(specialEvents + 1)

\* What the bounds and the loops keep true.
ControlInv ==
  /\ TypeOK
  /\ FlatMapped(transactionEvents)
  /\ LoopInv

------------------------------------------------------------------------------
(* The places of the items.                                                *)

\* block.transactionEvents is a list of transactions of the block.
LEMMA EventList ==
  ASSUME TypeOK
  PROVE  /\ transactions \in Nat /\ specialEvents \in Nat
         /\ Len(transactionEvents) \in 0..MaxEvents /\ Len(transactionEvents) \in Nat
         /\ DOMAIN transactionEvents = 1..Len(transactionEvents)
         /\ \A e \in 1..Len(transactionEvents) : transactionEvents[e] \in 1..transactions
<1>1. PICK m \in 0..MaxEvents : transactionEvents \in [1..m -> 1..transactions]
  BY DEF TypeOK, wrapTransactionEvents
<1>2. m \in Nat /\ MaxEvents \in Nat /\ MaxTransactions \in Nat /\ MaxSpecialEvents \in Nat
  BY IndexAssumption
<1>3. transactionEvents \in Seq(1..transactions)
  BY <1>1, <1>2, SeqDef
<1>4. Len(transactionEvents) = m
  <2>1. Len(transactionEvents) \in Nat /\ 1..Len(transactionEvents) = 1..m
    BY <1>1, <1>3, LenProperties
  <2>. QED
    BY <1>2, <2>1
<1>. QED
  BY <1>1, <1>2, <1>4 DEF TypeOK

\* The natural numbers are well ordered, for sets.
LEMMA LeastNatural ==
  ASSUME NEW S \in SUBSET Nat, S # {}
  PROVE  \E i \in S : \A k \in S : i <= k
<1>. DEFINE R == OpToRel(<, Nat)
<1>1. IsWellFoundedOn(R, Nat)
  BY NatLessThanWellFounded
<1>2. \E i \in S : \A k \in S : ~ (<<k, i>> \in R)
  <2>. HIDE DEF R
  <2>. QED
    BY <1>1, WFMin
<1>3. \A i, k \in Nat : <<k, i>> \in R <=> k < i
  BY DEF OpToRel
<1>4. PICK i \in S : \A k \in S : ~ (<<k, i>> \in R)
  BY <1>2
<1>5. \A k \in S : i <= k
  <2>. HIDE DEF R
  <2>. SUFFICES ASSUME NEW k \in S PROVE i <= k
    OBVIOUS
  <2>1. i \in Nat /\ k \in Nat /\ ~ (<<k, i>> \in R)
    BY <1>4
  <2>2. ~ (k < i)
    BY <1>3, <2>1
  <2>. QED
    BY <2>1, <2>2
<1>. QED
  BY <1>5

\* The loop over events takes the least of those to come.
LEMMA FirstEvent ==
  ASSUME TypeOK, NEW S \in SUBSET DOMAIN transactionEvents, S # {}
  PROVE  LET first == CHOOSE e \in S : \A k \in S : e <= k
         IN first \in S /\ \A k \in S : first <= k
<1>1. S \in SUBSET Nat
  BY EventList
<1>2. \E e \in S : \A k \in S : e <= k
  BY <1>1, LeastNatural
<1>. QED
  BY <1>2

\* The number of events of the transactions before t.
Earlier(t) == Cardinality(EventsBefore(t))

\* As flatMap keeps the order of the transactions, the events of those before t are
\* the first ones of the list.
LEMMA EventsBeforePrefix ==
  ASSUME ControlInv, NEW t \in Nat
  PROVE  /\ Earlier(t) \in 0..Len(transactionEvents) /\ Earlier(t) \in Nat
         /\ \A e \in 1..Len(transactionEvents) : transactionEvents[e] < t <=> e <= Earlier(t)
<1>. DEFINE n == Len(transactionEvents)
            later == {e \in 1..n : ~ (transactionEvents[e] < t)}
<1>1. /\ n \in Nat
      /\ DOMAIN transactionEvents = 1..n
      /\ \A e \in 1..n : transactionEvents[e] \in Nat
      /\ transactions \in Nat
  BY EventList DEF ControlInv
<1>2. \E c \in 0..n : \A e \in 1..n : transactionEvents[e] < t <=> e <= c
  <2>1. CASE later = {}
    <3>1. \A e \in 1..n : transactionEvents[e] < t <=> e <= n
      BY <1>1, <2>1
    <3>. HIDE DEF n, later
    <3>. QED
      BY <1>1, <3>1
  <2>2. CASE later # {}
    <3>1. later \in SUBSET Nat
      BY <1>1
    <3>2. PICK l \in later : \A k \in later : l <= k
      <4>. HIDE DEF later
      <4>. QED
        BY <2>2, <3>1, LeastNatural
    <3>3. \A e \in 1..n : transactionEvents[e] < t <=> e <= l - 1
      <4>. SUFFICES ASSUME NEW e \in 1..n
                    PROVE  transactionEvents[e] < t <=> e <= l - 1
        OBVIOUS
      <4>1. CASE e < l
        BY <1>1, <3>2, <4>1
      <4>2. CASE l <= e
        <5>1. transactionEvents[l] <= transactionEvents[e]
          BY <1>1, <3>2, <4>2 DEF ControlInv, FlatMapped
        <5>. QED
          BY <1>1, <3>2, <4>2, <5>1
      <4>. QED
        BY <1>1, <3>2, <4>1, <4>2
    <3>4. l - 1 \in 0..n
      BY <1>1, <3>2
    <3>. QED
      BY <3>3, <3>4
  <2>. QED
    BY <2>1, <2>2
<1>3. PICK c \in 0..n : \A e \in 1..n : transactionEvents[e] < t <=> e <= c
  BY <1>2
<1>4. EventsBefore(t) = 1..c
  BY <1>1, <1>3 DEF EventsBefore
<1>5. Earlier(t) = c
  BY <1>1, <1>4, FS_Interval DEF Earlier
<1>. QED
  BY <1>1, <1>3, <1>5

\* Before the first transaction there are no events, after the last one all.
LEMMA EarlierEnds ==
  ASSUME ControlInv
  PROVE  /\ Earlier(1) = 0
         /\ Earlier(transactions + 1) = Len(transactionEvents)
<1>1. /\ Len(transactionEvents) \in Nat /\ transactions \in Nat
      /\ \A e \in 1..Len(transactionEvents) : transactionEvents[e] \in 1..transactions
  BY EventList DEF ControlInv
<1>2. Earlier(1) = 0
  <2>1. /\ Earlier(1) \in 0..Len(transactionEvents)
        /\ \A e \in 1..Len(transactionEvents) : transactionEvents[e] < 1 <=> e <= Earlier(1)
    BY EventsBeforePrefix
  <2>2. SUFFICES ASSUME Earlier(1) # 0 PROVE FALSE
    OBVIOUS
  <2>3. 1 \in 1..Len(transactionEvents) /\ 1 <= Earlier(1)
    BY <1>1, <2>1, <2>2
  <2>. QED
    BY <1>1, <2>1, <2>3
<1>3. Earlier(transactions + 1) = Len(transactionEvents)
  <2>. DEFINE c == Earlier(transactions + 1)
              n == Len(transactionEvents)
  <2>1. c \in 0..n /\ \A e \in 1..n : transactionEvents[e] < transactions + 1 <=> e <= c
    <3>1. transactions + 1 \in Nat
      BY <1>1
    <3>. QED
      BY <3>1, EventsBeforePrefix
  <2>2. SUFFICES ASSUME c # n PROVE FALSE
    OBVIOUS
  <2>3. n \in 1..n /\ ~ (n <= c)
    BY <1>1, <2>1, <2>2
  <2>. QED
    BY <1>1, <2>1, <2>3
<1>. QED
  BY <1>2, <1>3

\* Place, kind by kind.
LEMMA Places ==
  /\ Place(BlockItem) = 1
  /\ \A t : Place(TxItem(t)) = 1 + t + Earlier(t)
  /\ \A e : Place(EventItem(e)) = 1 + transactionEvents[e] + e
  /\ \A i : Place(SpecialItem(i)) = 1 + transactions + Len(transactionEvents) + i
  BY DEF Place, BlockItem, TxItem, EventItem, SpecialItem, Earlier

\* The number of items.
Size == 1 + transactions + Len(transactionEvents) + specialEvents

\* There are as many places as items.
LEMMA PlaceTyped ==
  ASSUME ControlInv, NEW it \in BlockItems
  PROVE  Place(it) \in 1..Size /\ Size \in Nat
<1>1. /\ transactions \in Nat /\ specialEvents \in Nat /\ Len(transactionEvents) \in Nat
      /\ DOMAIN transactionEvents = 1..Len(transactionEvents)
      /\ \A e \in 1..Len(transactionEvents) : transactionEvents[e] \in 1..transactions
  BY EventList DEF ControlInv
<1>2. CASE it = BlockItem
  BY <1>1, <1>2, Places DEF Size
<1>3. CASE \E t \in 1..transactions : it = TxItem(t)
  <2>1. PICK t \in 1..transactions : it = TxItem(t)
    BY <1>3
  <2>2. Earlier(t) \in 0..Len(transactionEvents)
    BY <1>1, EventsBeforePrefix
  <2>3. Place(it) = 1 + t + Earlier(t)
    BY <2>1, Places
  <2>. QED
    BY <1>1, <2>2, <2>3 DEF Size
<1>4. CASE \E e \in DOMAIN transactionEvents : it = EventItem(e)
  BY <1>1, <1>4, Places DEF Size
<1>5. CASE \E i \in 1..specialEvents : it = SpecialItem(i)
  BY <1>1, <1>5, Places DEF Size
<1>. QED
  BY <1>2, <1>3, <1>4, <1>5 DEF BlockItems

\* A transaction that comes later has at least the events before it.
LEMMA EarlierGrows ==
  ASSUME ControlInv, NEW s \in Nat, NEW t \in Nat, s <= t
  PROVE  Earlier(s) <= Earlier(t)
<1>. DEFINE n == Len(transactionEvents)
<1>1. /\ n \in Nat /\ transactions \in Nat
      /\ \A e \in 1..n : transactionEvents[e] \in 1..transactions
  BY EventList DEF ControlInv
<1>2. /\ Earlier(s) \in 0..n
      /\ \A e \in 1..n : transactionEvents[e] < s <=> e <= Earlier(s)
  BY EventsBeforePrefix
<1>3. /\ Earlier(t) \in 0..n
      /\ \A e \in 1..n : transactionEvents[e] < t <=> e <= Earlier(t)
  BY EventsBeforePrefix
<1>. HIDE DEF n
<1>4. CASE Earlier(s) = 0
  BY <1>1, <1>3, <1>4
<1>5. CASE Earlier(s) # 0
  <2>1. Earlier(s) \in 1..n
    BY <1>1, <1>2, <1>5
  <2>2. transactionEvents[Earlier(s)] < s
    BY <1>2, <2>1
  <2>3. transactionEvents[Earlier(s)] < t
    BY <1>1, <2>1, <2>2
  <2>. QED
    BY <1>3, <2>1, <2>3
<1>. QED
  BY <1>4, <1>5

\* No two items share a place.
LEMMA PlaceInjective ==
  ASSUME ControlInv, NEW x \in BlockItems, NEW y \in BlockItems, Place(x) = Place(y)
  PROVE  x = y
<1>. DEFINE n == Len(transactionEvents)
<1>1. /\ transactions \in Nat /\ specialEvents \in Nat /\ n \in Nat
      /\ DOMAIN transactionEvents = 1..n
      /\ \A e \in 1..n : transactionEvents[e] \in 1..transactions
  BY EventList DEF ControlInv
<1>2. \A t \in 1..transactions :
        /\ Earlier(t) \in 0..n
        /\ \A e \in 1..n : transactionEvents[e] < t <=> e <= Earlier(t)
  BY <1>1, EventsBeforePrefix
<1>3. \A s, t \in 1..transactions : s <= t => Earlier(s) <= Earlier(t)
  BY <1>1, EarlierGrows
<1>4. \A e, f \in 1..n : e <= f => transactionEvents[e] <= transactionEvents[f]
  BY <1>1 DEF ControlInv, FlatMapped
<1>. HIDE DEF n
<1>5. \A s, t \in 1..transactions : 1 + s + Earlier(s) = 1 + t + Earlier(t) => s = t
  <2>. SUFFICES ASSUME NEW s \in 1..transactions, NEW t \in 1..transactions,
                       1 + s + Earlier(s) = 1 + t + Earlier(t)
                PROVE  s = t
    OBVIOUS
  <2>1. Earlier(s) \in Nat /\ Earlier(t) \in Nat
    BY <1>1, <1>2
  <2>2. s <= t => Earlier(s) <= Earlier(t)
    BY <1>3
  <2>3. t <= s => Earlier(t) <= Earlier(s)
    BY <1>3
  <2>. QED
    BY <1>1, <2>1, <2>2, <2>3
<1>6. \A t \in 1..transactions, e \in 1..n : 1 + t + Earlier(t) # 1 + transactionEvents[e] + e
  <2>. SUFFICES ASSUME NEW t \in 1..transactions, NEW e \in 1..n
                PROVE  1 + t + Earlier(t) # 1 + transactionEvents[e] + e
    OBVIOUS
  <2>1. Earlier(t) \in 0..n /\ (transactionEvents[e] < t <=> e <= Earlier(t))
    BY <1>2
  <2>. QED
    BY <1>1, <2>1
<1>7. \A e, f \in 1..n : 1 + transactionEvents[e] + e = 1 + transactionEvents[f] + f => e = f
  <2>. SUFFICES ASSUME NEW e \in 1..n, NEW f \in 1..n,
                       1 + transactionEvents[e] + e = 1 + transactionEvents[f] + f
                PROVE  e = f
    OBVIOUS
  <2>1. e <= f => transactionEvents[e] <= transactionEvents[f]
    BY <1>4
  <2>2. f <= e => transactionEvents[f] <= transactionEvents[e]
    BY <1>4
  <2>. QED
    BY <1>1, <2>1, <2>2
<1>8. /\ Place(BlockItem) = 1
      /\ \A t \in 1..transactions : Place(TxItem(t)) = 1 + t + Earlier(t)
      /\ \A e \in 1..n : Place(EventItem(e)) = 1 + transactionEvents[e] + e
      /\ \A i \in 1..specialEvents : Place(SpecialItem(i)) = 1 + transactions + n + i
  BY Places DEF n
<1>9. \/ x = BlockItem
      \/ \E t \in 1..transactions : x = TxItem(t)
      \/ \E e \in 1..n : x = EventItem(e)
      \/ \E i \in 1..specialEvents : x = SpecialItem(i)
  BY <1>1 DEF BlockItems
<1>10. \/ y = BlockItem
       \/ \E t \in 1..transactions : y = TxItem(t)
       \/ \E e \in 1..n : y = EventItem(e)
       \/ \E i \in 1..specialEvents : y = SpecialItem(i)
  BY <1>1 DEF BlockItems
<1>11. \A t \in 1..transactions : 1 < 1 + t + Earlier(t) /\ 1 + t + Earlier(t) < 1 + transactions + n + 1
  <2>. SUFFICES ASSUME NEW t \in 1..transactions
                PROVE  1 < 1 + t + Earlier(t) /\ 1 + t + Earlier(t) < 1 + transactions + n + 1
    OBVIOUS
  <2>1. Earlier(t) \in 0..n
    BY <1>2
  <2>. QED
    BY <1>1, <2>1
<1>12. CASE x = BlockItem
  <2>1. \A t \in 1..transactions : Place(TxItem(t)) # Place(x)
    BY <1>1, <1>8, <1>11, <1>12
  <2>2. \A e \in 1..n : Place(EventItem(e)) # Place(x)
    BY <1>1, <1>8, <1>12
  <2>3. \A i \in 1..specialEvents : Place(SpecialItem(i)) # Place(x)
    BY <1>1, <1>8, <1>12
  <2>. QED
    BY <1>10, <1>12, <2>1, <2>2, <2>3
<1>13. ASSUME NEW t \in 1..transactions, x = TxItem(t)
       PROVE  x = y
  <2>1. \A i \in 1..specialEvents : Place(SpecialItem(i)) # Place(x)
    BY <1>1, <1>8, <1>11, <1>13
  <2>2. \A e \in 1..n : Place(EventItem(e)) # Place(x)
    BY <1>6, <1>8, <1>13
  <2>3. Place(BlockItem) # Place(x)
    BY <1>1, <1>8, <1>11, <1>13
  <2>4. PICK s \in 1..transactions : y = TxItem(s)
    BY <1>10, <2>1, <2>2, <2>3
  <2>5. s = t
    BY <1>5, <1>8, <1>13, <2>4
  <2>. QED
    BY <1>13, <2>4, <2>5
<1>14. ASSUME NEW e \in 1..n, x = EventItem(e)
       PROVE  x = y
  <2>1. \A i \in 1..specialEvents : Place(SpecialItem(i)) # Place(x)
    BY <1>1, <1>8, <1>14
  <2>2. \A t \in 1..transactions : Place(TxItem(t)) # Place(x)
    BY <1>6, <1>8, <1>14
  <2>3. Place(BlockItem) # Place(x)
    BY <1>1, <1>8, <1>14
  <2>4. PICK f \in 1..n : y = EventItem(f)
    BY <1>10, <2>1, <2>2, <2>3
  <2>5. e = f
    BY <1>7, <1>8, <1>14, <2>4
  <2>. QED
    BY <1>14, <2>4, <2>5
<1>15. ASSUME NEW i \in 1..specialEvents, x = SpecialItem(i)
       PROVE  x = y
  <2>1. \A t \in 1..transactions : Place(TxItem(t)) # Place(x)
    BY <1>1, <1>8, <1>11, <1>15
  <2>2. \A e \in 1..n : Place(EventItem(e)) # Place(x)
    BY <1>1, <1>8, <1>15
  <2>3. Place(BlockItem) # Place(x)
    BY <1>1, <1>8, <1>15
  <2>4. PICK k \in 1..specialEvents : y = SpecialItem(k)
    BY <1>10, <2>1, <2>2, <2>3
  <2>5. i = k
    BY <1>1, <1>8, <1>15, <2>4
  <2>. QED
    BY <1>15, <2>4, <2>5
<1>. QED
  BY <1>9, <1>12, <1>13, <1>14, <1>15

\* So an item is found at its place.
LEMMA ItemAtPlace ==
  ASSUME ControlInv, NEW it \in BlockItems
  PROVE  /\ Len(Items) = Size /\ DOMAIN Items = 1..Size
         /\ Items[Place(it)] = it
<1>1. Place(it) \in 1..Size /\ Size \in Nat
  BY PlaceTyped
<1>2. Items[Place(it)] = CHOOSE other \in BlockItems : Place(other) = Place(it)
  BY <1>1 DEF Items, Size
<1>3. (CHOOSE other \in BlockItems : Place(other) = Place(it)) = it
  BY PlaceInjective
<1>4. Len(Items) = Size /\ DOMAIN Items = 1..Size
  BY <1>1 DEF Items, Size
<1>. QED
  BY <1>2, <1>3, <1>4

------------------------------------------------------------------------------
(* The loops.                                                              *)

\* The item handed out is one of the block's.
LEMMA CurrentItemOfBlock ==
  ASSUME ControlInv, loop # "end"
  PROVE  CurrentItem \in BlockItems /\ Place(CurrentItem) = Position
<1>1. Place(CurrentItem) = Position
  BY DEF Position
<1>2. loop = "block" => CurrentItem \in BlockItems
  BY DEF CurrentItem, BlockItems
<1>3. loop = "tx" => CurrentItem \in BlockItems
  BY DEF CurrentItem, BlockItems, ControlInv, LoopInv
<1>4. loop = "event" => CurrentItem \in BlockItems
  BY DEF CurrentItem, BlockItems, ControlInv, LoopInv, EventsOf
<1>5. loop = "special" => CurrentItem \in BlockItems
  BY DEF CurrentItem, BlockItems, ControlInv, LoopInv
<1>. QED
  BY <1>1, <1>2, <1>3, <1>4, <1>5 DEF ControlInv, LoopInv

\* The place of what the running loop hands out.
LEMMA PositionNow ==
  /\ loop = "block" => Position = 1
  /\ loop = "tx" => Position = 1 + tx + Earlier(tx)
  /\ loop = "event" => Position = 1 + transactionEvents[event] + event
  /\ loop = "special" => Position = 1 + transactions + Len(transactionEvents) + event
  /\ loop = "end" => Position = Len(Items) + 1
  BY Places DEF Position, CurrentItem

\* The block does not change, and so do the places.
LEMMA BlockStays ==
  ASSUME UNCHANGED block
  PROVE  /\ Items' = Items
         /\ BlockItems' = BlockItems
         /\ \A it : Place(it)' = Place(it)
  BY DEF Items, BlockItems, Place, EventsBefore, BlockItem, TxItem, EventItem, SpecialItem, block

\* The same of the state after a step that leaves the block alone.
LEMMA PositionNext ==
  ASSUME UNCHANGED block
  PROVE  /\ loop' = "block" => Position' = 1
         /\ loop' = "tx" => Position' = 1 + tx' + Earlier(tx')
         /\ loop' = "event" => Position' = 1 + transactionEvents[event'] + event'
         /\ loop' = "special" => Position' = 1 + transactions + Len(transactionEvents) + event'
         /\ loop' = "end" => Position' = Len(Items) + 1
<1>1. Items' = Items
  BY BlockStays
<1>. QED
  BY <1>1 DEF Position, CurrentItem, Place, EventsBefore, Earlier, BlockItem, TxItem, EventItem,
              SpecialItem, block

\* Where control goes when the transactions before t and their events are done.
LEMMA GoToTransaction ==
  ASSUME ControlInv, NEW t \in 1..(transactions + 1), GoTo(AfterTransactions(t), t, 1)
  PROVE  LoopInv' /\ Position' = 1 + t + Earlier(t)
<1>1. transactions \in Nat /\ specialEvents \in Nat /\ Len(transactionEvents) \in Nat
  BY EventList DEF ControlInv
<1>2. /\ UNCHANGED block
      /\ loop' = AfterTransactions(t)
      /\ tx' = t
      /\ event' = 1
  BY DEF GoTo
<1>3. Earlier(transactions + 1) = Len(transactionEvents)
  BY EarlierEnds
<1>4. CASE t <= transactions
  <2>1. loop' = "tx"
    BY <1>2, <1>4 DEF AfterTransactions, LoopAfter
  <2>2. LoopInv'
    BY <1>1, <1>2, <1>4, <2>1 DEF LoopInv, block
  <2>. QED
    BY <1>2, <2>1, <2>2, PositionNext
<1>5. CASE t = transactions + 1 /\ specialEvents > 0
  <2>1. loop' = "special"
    BY <1>1, <1>2, <1>5 DEF AfterTransactions, LoopAfter
  <2>2. LoopInv'
    BY <1>1, <1>2, <1>5, <2>1 DEF LoopInv, block
  <2>3. Position' = 1 + transactions + Len(transactionEvents) + 1
    BY <1>2, <2>1, PositionNext
  <2>. QED
    BY <1>1, <1>3, <1>5, <2>2, <2>3
<1>6. CASE t = transactions + 1 /\ specialEvents = 0
  <2>1. loop' = "end"
    BY <1>1, <1>2, <1>6 DEF AfterTransactions, LoopAfter
  <2>2. LoopInv'
    BY <1>1, <1>2, <1>6, <2>1 DEF LoopInv, block
  <2>3. Position' = Len(Items) + 1
    BY <1>2, <2>1, PositionNext
  <2>4. Len(Items) = 1 + transactions + Len(transactionEvents)
    <3>1. BlockItem \in BlockItems
      BY DEF BlockItems
    <3>2. Len(Items) = Size
      BY <3>1, ItemAtPlace
    <3>. QED
      BY <1>1, <1>6, <3>2 DEF Size
  <2>. QED
    BY <1>1, <1>3, <1>6, <2>2, <2>3, <2>4
<1>. QED
  BY <1>1, <1>4, <1>5, <1>6

\* From a transaction or one of its events to the next event of the transaction, or
\* past it: one place on.
LEMMA GoToEventsByOne ==
  ASSUME ControlInv, NEW last \in 0..Len(transactionEvents), NEW events,
         tx \in 1..transactions,
         \A e \in 1..Len(transactionEvents) : transactionEvents[e] < tx => e <= last,
         \A e \in 1..Len(transactionEvents) : e <= last => transactionEvents[e] <= tx,
         events = {e \in EventsOf(tx) : e > last},
         Position = 1 + tx + last,
         GoToEvents(events)
  PROVE  LoopInv' /\ Position' = Position + 1
<1>. DEFINE n == Len(transactionEvents)
<1>1. /\ transactions \in Nat /\ n \in Nat
      /\ DOMAIN transactionEvents = 1..n
      /\ \A e \in 1..n : transactionEvents[e] \in 1..transactions
  BY EventList DEF ControlInv
<1>2. CASE events = {}
  <2>1. GoTo(AfterTransactions(tx + 1), tx + 1, 1)
    BY <1>2 DEF GoToEvents
  <2>2. tx + 1 \in 1..(transactions + 1) /\ tx + 1 \in Nat
    BY <1>1
  <2>3. LoopInv' /\ Position' = 1 + (tx + 1) + Earlier(tx + 1)
    BY <2>1, <2>2, GoToTransaction
  <2>4. /\ Earlier(tx + 1) \in 0..n
        /\ \A e \in 1..n : transactionEvents[e] < tx + 1 <=> e <= Earlier(tx + 1)
    BY <2>2, EventsBeforePrefix
  <2>5. \A e \in 1..n : transactionEvents[e] < tx + 1 <=> e <= last
    BY <1>1, <1>2 DEF EventsOf
  <2>6. Earlier(tx + 1) = last
    <3>1. \A e \in 1..n : e <= Earlier(tx + 1) <=> e <= last
      BY <2>4, <2>5
    <3>2. Earlier(tx + 1) \in 1..n => Earlier(tx + 1) <= last
      BY <1>1, <3>1
    <3>3. last \in 1..n => last <= Earlier(tx + 1)
      BY <1>1, <3>1
    <3>. QED
      BY <1>1, <2>4, <3>2, <3>3
  <2>. QED
    BY <1>1, <2>3, <2>6
<1>3. CASE events # {}
  <2>. DEFINE first == CHOOSE e \in events : \A k \in events : e <= k
  <2>1. first \in events /\ \A k \in events : first <= k
    <3>1. events \in SUBSET DOMAIN transactionEvents
      BY DEF EventsOf
    <3>. QED
      BY <1>3, <3>1, FirstEvent DEF ControlInv
  <2>2. GoTo("event", tx, first)
    BY <1>3 DEF GoToEvents
  <2>. HIDE DEF first
  <2>3. first \in 1..n /\ first > last /\ transactionEvents[first] = tx
    BY <1>1, <2>1 DEF EventsOf
  <2>4. first = last + 1
    <3>1. last + 1 \in 1..n /\ last + 1 <= first
      BY <1>1, <2>3
    <3>2. transactionEvents[last + 1] <= tx
      BY <1>1, <2>3, <3>1 DEF ControlInv, FlatMapped
    <3>3. ~ (transactionEvents[last + 1] < tx)
      BY <1>1, <3>1
    <3>4. transactionEvents[last + 1] = tx
      BY <1>1, <3>1, <3>2, <3>3
    <3>5. last + 1 \in events
      BY <1>1, <3>1, <3>4 DEF EventsOf
    <3>. QED
      BY <1>1, <2>1, <2>3, <3>1, <3>5
  <2>5. UNCHANGED block /\ loop' = "event" /\ tx' = tx /\ event' = first
    BY <2>2 DEF GoTo
  <2>6. Position' = 1 + transactionEvents[first] + first
    BY <2>5, PositionNext
  <2>7. LoopInv'
    BY <1>1, <2>3, <2>5 DEF LoopInv, EventsOf, block
  <2>. QED
    BY <1>1, <2>3, <2>4, <2>6, <2>7
<1>. QED
  BY <1>2, <1>3

\* The loops over data sources have ended for one item: the next one is up.
Advances ==
  /\ outcome = "indexing"
  /\ loop # "end"
  /\ ds > dataSources
  /\ ds' = 1
  /\ Position' = Position + 1
  /\ LoopInv'
  /\ UNCHANGED <<block, dataSources, visits, bornAt, outcome>>

\* indexData has succeeded for the item that is up.
Handles == loop # "end" /\ IndexData(CurrentItem)

\* Whichever of the nested loops a step is of, it is one of these.
LEMMA StepKinds ==
  ASSUME ControlInv, IndexBlockData
  PROVE  Handles \/ Advances \/ Finish \/ Fail
<1>. DEFINE n == Len(transactionEvents)
<1>1. /\ transactions \in Nat /\ specialEvents \in Nat /\ n \in Nat
      /\ DOMAIN transactionEvents = 1..n
      /\ \A e \in 1..n : transactionEvents[e] \in 1..transactions
  BY EventList DEF ControlInv
<1>2. ASSUME NEW l, NEW t, NEW e, GoTo(l, t, e), loop # "end",
             LoopInv' /\ Position' = Position + 1
      PROVE  Advances
  BY <1>2 DEF GoTo, Advances
<1>3. ASSUME loop \in {"tx", "event"}, NEW events, GoToEvents(events),
             LoopInv' /\ Position' = Position + 1
      PROVE  Advances
  BY <1>2, <1>3 DEF GoToEvents
<1>4. CASE IndexBlockContent
  <2>1. loop = "block" /\ Position = 1 /\ CurrentItem = BlockItem
    BY <1>4, PositionNow DEF IndexBlockContent, CurrentItem
  <2>2. CASE IndexData(BlockItem)
    BY <2>1, <2>2 DEF Handles
  <2>3. CASE GoTo(AfterTransactions(1), 1, 1)
    <3>1. 1 \in 1..(transactions + 1)
      BY <1>1
    <3>2. LoopInv' /\ Position' = 1 + 1 + Earlier(1)
      BY <2>3, <3>1, GoToTransaction
    <3>3. Position' = Position + 1
      BY <2>1, <3>2, EarlierEnds
    <3>. QED
      BY <1>2, <2>1, <2>3, <3>2, <3>3
  <2>. QED
    BY <1>4, <2>2, <2>3 DEF IndexBlockContent
<1>5. CASE IndexTransaction
  <2>1. loop = "tx" /\ tx \in 1..transactions /\ CurrentItem = TxItem(tx)
    BY <1>5 DEF IndexTransaction, CurrentItem, ControlInv, LoopInv
  <2>2. CASE IndexData(TxItem(tx))
    BY <2>1, <2>2 DEF Handles
  <2>3. CASE GoToEvents(EventsOf(tx))
    <3>1. /\ Earlier(tx) \in 0..n
          /\ \A e \in 1..n : transactionEvents[e] < tx <=> e <= Earlier(tx)
      BY <1>1, <2>1, EventsBeforePrefix
    <3>2. EventsOf(tx) = {e \in EventsOf(tx) : e > Earlier(tx)}
      BY <1>1, <2>1, <3>1 DEF EventsOf
    <3>3. \A e \in 1..n : transactionEvents[e] < tx => e <= Earlier(tx)
      BY <3>1
    <3>4. \A e \in 1..n : e <= Earlier(tx) => transactionEvents[e] <= tx
      BY <1>1, <2>1, <3>1
    <3>5. Position = 1 + tx + Earlier(tx)
      BY <2>1, PositionNow
    <3>6. LoopInv' /\ Position' = Position + 1
      BY <2>1, <2>3, <3>1, <3>2, <3>3, <3>4, <3>5, GoToEventsByOne
    <3>. QED
      BY <1>3, <2>1, <2>3, <3>6
  <2>. QED
    BY <1>5, <2>2, <2>3 DEF IndexTransaction
<1>6. CASE IndexTransactionEvent
  <2>1. /\ loop = "event" /\ CurrentItem = EventItem(event)
        /\ event \in 1..n /\ tx = transactionEvents[event] /\ tx \in 1..transactions
    BY <1>1, <1>6 DEF IndexTransactionEvent, CurrentItem, ControlInv, LoopInv, EventsOf
  <2>2. CASE IndexData(EventItem(event))
    BY <2>1, <2>2 DEF Handles
  <2>3. CASE GoToEvents({e \in EventsOf(tx) : e > event})
    <3>1. \A e, f \in 1..n : e <= f => transactionEvents[e] <= transactionEvents[f]
      BY <1>1 DEF ControlInv, FlatMapped
    <3>2. \A e \in 1..n : transactionEvents[e] < tx => e <= event
      BY <1>1, <2>1, <3>1
    <3>3. \A e \in 1..n : e <= event => transactionEvents[e] <= tx
      BY <2>1, <3>1
    <3>4. Position = 1 + tx + event /\ event \in 0..n
      BY <1>1, <2>1, PositionNow
    <3>5. LoopInv' /\ Position' = Position + 1
      BY <2>1, <2>3, <3>2, <3>3, <3>4, GoToEventsByOne
    <3>. QED
      BY <1>3, <2>1, <2>3, <3>5
  <2>. QED
    BY <1>6, <2>2, <2>3 DEF IndexTransactionEvent
<1>7. CASE IndexSpecialEvent
  <2>1. /\ loop = "special" /\ CurrentItem = SpecialItem(event)
        /\ tx = transactions + 1 /\ event \in 1..specialEvents
    BY <1>7 DEF IndexSpecialEvent, CurrentItem, ControlInv, LoopInv
  <2>2. Position = 1 + transactions + n + event
    BY <2>1, PositionNow
  <2>3. CASE IndexData(SpecialItem(event))
    BY <2>1, <2>3 DEF Handles
  <2>4. CASE event < specialEvents /\ GoTo("special", tx, event + 1)
    <3>1. UNCHANGED block /\ loop' = "special" /\ tx' = tx /\ event' = event + 1
      BY <2>4 DEF GoTo
    <3>2. Position' = 1 + transactions + n + (event + 1)
      BY <3>1, PositionNext
    <3>3. LoopInv'
      BY <1>1, <2>1, <2>4, <3>1 DEF LoopInv, block
    <3>4. Position' = Position + 1
      BY <1>1, <2>1, <2>2, <3>2
    <3>. QED
      BY <1>2, <2>1, <2>4, <3>3, <3>4
  <2>5. CASE ~ (event < specialEvents) /\ GoTo("end", tx, event + 1)
    <3>1. UNCHANGED block /\ loop' = "end" /\ tx' = tx /\ event' = event + 1
      BY <2>5 DEF GoTo
    <3>2. Position' = Len(Items) + 1
      BY <3>1, PositionNext
    <3>3. LoopInv'
      BY <1>1, <2>1, <3>1 DEF LoopInv, block
    <3>4. Len(Items) = Size
      <4>1. BlockItem \in BlockItems
        BY DEF BlockItems
      <4>. QED
        BY <4>1, ItemAtPlace
    <3>5. event = specialEvents
      BY <1>1, <2>1, <2>5
    <3>6. Position' = Position + 1
      BY <1>1, <2>2, <3>2, <3>4, <3>5 DEF Size
    <3>. QED
      BY <1>2, <2>1, <2>5, <3>3, <3>6
  <2>. QED
    BY <1>7, <2>3, <2>4, <2>5 DEF IndexSpecialEvent
<1>. QED
  BY <1>4, <1>5, <1>6, <1>7 DEF IndexBlockData

\* A successful call of indexData is recorded.
LEMMA VisitsAppend ==
  ASSUME ControlInv, Handles
  PROVE  /\ ds \in 1..dataSources /\ dataSources \in Nat /\ dataSources <= MaxDataSources
         /\ Len(visits) \in Nat /\ Len(visits') = Len(visits) + 1
         /\ \A k \in 1..Len(visits) : visits'[k] = visits[k]
         /\ visits'[Len(visits) + 1] = <<CurrentItem, ds>>
         /\ visits' \in Seq(BlockItems \X (1..MaxDataSources))
<1>1. /\ ds <= dataSources
      /\ visits' = Append(visits, <<CurrentItem, ds>>)
  BY DEF Handles, IndexData
<1>2. ds \in 1..dataSources /\ dataSources \in Nat /\ dataSources <= MaxDataSources
  BY <1>1, IndexAssumption DEF ControlInv, TypeOK
<1>3. <<CurrentItem, ds>> \in BlockItems \X (1..MaxDataSources)
  BY <1>2, IndexAssumption, CurrentItemOfBlock DEF Handles
<1>4. visits \in Seq(BlockItems \X (1..MaxDataSources))
  BY DEF ControlInv, TypeOK
<1>. QED
  BY <1>1, <1>2, <1>3, <1>4

\* It may have created data sources, which node-core pushes onto the array.
LEMMA BirthsAppend ==
  ASSUME ControlInv, Handles
  PROVE  /\ dataSources' \in dataSources..MaxDataSources
         /\ \A d \in 1..dataSources : bornAt'[d] = bornAt[d] /\ bornAt[d] \in 0..Len(visits)
         /\ \A d \in (dataSources + 1)..dataSources' : bornAt'[d] = Len(visits)
         /\ bornAt' \in [1..dataSources' -> 0..Len(visits)]
<1>1. /\ bornAt \in [1..dataSources -> 0..Len(visits)]
      /\ dataSources \in Nat /\ MaxDataSources \in Nat /\ Len(visits) \in Nat
  BY IndexAssumption, VisitsAppend DEF ControlInv, TypeOK
<1>2. /\ dataSources' \in dataSources..MaxDataSources
      /\ bornAt' = [d \in 1..dataSources' |->
                      IF d <= dataSources THEN bornAt[d] ELSE Len(visits)]
  BY DEF Handles, IndexData
<1>. QED
  BY <1>1, <1>2

\* No step leaves the type, or a loop without an item.
LEMMA ControlStep ==
  ASSUME ControlInv, [IndexBlockData]_vars
  PROVE  ControlInv'
<1>1. ASSUME UNCHANGED block, LoopInv'
      PROVE  /\ transactions' \in 0..MaxTransactions
             /\ transactionEvents' \in wrapTransactionEvents(transactions')
             /\ specialEvents' \in 0..MaxSpecialEvents
             /\ loop' \in {"block", "tx", "event", "special", "end"}
             /\ tx' \in 1..(transactions' + 1)
             /\ event' \in 1..(MaxEvents + MaxSpecialEvents + 1)
             /\ FlatMapped(transactionEvents')
  <2>1. /\ transactions' = transactions /\ transactionEvents' = transactionEvents
        /\ specialEvents' = specialEvents
    BY <1>1 DEF block
  <2>2. /\ transactions \in Nat /\ specialEvents \in 0..MaxSpecialEvents
        /\ MaxSpecialEvents \in Nat /\ MaxEvents \in Nat
        /\ DOMAIN transactionEvents = 1..Len(transactionEvents)
        /\ Len(transactionEvents) \in 0..MaxEvents
        /\ \A e \in 1..Len(transactionEvents) : transactionEvents[e] \in 1..transactions
    BY EventList, IndexAssumption DEF ControlInv, TypeOK
  <2>3. /\ loop' \in {"block", "tx", "event", "special", "end"}
        /\ tx' \in 1..(transactions + 1)
        /\ event' \in 1..(MaxEvents + MaxSpecialEvents + 1)
    BY <1>1, <2>1, <2>2 DEF LoopInv, EventsOf
  <2>. QED
    BY <2>1, <2>3 DEF ControlInv, TypeOK
<1>2. ASSUME loop' = loop, tx' = tx, event' = event, UNCHANGED block
      PROVE  LoopInv'
  BY <1>2 DEF ControlInv, LoopInv, EventsOf, block
<1>3. CASE Handles
  <2>1. UNCHANGED block /\ loop' = loop /\ tx' = tx /\ event' = event /\ outcome' = outcome
    BY <1>3 DEF Handles, IndexData
  <2>2. BlockItems' = BlockItems
    BY <2>1, BlockStays
  <2>3. ds' \in 1..(dataSources' + 1) /\ dataSources' \in 1..MaxDataSources
    BY <1>3, VisitsAppend, BirthsAppend, IndexAssumption DEF Handles, IndexData
  <2>4. bornAt' \in [1..dataSources' -> 0..Len(visits')]
    BY <1>3, VisitsAppend, BirthsAppend
  <2>5. visits' \in Seq(BlockItems' \X (1..MaxDataSources))
    BY <1>3, <2>2, VisitsAppend
  <2>. QED
    BY <1>1, <1>2, <2>1, <2>3, <2>4, <2>5 DEF ControlInv, TypeOK
<1>4. CASE Advances
  <2>1. UNCHANGED <<block, dataSources, visits, bornAt, outcome>> /\ ds' = 1 /\ LoopInv'
    BY <1>4 DEF Advances
  <2>2. BlockItems' = BlockItems
    BY <2>1, BlockStays
  <2>3. ds' \in 1..(dataSources' + 1)
    BY <2>1, IndexAssumption DEF ControlInv, TypeOK
  <2>. QED
    BY <1>1, <2>1, <2>2, <2>3 DEF ControlInv, TypeOK
<1>5. CASE Finish \/ Fail \/ UNCHANGED vars
  <2>1. /\ UNCHANGED <<block, dataSources, loop, tx, event, ds, visits, bornAt>>
        /\ outcome' \in {"indexed", "failed", outcome}
    BY <1>5 DEF Finish, Fail, vars
  <2>2. BlockItems' = BlockItems
    BY <2>1, BlockStays
  <2>. QED
    BY <1>1, <1>2, <2>1, <2>2 DEF ControlInv, TypeOK
<1>. QED
  BY <1>3, <1>4, <1>5, StepKinds

\* The block itself comes first.
LEMMA ControlInit ==
  ASSUME Init
  PROVE  ControlInv /\ Position = 1
<1>1. /\ transactions \in 0..MaxTransactions /\ transactions \in Nat
      /\ transactionEvents \in wrapTransactionEvents(transactions)
      /\ FlatMapped(transactionEvents)
      /\ specialEvents \in 0..MaxSpecialEvents
      /\ dataSources \in 1..MaxDataSources
  BY IndexAssumption DEF Init
<1>2. loop = "block" /\ tx = 1 /\ event = 1 /\ ds = 1 /\ visits = <<>> /\ outcome = "indexing"
  BY DEF Init
<1>3. ds \in 1..(dataSources + 1) /\ tx \in 1..(transactions + 1)
      /\ event \in 1..(MaxEvents + MaxSpecialEvents + 1)
  BY <1>1, <1>2, IndexAssumption
<1>4. bornAt \in [1..dataSources -> 0..Len(visits)]
  BY <1>2 DEF Init
<1>5. visits \in Seq(BlockItems \X (1..MaxDataSources))
  BY <1>2
<1>6. TypeOK
  BY <1>1, <1>2, <1>3, <1>4, <1>5 DEF TypeOK
<1>. QED
  BY <1>1, <1>2, <1>6, PositionNow DEF ControlInv, LoopInv

\* ControlInv is inductive.
THEOREM ControlInvariant == Spec => []ControlInv
<1>1. Init => ControlInv
  BY ControlInit
<1>2. ControlInv /\ [IndexBlockData]_vars => ControlInv'
  BY ControlStep
<1>. QED
  BY <1>1, <1>2, PTL DEF Spec

\* Type correctness of one call of indexBlockData.
THEOREM IndexBlockTypeCorrect == Spec => []TypeOK
<1>1. ControlInv => TypeOK
  BY DEF ControlInv
<1>. QED
  BY <1>1, ControlInvariant, PTL

------------------------------------------------------------------------------
(* The refinement of IndexOrder.                                           *)

\* While data sources are given an item the loops stay at it.
LEMMA HandlesStays ==
  ASSUME ControlInv, Handles
  PROVE  /\ Position' = Position /\ Items' = Items /\ BlockItems' = BlockItems
         /\ \A it : Place(it)' = Place(it)
<1>1. UNCHANGED block /\ loop' = loop /\ tx' = tx /\ event' = event
  BY DEF Handles, IndexData
<1>2. transactions' = transactions /\ transactionEvents' = transactionEvents
  BY <1>1 DEF block
<1>3. Position' = Position
  BY <1>1, <1>2, PositionNow, PositionNext DEF ControlInv, TypeOK
<1>. QED
  BY <1>1, <1>3, BlockStays

\* A call of indexData is Handle of IndexOrder.
LEMMA HandlesImplements ==
  ASSUME ControlInv, Handles
  PROVE  Order!Handle
<1>1. /\ outcome = "indexing" /\ outcome' = outcome
      /\ ds <= dataSources /\ ds' = ds + 1
      /\ visits' = Append(visits, <<CurrentItem, ds>>)
  BY DEF Handles, IndexData
<1>2. CurrentItem \in BlockItems /\ Place(CurrentItem) = Position
  BY CurrentItemOfBlock DEF Handles
<1>3. Position <= Len(Items) /\ Items[Position] = CurrentItem
  BY <1>2, PlaceTyped, ItemAtPlace
<1>. QED
  BY <1>1, <1>3, HandlesStays, BirthsAppend DEF Order!Handle

\* Any change of the item, in or between the loops, is Advance.
LEMMA AdvancesImplements ==
  ASSUME ControlInv, Advances
  PROVE  Order!Advance
<1>1. CurrentItem \in BlockItems /\ Place(CurrentItem) = Position
  BY CurrentItemOfBlock DEF Advances
<1>2. Position <= Len(Items)
  BY <1>1, PlaceTyped, ItemAtPlace
<1>. QED
  BY <1>2, BlockStays DEF Advances, Order!Advance

\* Returning and throwing are Finish and Fail.
LEMMA ReturnImplements ==
  ASSUME ControlInv, Finish \/ Fail \/ UNCHANGED vars
  PROVE  [Order!Next]_(Order!vars)
<1>1. UNCHANGED <<block, dataSources, loop, tx, event, ds, visits>>
  BY DEF Finish, Fail, vars
<1>2. transactions' = transactions /\ transactionEvents' = transactionEvents
  BY <1>1 DEF block
<1>3. Position' = Position /\ Items' = Items
  BY <1>1, <1>2, PositionNow, PositionNext, BlockStays DEF ControlInv, TypeOK
<1>4. CASE Finish
  <2>1. Order!Finish
    BY <1>1, <1>3, <1>4, PositionNow DEF Finish, Order!Finish
  <2>. QED
    BY <2>1 DEF Order!Next
<1>5. CASE Fail
  <2>1. Order!Fail
    BY <1>1, <1>3, <1>5 DEF Fail, Order!Fail
  <2>. QED
    BY <2>1 DEF Order!Next
<1>6. CASE UNCHANGED vars
  BY <1>1, <1>3, <1>6 DEF vars, Order!vars
<1>. QED
  BY <1>4, <1>5, <1>6

\* indexBlockData takes the items in chain order, hands each to all data sources in
\* their order before the next one, those created on the way included, and stops at
\* an error.
THEOREM IndexBlockImplementsOrder == Spec => ImplementsOrder
<1>1. Init => Order!Init
  BY ControlInit DEF Init, Order!Init
<1>2. ControlInv /\ [IndexBlockData]_vars => [Order!Next]_(Order!vars)
  BY StepKinds, HandlesImplements, AdvancesImplements, ReturnImplements DEF Order!Next
<1>. QED
  BY <1>1, <1>2, ControlInvariant, PTL DEF Spec, ImplementsOrder, Order!Spec

------------------------------------------------------------------------------
(* Every item once.                                                        *)

\* The item whose handler created data source d, the block for the first ones.
BirthItem(d) == visits[bornAt[d] + 1][1]

Visited(it, d) == \E k \in 1..Len(visits) : visits[k] = <<it, d>>

\* The loops have come past this item and data source.
Passed(it, d) == Place(it) < Position \/ (Place(it) = Position /\ d < ds)

\* The calls of indexData so far are those that the loops have come past, from the
\* item on at which the data source came into being; none was made twice.
VisitInv ==
  /\ \A k \in 1..Len(visits) : visits[k] \in BlockItems \X (1..dataSources)
  /\ \A j, k \in 1..Len(visits) : visits[j] = visits[k] => j = k
  /\ \A d \in 1..dataSources : bornAt[d] < Len(visits) \/ Len(visits) = 0
  /\ Len(visits) = 0 => Position = 1 /\ ds = 1
  /\ \A it \in BlockItems, d \in 1..dataSources :
       Visited(it, d) <=>
         Len(visits) # 0 /\ Place(BirthItem(d)) <= Place(it) /\ Passed(it, d)

\* Every place up to the present one is that of an item, and the loops end behind
\* the last one.
ReachInv ==
  /\ \A p \in 1..Position : p <= Size => \E it \in BlockItems : Place(it) = p
  /\ outcome = "indexed" => loop = "end"

IndexInv == ControlInv /\ VisitInv /\ ReachInv

\* Behind the last item there is nothing but the end.
LEMMA PositionTyped ==
  ASSUME ControlInv
  PROVE  /\ Position \in Nat /\ Position >= 1
         /\ loop # "end" => Position <= Size
         /\ loop = "end" => Position = Size + 1
<1>1. Size \in Nat /\ Len(Items) = Size
  <2>1. BlockItem \in BlockItems
    BY DEF BlockItems
  <2>. QED
    BY <2>1, PlaceTyped, ItemAtPlace
<1>2. CASE loop = "end"
  BY <1>1, <1>2, PositionNow
<1>3. CASE loop # "end"
  BY <1>1, <1>3, CurrentItemOfBlock, PlaceTyped
<1>. QED
  BY <1>2, <1>3

\* A data source came into being at an item that has been handed out.
LEMMA BirthTyped ==
  ASSUME ControlInv, VisitInv, NEW d \in 1..dataSources, Len(visits) # 0
  PROVE  /\ bornAt[d] + 1 \in 1..Len(visits)
         /\ BirthItem(d) \in BlockItems
         /\ Place(BirthItem(d)) <= Position
<1>1. Len(visits) \in Nat /\ bornAt[d] \in 0..Len(visits)
  BY DEF ControlInv, TypeOK
<1>2. bornAt[d] + 1 \in 1..Len(visits)
  BY <1>1 DEF VisitInv
<1>3. PICK it \in BlockItems, c \in 1..dataSources : visits[bornAt[d] + 1] = <<it, c>>
  BY <1>2 DEF VisitInv
<1>4. BirthItem(d) = it
  BY <1>3 DEF BirthItem
<1>5. Passed(it, c)
  BY <1>2, <1>3 DEF VisitInv, Visited
<1>6. Position \in Nat
  BY PositionTyped
<1>7. Place(it) \in Nat
  BY PlaceTyped
<1>. QED
  BY <1>2, <1>3, <1>4, <1>5, <1>6, <1>7 DEF Passed

\* A call of indexData is for the next data source, which has not had the item.
LEMMA HandlesVisits ==
  ASSUME ControlInv, VisitInv, Handles
  PROVE  VisitInv'
<1>. DEFINE x == CurrentItem
            L == Len(visits)
<1>1. x \in BlockItems /\ Place(x) = Position /\ Position \in Nat /\ 1 <= Position
  BY CurrentItemOfBlock, PositionTyped DEF Handles
<1>2. \A y \in BlockItems : /\ Place(y) \in Nat /\ 1 <= Place(y)
                            /\ Place(y) = Position => y = x
  BY <1>1, PlaceTyped, PlaceInjective
<1>3. /\ ds \in 1..dataSources /\ ds' = ds + 1 /\ dataSources \in Nat
      /\ L \in Nat /\ Len(visits') = L + 1
      /\ \A k \in 1..L : visits'[k] = visits[k]
      /\ visits'[L + 1] = <<x, ds>>
  BY VisitsAppend DEF Handles, IndexData
<1>4. Position' = Position /\ BlockItems' = BlockItems /\ \A it : Place(it)' = Place(it)
  BY HandlesStays
<1>5. /\ dataSources' \in Nat /\ dataSources <= dataSources'
      /\ \A d \in 1..dataSources : bornAt'[d] = bornAt[d] /\ bornAt[d] \in 0..L
      /\ \A d \in (dataSources + 1)..dataSources' : bornAt'[d] = L
  BY <1>3, BirthsAppend
<1>6. ~ Visited(x, ds)
  BY <1>1, <1>3 DEF VisitInv, Passed
<1>. HIDE DEF x, L
<1>7. \A it, d : Visited(it, d)' <=> Visited(it, d) \/ (it = x /\ d = ds)
  BY <1>3 DEF Visited, L
<1>8. \A k \in 1..Len(visits') : visits'[k] \in BlockItems' \X (1..dataSources')
  <2>1. \A k \in 1..L : visits'[k] \in BlockItems \X (1..dataSources)
    BY <1>3 DEF VisitInv, L
  <2>2. visits'[L + 1] \in BlockItems \X (1..dataSources)
    BY <1>1, <1>3
  <2>. QED
    BY <1>3, <1>4, <1>5, <2>1, <2>2
<1>9. \A j, k \in 1..Len(visits') : visits'[j] = visits'[k] => j = k
  <2>1. \A j, k \in 1..L : visits'[j] = visits'[k] => j = k
    BY <1>3 DEF VisitInv, L
  <2>2. \A k \in 1..L : visits'[k] # <<x, ds>>
    BY <1>3, <1>6 DEF Visited, L
  <2>. QED
    BY <1>3, <2>1, <2>2
<1>10. \A d \in 1..dataSources' : bornAt'[d] < Len(visits')
  BY <1>3, <1>5
<1>11. ASSUME NEW d \in 1..dataSources, L # 0
       PROVE  BirthItem(d)' = BirthItem(d)
  <2>1. bornAt[d] + 1 \in 1..L
    BY <1>11, BirthTyped DEF L
  <2>. QED
    BY <1>3, <1>5, <2>1 DEF BirthItem
<1>12. ASSUME NEW d \in 1..dataSources', L = 0 \/ d > dataSources
       PROVE  BirthItem(d)' = x
  <2>1. bornAt'[d] = L
    BY <1>3, <1>5, <1>12
  <2>. QED
    BY <1>3, <2>1 DEF BirthItem
<1>13. ASSUME NEW it \in BlockItems, NEW d \in 1..dataSources'
       PROVE  (Visited(it, d) <=> Place(BirthItem(d)) <= Place(it) /\ Passed(it, d))'
  <2>. DEFINE b == visits'[bornAt'[d] + 1][1]
  <2>1. /\ Place(it)' = Place(it)
        /\ Place(BirthItem(d))' = Place(b)
        /\ BirthItem(d)' = b
    BY <1>4 DEF BirthItem
  <2>. HIDE DEF b
  <2>2. Passed(it, d)' <=> Passed(it, d) \/ (it = x /\ d = ds)
    <3>1. Passed(it, d)' <=> Place(it) < Position \/ (Place(it) = Position /\ d < ds + 1)
      BY <1>3, <1>4 DEF Passed
    <3>2. Place(it) = Position <=> it = x
      BY <1>1, <1>2
    <3>3. d < ds + 1 <=> d < ds \/ d = ds
      <4>1. d \in Nat /\ ds \in Nat
        BY <1>3, <1>5, <1>13
      <4>. QED
        BY <4>1
    <3>. QED
      BY <3>1, <3>2, <3>3 DEF Passed
  <2>3. CASE L # 0 /\ d \in 1..dataSources
    <3>1. BirthItem(d)' = BirthItem(d) /\ BirthItem(d) \in BlockItems
      BY <1>11, <2>3, BirthTyped DEF L
    <3>2. d = ds => Place(BirthItem(d)) <= Position
      BY <2>3, BirthTyped DEF L
    <3>3. Visited(it, d) <=> Place(BirthItem(d)) <= Place(it) /\ Passed(it, d)
      BY <2>3 DEF VisitInv, L
    <3>. QED
      BY <1>1, <1>7, <2>1, <2>2, <3>1, <3>2, <3>3
  <2>4. CASE L = 0
    <3>1. BirthItem(d)' = x /\ Position = 1 /\ ds = 1 /\ ~ Visited(it, d)
      BY <1>12, <2>4 DEF VisitInv, Visited, L
    <3>2. ~ Passed(it, d)
      BY <1>2, <1>3, <1>5, <1>13, <3>1 DEF Passed
    <3>. QED
      BY <1>1, <1>2, <1>7, <2>1, <2>2, <3>1, <3>2
  <2>5. CASE d > dataSources
    <3>1. BirthItem(d)' = x /\ d # ds
      BY <1>3, <1>12, <2>5
    <3>2. ~ Visited(it, d)
      BY <1>3, <2>5 DEF VisitInv, Visited
    <3>3. ~ (Place(x) <= Place(it) /\ Passed(it, d))
      BY <1>1, <1>2, <1>3, <2>5 DEF Passed
    <3>. QED
      BY <1>7, <2>1, <2>2, <3>1, <3>2, <3>3
  <2>. QED
    BY <1>3, <1>5, <2>3, <2>4, <2>5
<1>. QED
  BY <1>3, <1>4, <1>8, <1>9, <1>10, <1>13 DEF VisitInv

\* An item is left when all data sources have been given it.
LEMMA AdvancesVisits ==
  ASSUME ControlInv, VisitInv, Advances
  PROVE  VisitInv'
<1>1. /\ ds > dataSources /\ ds' = 1 /\ Position' = Position + 1
      /\ dataSources' = dataSources /\ visits' = visits /\ bornAt' = bornAt
  BY DEF Advances
<1>2. BlockItems' = BlockItems /\ \A it : Place(it)' = Place(it)
  BY BlockStays DEF Advances
<1>3. Len(visits) # 0
  BY <1>1, IndexAssumption DEF VisitInv, ControlInv, TypeOK
<1>4. Position \in Nat /\ \A it \in BlockItems : Place(it) \in Nat
  BY PositionTyped, PlaceTyped
<1>5. dataSources \in Nat /\ ds \in Nat
  BY IndexAssumption DEF ControlInv, TypeOK
<1>6. ASSUME NEW it \in BlockItems, NEW d \in 1..dataSources
      PROVE  Passed(it, d)' <=> Passed(it, d)
  <2>1. Passed(it, d)' <=> Place(it) < Position + 1 \/ (Place(it) = Position + 1 /\ d < 1)
    BY <1>1, <1>2 DEF Passed
  <2>2. d < ds /\ ~ (d < 1)
    BY <1>1, <1>5
  <2>3. Place(it) < Position + 1 <=> Place(it) < Position \/ Place(it) = Position
    BY <1>4
  <2>. QED
    BY <2>1, <2>2, <2>3 DEF Passed
<1>7. ASSUME NEW it \in BlockItems, NEW d \in 1..dataSources
      PROVE  (Visited(it, d) <=>
                Len(visits) # 0 /\ Place(BirthItem(d)) <= Place(it) /\ Passed(it, d))'
  <2>1. Visited(it, d)' <=> Visited(it, d)
    BY <1>1 DEF Visited
  <2>2. Place(it)' = Place(it) /\ Place(BirthItem(d))' = Place(BirthItem(d))
    BY <1>1, <1>2 DEF BirthItem
  <2>. QED
    BY <1>1, <1>6, <2>1, <2>2 DEF VisitInv
<1>. QED
  BY <1>1, <1>2, <1>3, <1>7 DEF VisitInv

\* Returning and throwing call nothing.
LEMMA ReturnVisits ==
  ASSUME ControlInv, VisitInv, Finish \/ Fail \/ UNCHANGED vars
  PROVE  VisitInv'
<1>1. UNCHANGED <<block, dataSources, loop, tx, event, ds, visits, bornAt>>
  BY DEF Finish, Fail, vars
<1>2. transactions' = transactions /\ transactionEvents' = transactionEvents
  BY <1>1 DEF block
<1>3. Position' = Position
  BY <1>1, <1>2, PositionNow, PositionNext, BlockStays DEF ControlInv, TypeOK
<1>4. BlockItems' = BlockItems /\ \A it : Place(it)' = Place(it)
  BY <1>1, BlockStays
<1>5. ASSUME NEW it \in BlockItems, NEW d \in 1..dataSources
      PROVE  (Visited(it, d) <=>
                Len(visits) # 0 /\ Place(BirthItem(d)) <= Place(it) /\ Passed(it, d))'
  <2>1. (Visited(it, d)' <=> Visited(it, d)) /\ (Passed(it, d)' <=> Passed(it, d))
    BY <1>1, <1>3, <1>4 DEF Visited, Passed
  <2>2. Place(it)' = Place(it) /\ Place(BirthItem(d))' = Place(BirthItem(d))
    BY <1>1, <1>4 DEF BirthItem
  <2>. QED
    BY <1>1, <2>1, <2>2 DEF VisitInv
<1>. QED
  BY <1>1, <1>3, <1>4, <1>5 DEF VisitInv

\* The present place is that of an item, or behind the last one.
PlaceFilled ==
  /\ Position \in Nat
  /\ Position <= Size => \E it \in BlockItems : Place(it) = Position

\* The loops are at an item until they end.
LEMMA PlaceIsFilled ==
  ASSUME ControlInv
  PROVE  PlaceFilled
<1>1. Position \in Nat /\ (loop = "end" => Position = Size + 1) /\ Size \in Nat
  <2>1. BlockItem \in BlockItems
    BY DEF BlockItems
  <2>. QED
    BY <2>1, PositionTyped, PlaceTyped
<1>2. CASE loop = "end"
  BY <1>1, <1>2 DEF PlaceFilled
<1>3. CASE loop # "end"
  BY <1>1, <1>3, CurrentItemOfBlock DEF PlaceFilled
<1>. QED
  BY <1>2, <1>3

\* No place is jumped over.
LEMMA ReachStep ==
  ASSUME ControlInv, ReachInv, PlaceFilled, PlaceFilled', [IndexBlockData]_vars
  PROVE  ReachInv'
<1>1. UNCHANGED block
  BY StepKinds DEF Handles, IndexData, Advances, Finish, Fail, vars
<1>2. Size' = Size /\ BlockItems' = BlockItems /\ \A it : Place(it)' = Place(it)
  BY <1>1, BlockStays DEF Size, block
<1>3. Position' = Position \/ Position' = Position + 1
  <2>1. CASE Handles
    BY <2>1, HandlesStays
  <2>2. CASE Advances
    BY <2>2 DEF Advances
  <2>3. CASE UNCHANGED <<block, loop, tx, event>>
    BY <1>1, <2>3, PositionNow, PositionNext, BlockStays DEF ControlInv, TypeOK, block
  <2>. QED
    BY <2>1, <2>2, <2>3, StepKinds DEF Finish, Fail, vars
<1>4. outcome' = "indexed" => loop' = "end"
  BY StepKinds DEF ReachInv, Handles, IndexData, Advances, Finish, Fail, vars
<1>5. ASSUME NEW p \in 1..Position', p <= Size
      PROVE  \E it \in BlockItems : Place(it) = p
  <2>1. p \in 1..Position \/ p = Position'
    BY <1>3 DEF PlaceFilled
  <2>2. CASE p = Position'
    BY <1>2, <1>5, <2>2 DEF PlaceFilled
  <2>. QED
    BY <1>5, <2>1, <2>2 DEF ReachInv
<1>. QED
  BY <1>2, <1>4, <1>5 DEF ReachInv

\* The visits are those that the loops have come past, as an invariant of Spec.
THEOREM IndexInvariant == Spec => []IndexInv
<1>1. Init => VisitInv /\ ReachInv
  <2>. SUFFICES ASSUME Init PROVE VisitInv /\ ReachInv
    OBVIOUS
  <2>1. ControlInv /\ Position = 1 /\ ds = 1 /\ Len(visits) = 0 /\ outcome = "indexing"
    BY ControlInit DEF Init
  <2>2. PlaceFilled
    BY <2>1, PlaceIsFilled
  <2>3. ReachInv
    BY <2>1, <2>2 DEF ReachInv, PlaceFilled
  <2>4. VisitInv
    BY <2>1 DEF VisitInv, Visited
  <2>. QED
    BY <2>3, <2>4
<1>2. ControlInv /\ VisitInv /\ [IndexBlockData]_vars => VisitInv'
  BY StepKinds, HandlesVisits, AdvancesVisits, ReturnVisits
<1>3. ControlInv => PlaceFilled
  BY PlaceIsFilled
<1>4. ControlInv /\ ReachInv /\ PlaceFilled /\ PlaceFilled' /\ [IndexBlockData]_vars => ReachInv'
  BY ReachStep
<1>5. IndexInv <=> ControlInv /\ VisitInv /\ ReachInv
  BY DEF IndexInv
<1>. QED
  BY <1>1, <1>2, <1>3, <1>4, <1>5, ControlInvariant, PTL DEF Spec

\* Once indexBlockData has returned, a data source has been given exactly the items
\* from the one on at which it came into being, each of them once.
THEOREM EveryItemVisitedOnce == Spec => []EveryItemOnce
<1>1. ASSUME IndexInv PROVE EveryItemOnce
  <2>. SUFFICES ASSUME outcome = "indexed", NEW d \in 1..dataSources, NEW p \in 1..Len(Items)
                PROVE  Cardinality({n \in 1..Len(visits) : visits[n] = <<Items[p], d>>}) =
                         IF \E q \in 1..p : Items[q] = visits[bornAt[d] + 1][1] THEN 1 ELSE 0
    BY DEF EveryItemOnce
  <2>. DEFINE calls == {n \in 1..Len(visits) : visits[n] = <<Items[p], d>>}
  <2>1. ControlInv /\ VisitInv /\ ReachInv
    BY <1>1 DEF IndexInv
  <2>2. /\ Position = Size + 1 /\ Size \in Nat /\ Len(Items) = Size
    <3>1. BlockItem \in BlockItems
      BY DEF BlockItems
    <3>. QED
      BY <2>1, <3>1, PositionTyped, PlaceTyped, ItemAtPlace DEF ReachInv
  <2>3. \A q \in 1..Size : \E it \in BlockItems : Place(it) = q /\ Items[q] = it
    BY <2>1, <2>2, ItemAtPlace DEF ReachInv
  <2>4. PICK it \in BlockItems : Place(it) = p /\ Items[p] = it
    BY <2>2, <2>3
  <2>5. \A other \in BlockItems : Place(other) \in 1..Size
    BY <2>1, PlaceTyped
  <2>6. Len(visits) # 0
    BY <2>1, <2>2, <2>4, <2>5 DEF VisitInv
  <2>7. BirthItem(d) \in BlockItems
    BY <2>1, <2>6, BirthTyped
  <2>8. (\E q \in 1..p : Items[q] = BirthItem(d)) <=> Place(BirthItem(d)) <= p
    <3>1. ASSUME NEW q \in 1..p, Items[q] = BirthItem(d)
          PROVE  Place(BirthItem(d)) <= p
      <4>1. q \in 1..Size
        BY <2>2
      <4>2. Place(BirthItem(d)) = q
        BY <2>3, <3>1, <4>1
      <4>. QED
        BY <4>2
    <3>2. ASSUME Place(BirthItem(d)) <= p
          PROVE  \E q \in 1..p : Items[q] = BirthItem(d)
      <4>1. Items[Place(BirthItem(d))] = BirthItem(d)
        BY <2>1, <2>7, ItemAtPlace
      <4>2. Place(BirthItem(d)) \in 1..p
        BY <2>2, <2>5, <2>7, <3>2
      <4>. QED
        BY <4>1, <4>2
    <3>. QED
      BY <3>1, <3>2
  <2>9. Passed(it, d)
    BY <2>2, <2>4, <2>5 DEF Passed
  <2>10. Visited(it, d) <=> Place(BirthItem(d)) <= p
    BY <2>1, <2>4, <2>6, <2>9 DEF VisitInv
  <2>11. CASE Visited(it, d)
    <3>1. PICK k \in 1..Len(visits) : visits[k] = <<it, d>>
      BY <2>11 DEF Visited
    <3>2. calls = {k}
      BY <2>1, <2>4, <3>1 DEF VisitInv
    <3>3. Cardinality(calls) = 1
      BY <3>2, FS_Singleton
    <3>. QED
      BY <2>8, <2>10, <2>11, <3>3 DEF BirthItem
  <2>12. CASE ~ Visited(it, d)
    <3>1. calls = {}
      BY <2>4, <2>12 DEF Visited
    <3>2. Cardinality(calls) = 0
      BY <3>1, FS_EmptySet
    <3>. QED
      BY <2>8, <2>10, <2>12, <3>2 DEF BirthItem
  <2>. QED
    BY <2>11, <2>12
<1>. QED
  BY <1>1, IndexInvariant, PTL

==============================================================================
