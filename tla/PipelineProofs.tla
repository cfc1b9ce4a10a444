--------------------------- MODULE PipelineProofs ----------------------------
(***************************************************************************)
(* The pipeline implements IndexedChain, for any heights, data sources,    *)
(* queue size and number of crashes.                                       *)
(*                                                                         *)
(* QueueComplete is not inductive: that a height wanted is in the queue    *)
(* follows from the lookup that was enqueued, which asked for what the     *)
(* data sources known then wanted; those are the data sources there are,   *)
(* because a block that creates one makes the lookup in flight stale.      *)
(***************************************************************************)
EXTENDS Pipeline, FiniteSetTheorems, TLAPS

\* The fetch loop asks for the data sources that the indexed blocks have made.
KnownSources == known = dataSources /\ dataSources = Sources(indexed)

\* A lookup that is not stale goes on where the fetch loop is and misses
\* nothing that the data sources want.
QueryCovers ==
  query.active /\ ~query.stale =>
    /\ query.from = enqueuedTo + 1
    /\ query.heights \subseteq query.from..query.to
    /\ \A h \in query.from..query.to : Wanted(h, dataSources) => h \in query.heights

\* The queue is ahead of what is indexed.
QueueAhead ==
  /\ LastHeight(indexed) <= enqueuedTo
  /\ queue \subseteq (LastHeight(indexed) + 1)..enqueuedTo

\* The block being indexed is the lowest of the queue, with the data sources
\* there are.
ProcessesLowest ==
  processing.active =>
    /\ processing.height \in queue
    /\ \A k \in queue : processing.height <= k
    /\ processing.seen = dataSources

\* The database holds the first of the blocks indexed.
StoredPrefix ==
  /\ Len(stored) <= Len(indexed)
  /\ \A i \in 1..Len(stored) : stored[i] = indexed[i]

PipelineInv ==
  /\ TypeOK
  /\ KnownSources
  /\ QueryCovers
  /\ QueueAhead
  /\ ProcessesLowest
  /\ QueueComplete
  /\ StoredPrefix

------------------------------------------------------------------------------

\* The height and the data sources after one more block.
LEMMA LastOfAppend ==
  ASSUME NEW l \in Seq(Entries), NEW e \in Entries
  PROVE  /\ Append(l, e) \in Seq(Entries)
         /\ LastHeight(Append(l, e)) = e.height
         /\ Sources(Append(l, e)) = Sources(l) \cup e.created
<1> DEFINE m == Append(l, e)
<1>1. m \in Seq(Entries) /\ Len(m) = Len(l) + 1 /\ m[Len(m)] = e /\ m # <<>>
  OBVIOUS
<1>2. \A i \in 1..Len(l) : m[i] = l[i]
  OBVIOUS
<1>3. DOMAIN m = (DOMAIN l) \cup {Len(l) + 1} /\ DOMAIN l = 1..Len(l)
  OBVIOUS
<1>4. UNION {m[i].created : i \in DOMAIN m}
        = (UNION {l[i].created : i \in DOMAIN l}) \cup e.created
  BY <1>1, <1>2, <1>3
<1>. QED
  BY <1>1, <1>4 DEF LastHeight, Sources

\* The height of the last block is a height of the chain.
LEMMA LastHeightType ==
  ASSUME NEW l \in Seq(Entries)
  PROVE  LastHeight(l) \in 0..MaxHeight /\ Sources(l) \subseteq DataSources
<1>1. CASE l = <<>>
  BY <1>1, PipelineAssumption DEF LastHeight, Sources
<1>2. CASE l # <<>>
  <2>1. Len(l) \in DOMAIN l /\ \A i \in DOMAIN l : l[i] \in Entries
    BY <1>2
  <2>2. l[Len(l)].height \in 1..MaxHeight
    BY <2>1 DEF Entries
  <2>3. \A i \in DOMAIN l : l[i].created \subseteq DataSources
    BY <2>1 DEF Entries
  <2>. QED
    BY <1>2, <2>2, <2>3, PipelineAssumption DEF LastHeight, Sources
<1>. QED
  BY <1>1, <1>2

\* Taking heights out of the queue leaves no more of them.
LEMMA FewerQueued ==
  ASSUME TypeOK, NEW q \in SUBSET queue
  PROVE  Cardinality(q) <= QueueSize
<1>1. IsFiniteSet(queue)
  <2>1. IsFiniteSet(1..MaxHeight)
    BY FS_Interval, PipelineAssumption
  <2>2. queue \subseteq 1..MaxHeight
    BY DEF TypeOK
  <2>. QED
    BY <2>1, <2>2, FS_Subset
<1>2. Cardinality(q) <= Cardinality(queue) /\ Cardinality(q) \in Nat /\ Cardinality(queue) \in Nat
  BY <1>1, FS_Subset, FS_CardinalityType
<1>. QED
  BY <1>2, PipelineAssumption DEF TypeOK

------------------------------------------------------------------------------

LEMMA InitEstablishes == Init => PipelineInv
<1> SUFFICES ASSUME Init PROVE PipelineInv
  OBVIOUS
<1>1. TypeOK
  <2>1. Cardinality(queue) <= QueueSize
    BY FS_EmptySet, PipelineAssumption DEF Init
  <2>2. indexed \in Seq(Entries) /\ stored \in Seq(Entries)
    BY DEF Init
  <2>3. query \in [active : BOOLEAN, stale : BOOLEAN, from : 0..MaxHeight,
                   to : 0..MaxHeight, heights : SUBSET (1..MaxHeight)]
    BY PipelineAssumption DEF Init, NoQuery
  <2>4. processing \in [active : BOOLEAN, height : 0..MaxHeight, seen : SUBSET DataSources]
    BY PipelineAssumption DEF Init, NotProcessing
  <2>. QED
    BY <2>1, <2>2, <2>3, <2>4, PipelineAssumption DEF Init, TypeOK
<1>2. KnownSources /\ LastHeight(indexed) = 0
  BY DEF Init, KnownSources, Sources, LastHeight
<1>3. QueryCovers /\ ProcessesLowest
  BY DEF Init, QueryCovers, ProcessesLowest, NoQuery, NotProcessing
<1>4. QueueAhead /\ QueueComplete /\ StoredPrefix
  BY <1>2 DEF Init, QueueAhead, QueueComplete, StoredPrefix
<1>. QED
  BY <1>1, <1>2, <1>3, <1>4 DEF PipelineInv

LEMMA UpdateFinalizedPreserves ==
  ASSUME PipelineInv, UpdateFinalized
  PROVE  PipelineInv'
<1>1. finalized' \in 0..MaxHeight
  BY PipelineAssumption DEF UpdateFinalized, UpdateFinalizedTo, PipelineInv, TypeOK
<1>2. UNCHANGED <<known, enqueuedTo, query, queue, fetched, processing, dataSources, atStart,
                  indexed, stored, workers, crashes>>
  BY DEF UpdateFinalized, UpdateFinalizedTo, dispatchVars, runVars
<1>. QED
  BY <1>1, <1>2 DEF PipelineInv, TypeOK, KnownSources, QueryCovers, QueueAhead,
     ProcessesLowest, QueueComplete, StoredPrefix, Wanted, LastHeight, Sources

\* The lookup asks for every height that the data sources there are want.
LEMMA LookUpPreserves ==
  ASSUME PipelineInv, LookUp
  PROVE  PipelineInv'
<1>1. UNCHANGED <<finalized, known, enqueuedTo, queue, fetched, processing, dataSources,
                  atStart, indexed, stored, workers, crashes>>
  BY DEF LookUp, dispatchVars, runVars
<1>2. PICK heights \in {{h \in (enqueuedTo + 1)..finalized : Wanted(h, known)},
                        (enqueuedTo + 1)..finalized} :
        query' = [active |-> TRUE, stale |-> FALSE, from |-> enqueuedTo + 1,
                  to |-> finalized, heights |-> heights]
  BY DEF LookUp
<1>3. enqueuedTo \in 0..MaxHeight /\ finalized \in 0..MaxHeight /\ enqueuedTo < finalized
  BY DEF PipelineInv, TypeOK, LookUp
<1>4. heights \subseteq (enqueuedTo + 1)..finalized /\ heights \subseteq 1..MaxHeight
  BY <1>2, <1>3, PipelineAssumption
<1>5. query' \in [active : BOOLEAN, stale : BOOLEAN, from : 0..MaxHeight, to : 0..MaxHeight,
                  heights : SUBSET (1..MaxHeight)]
  BY <1>2, <1>3, <1>4, PipelineAssumption
<1>6. QueryCovers'
  <2>1. known = dataSources
    BY DEF PipelineInv, KnownSources
  <2>2. \A h \in (enqueuedTo + 1)..finalized : Wanted(h, dataSources) => h \in heights
    BY <1>2, <2>1
  <2>. QED
    BY <1>1, <1>2, <1>4, <2>2 DEF QueryCovers, Wanted
<1>7. TypeOK'
  BY <1>1, <1>5 DEF PipelineInv, TypeOK
<1>8. KnownSources' /\ QueueAhead' /\ ProcessesLowest' /\ QueueComplete' /\ StoredPrefix'
  BY <1>1 DEF PipelineInv, KnownSources, QueueAhead, ProcessesLowest, QueueComplete,
     StoredPrefix, Wanted, LastHeight, Sources
<1>. QED
  BY <1>6, <1>7, <1>8 DEF PipelineInv

\* What is enqueued goes on where the queue ended and leaves out nothing wanted.
LEMMA EnqueuePreserves ==
  ASSUME PipelineInv, Enqueue
  PROVE  PipelineInv'
<1>1. UNCHANGED <<finalized, known, fetched, processing, dataSources, atStart, indexed,
                  stored, workers, crashes>>
  BY DEF Enqueue, runVars
<1>2. PICK to \in query.from..query.to :
        Slice(to) /\ queue' = queue \cup Batch(to) /\ enqueuedTo' = to
  BY DEF Enqueue
<1>3. /\ query.active /\ ~query.stale
      /\ query' = [active |-> FALSE, stale |-> FALSE, from |-> 0, to |-> 0, heights |-> {}]
  BY DEF Enqueue, NoQuery
<1>4. /\ query.from = enqueuedTo + 1
      /\ query.heights \subseteq query.from..query.to
      /\ \A h \in query.from..query.to : Wanted(h, dataSources) => h \in query.heights
  BY <1>3 DEF PipelineInv, QueryCovers
<1>5. /\ enqueuedTo \in 0..MaxHeight /\ query.to \in 0..MaxHeight
      /\ query.heights \subseteq 1..MaxHeight
      /\ queue \subseteq 1..MaxHeight /\ fetched \subseteq queue
  BY DEF PipelineInv, TypeOK
<1>6. to \in 1..MaxHeight /\ enqueuedTo < to
  BY <1>2, <1>4, <1>5, PipelineAssumption
<1>7. /\ Batch(to) \subseteq (enqueuedTo + 1)..to
      /\ Batch(to) \subseteq 1..MaxHeight
  BY <1>2, <1>4, <1>5, <1>6, PipelineAssumption DEF Batch
<1>8. LastHeight(indexed) \in 0..MaxHeight
  BY LastHeightType DEF PipelineInv, TypeOK
<1>9. LastHeight(indexed) <= enqueuedTo /\ queue \subseteq (LastHeight(indexed) + 1)..enqueuedTo
  BY DEF PipelineInv, QueueAhead
<1>10. TypeOK'
  <2>1. Cardinality(queue') <= QueueSize
    <3>1. Cardinality(queue') = QueueSize \/ Cardinality(queue') <= QueueSize
      BY <1>2 DEF Slice
    <3>. QED
      BY <3>1, PipelineAssumption
  <2>2. query' \in [active : BOOLEAN, stale : BOOLEAN, from : 0..MaxHeight,
                    to : 0..MaxHeight, heights : SUBSET (1..MaxHeight)]
    BY <1>3, PipelineAssumption
  <2>3. enqueuedTo' \in 0..MaxHeight /\ queue' \subseteq 1..MaxHeight /\ fetched' \subseteq queue'
    <3>1. enqueuedTo' \in 0..MaxHeight
      BY <1>2, <1>6
    <3>2. queue' \subseteq 1..MaxHeight
      BY <1>2, <1>5, <1>7
    <3>3. fetched' \subseteq queue'
      BY <1>1, <1>2, <1>5
    <3>. QED
      BY <3>1, <3>2, <3>3
  <2>. QED
    BY <1>1, <2>1, <2>2, <2>3 DEF PipelineInv, TypeOK
<1>11. QueryCovers'
  BY <1>3 DEF QueryCovers
<1>12. QueueAhead'
  <2> DEFINE last == LastHeight(indexed)
  <2>1. last \in Int /\ enqueuedTo \in Int /\ to \in Int /\ last <= enqueuedTo /\ enqueuedTo < to
    BY <1>5, <1>6, <1>8, <1>9, PipelineAssumption
  <2>2. \A k \in (last + 1)..enqueuedTo : k \in (last + 1)..to
    BY <2>1
  <2>3. \A k \in (enqueuedTo + 1)..to : k \in (last + 1)..to
    BY <2>1
  <2>4. \A k \in queue' : k \in (last + 1)..to
    BY <1>2, <1>7, <1>9, <2>2, <2>3, Zenon
  <2>5. queue' \subseteq (last + 1)..to /\ last <= to
    BY <2>1, <2>4
  <2>. QED
    BY <1>1, <1>2, <2>5 DEF QueueAhead, LastHeight
<1>13. ProcessesLowest'
  <2>1. ASSUME processing.active, NEW k \in Batch(to) PROVE processing.height <= k
    <3>1. processing.height \in queue
      BY <2>1 DEF PipelineInv, ProcessesLowest
    <3>2. processing.height <= enqueuedTo /\ processing.height \in Int
      <4>1. processing.height \in (LastHeight(indexed) + 1)..enqueuedTo
        BY <1>9, <3>1
      <4>. QED
        BY <1>5, <1>8, <4>1, PipelineAssumption
    <3>3. k \in Int /\ enqueuedTo + 1 <= k
      BY <1>5, <1>7, PipelineAssumption
    <3>. QED
      BY <1>5, <3>2, <3>3
  <2>. QED
    BY <1>1, <1>2, <2>1 DEF PipelineInv, ProcessesLowest
<1>14. QueueComplete'
  <2>1. ASSUME NEW h \in (LastHeight(indexed) + 1)..to, Wanted(h, dataSources)
        PROVE  h \in queue \cup Batch(to)
    <3>1. CASE h <= enqueuedTo
      BY <1>5, <1>8, <2>1, <3>1 DEF PipelineInv, QueueComplete
    <3>2. CASE ~(h <= enqueuedTo)
      <4>1. h \in query.from..query.to
        BY <1>2, <1>4, <1>5, <1>6, <1>8, <3>2, PipelineAssumption
      <4>2. h \in query.heights /\ h <= to
        BY <1>4, <1>6, <1>8, <2>1, <4>1
      <4>. QED
        BY <4>2 DEF Batch
    <3>. QED
      BY <3>1, <3>2
  <2>. QED
    BY <1>1, <1>2, <2>1 DEF QueueComplete, LastHeight, Wanted
<1>. QED
  BY <1>1, <1>10, <1>11, <1>12, <1>13, <1>14 DEF PipelineInv, KnownSources, Sources,
     StoredPrefix

LEMMA DiscardPreserves ==
  ASSUME PipelineInv, Discard
  PROVE  PipelineInv'
<1>1. UNCHANGED <<finalized, known, enqueuedTo, queue, fetched, processing, dataSources,
                  atStart, indexed, stored, workers, crashes>>
  BY DEF Discard, dispatchVars, runVars
<1>2. query' = [active |-> FALSE, stale |-> FALSE, from |-> 0, to |-> 0, heights |-> {}]
  BY DEF Discard, NoQuery
<1>3. QueryCovers' /\ query' \in [active : BOOLEAN, stale : BOOLEAN, from : 0..MaxHeight,
                                  to : 0..MaxHeight, heights : SUBSET (1..MaxHeight)]
  BY <1>2, PipelineAssumption DEF QueryCovers
<1>4. TypeOK'
  BY <1>1, <1>3 DEF PipelineInv, TypeOK
<1>5. KnownSources' /\ QueueAhead' /\ ProcessesLowest' /\ QueueComplete' /\ StoredPrefix'
  BY <1>1 DEF PipelineInv, KnownSources, QueueAhead, ProcessesLowest, QueueComplete,
     StoredPrefix, Wanted, LastHeight, Sources
<1>. QED
  BY <1>3, <1>4, <1>5 DEF PipelineInv

LEMMA FetchPreserves ==
  ASSUME PipelineInv, NEW h \in 1..MaxHeight, FetchBlock(h)
  PROVE  PipelineInv'
<1>1. UNCHANGED <<finalized, known, enqueuedTo, query, queue, processing, dataSources,
                  atStart, indexed, stored, workers, crashes>>
  BY DEF FetchBlock, fetchVars, runVars
<1>2. fetched' \subseteq queue
  BY DEF FetchBlock, PipelineInv, TypeOK
<1>3. TypeOK'
  BY <1>1, <1>2 DEF PipelineInv, TypeOK
<1>. QED
  BY <1>1, <1>3 DEF PipelineInv, KnownSources, QueryCovers, QueueAhead, ProcessesLowest,
     QueueComplete, StoredPrefix, Wanted, LastHeight, Sources

LEMMA ProcessPreserves ==
  ASSUME PipelineInv, NEW h \in 1..MaxHeight, Process(h)
  PROVE  PipelineInv'
<1>1. UNCHANGED <<finalized, known, enqueuedTo, query, queue, fetched, dataSources,
                  atStart, indexed, stored, workers, crashes>>
  BY DEF Process, fetchVars, runVars
<1>2. processing' = [active |-> TRUE, height |-> h, seen |-> dataSources]
  BY DEF Process, GetDataSources
<1>3. processing' \in [active : BOOLEAN, height : 0..MaxHeight, seen : SUBSET DataSources]
  BY <1>2 DEF PipelineInv, TypeOK
<1>4. TypeOK'
  BY <1>1, <1>3 DEF PipelineInv, TypeOK
<1>5. ProcessesLowest'
  BY <1>1, <1>2 DEF Process, ProcessesLowest
<1>. QED
  BY <1>1, <1>4, <1>5 DEF PipelineInv, KnownSources, QueryCovers, QueueAhead,
     QueueComplete, StoredPrefix, Wanted, LastHeight, Sources

\* What the log gains when a block has been indexed.
LEMMA IndexedEntry ==
  ASSUME PipelineInv, NEW created \in SUBSET DataSources, IndexBlock(created)
  PROVE  LET e == [height |-> processing.height, seen |-> processing.seen,
                   created |-> created]
         IN /\ e \in Entries
            /\ indexed' = Append(indexed, e)
            /\ processing.height \in queue
            /\ \A k \in queue : processing.height <= k
            /\ processing.seen = Sources(indexed)
            /\ LastHeight(indexed') = processing.height
            /\ Sources(indexed') = Sources(indexed) \cup created
<1> DEFINE e == [height |-> processing.height, seen |-> processing.seen, created |-> created]
<1>1. /\ processing.height \in queue
      /\ \A k \in queue : processing.height <= k
      /\ processing.seen = dataSources
  BY DEF IndexBlock, PipelineInv, ProcessesLowest
<1>2. processing.height \in 1..MaxHeight /\ dataSources \subseteq DataSources
      /\ indexed \in Seq(Entries)
  BY <1>1 DEF PipelineInv, TypeOK
<1>3. e \in Entries
  BY <1>1, <1>2 DEF Entries
<1>4. indexed' = Append(indexed, e)
  BY DEF IndexBlock
<1>5. LastHeight(indexed') = e.height /\ Sources(indexed') = Sources(indexed) \cup e.created
  BY <1>2, <1>3, <1>4, LastOfAppend
<1>6. dataSources = Sources(indexed)
  BY DEF PipelineInv, KnownSources
<1>. QED
  BY <1>1, <1>3, <1>4, <1>5, <1>6

LEMMA IndexPreserves ==
  ASSUME PipelineInv, NEW created \in SUBSET DataSources, IndexBlock(created)
  PROVE  PipelineInv'
<1> DEFINE p == processing.height
<1> DEFINE e == [height |-> p, seen |-> processing.seen, created |-> created]
<1>1. UNCHANGED <<finalized, atStart, stored, workers, crashes>>
  BY DEF IndexBlock, runVars
<1>2. /\ e \in Entries /\ indexed' = Append(indexed, e)
      /\ p \in queue /\ \A k \in queue : p <= k
      /\ LastHeight(indexed') = p /\ Sources(indexed') = Sources(indexed) \cup created
  BY IndexedEntry
<1>3. dataSources' = dataSources \cup created /\ Reset(created)
      /\ processing' = [active |-> FALSE, height |-> 0, seen |-> {}]
  BY DEF IndexBlock, NotProcessing
<1>4. /\ enqueuedTo \in 0..MaxHeight /\ queue \subseteq 1..MaxHeight /\ fetched \subseteq queue
      /\ dataSources \subseteq DataSources /\ indexed \in Seq(Entries)
      /\ known = dataSources /\ dataSources = Sources(indexed)
      /\ queue \subseteq (LastHeight(indexed) + 1)..enqueuedTo
  BY DEF PipelineInv, TypeOK, KnownSources, QueueAhead
<1>5. p \in 1..MaxHeight /\ LastHeight(indexed) \in 0..MaxHeight /\ indexed' \in Seq(Entries)
  BY <1>2, <1>4, LastHeightType, LastOfAppend
<1>6. LastHeight(indexed) + 1 <= p /\ p <= enqueuedTo
  <2>1. p \in (LastHeight(indexed) + 1)..enqueuedTo
    BY <1>2, <1>4
  <2>. QED
    BY <1>4, <1>5, <2>1, PipelineAssumption
<1>7. StoredPrefix'
  <2>1. Len(indexed') = Len(indexed) + 1 /\ \A i \in 1..Len(indexed) : indexed'[i] = indexed[i]
    BY <1>2, <1>4
  <2>2. Len(stored) \in Nat /\ Len(indexed) \in Nat
    BY DEF PipelineInv, TypeOK
  <2>. QED
    BY <1>1, <2>1, <2>2 DEF PipelineInv, StoredPrefix
<1>8. processing' \in [active : BOOLEAN, height : 0..MaxHeight, seen : SUBSET DataSources]
      /\ ProcessesLowest'
  BY <1>3, PipelineAssumption DEF ProcessesLowest
<1>9. CASE created = {}
  <2>1. /\ queue' = queue \ {p} /\ fetched' = fetched \ {p}
        /\ UNCHANGED <<enqueuedTo, known, query>>
    BY <1>3, <1>9 DEF Reset
  <2>2. dataSources' = dataSources
    BY <1>3, <1>9
  <2>3. TypeOK'
    <3>1. Cardinality(queue') <= QueueSize
      BY <2>1, FewerQueued DEF PipelineInv
    <3>2. queue' \subseteq 1..MaxHeight /\ fetched' \subseteq queue'
      BY <1>4, <2>1
    <3>. QED
      BY <1>1, <1>5, <1>8, <2>1, <2>2, <3>1, <3>2 DEF PipelineInv, TypeOK
  <2>4. KnownSources'
    <3>1. Sources(indexed') = Sources(indexed)
      BY <1>2, <1>9
    <3>2. Sources(indexed)' = Sources(indexed')
      BY DEF Sources
    <3>. QED
      BY <1>4, <2>1, <2>2, <3>1, <3>2 DEF KnownSources
  <2>5. QueryCovers'
    BY <2>1, <2>2 DEF PipelineInv, QueryCovers, Wanted
  <2>6. LastHeight(indexed)' = p
    BY <1>2 DEF LastHeight
  <2>7. QueueAhead'
    <3>1. \A k \in queue' : k \in (p + 1)..enqueuedTo
      <4>1. SUFFICES ASSUME NEW k \in queue' PROVE k \in (p + 1)..enqueuedTo
        OBVIOUS
      <4>2. k \in queue /\ k # p /\ p <= k
        BY <1>2, <2>1
      <4>3. k \in (LastHeight(indexed) + 1)..enqueuedTo
        BY <1>4, <4>2
      <4>. QED
        BY <1>4, <1>5, <4>2, <4>3, PipelineAssumption
    <3>. QED
      BY <1>6, <2>1, <2>6, <3>1 DEF QueueAhead
  <2>8. QueueComplete'
    <3>1. ASSUME NEW h \in (p + 1)..enqueuedTo, Wanted(h, dataSources)
          PROVE  h \in queue \ {p}
      <4>1. h \in (LastHeight(indexed) + 1)..enqueuedTo /\ h # p
        BY <1>4, <1>5, <1>6, PipelineAssumption
      <4>. QED
        BY <3>1, <4>1 DEF PipelineInv, QueueComplete
    <3>. QED
      BY <2>1, <2>2, <2>6, <3>1 DEF QueueComplete, Wanted
  <2>. QED
    BY <1>7, <1>8, <2>3, <2>4, <2>5, <2>7, <2>8 DEF PipelineInv
<1>10. CASE created # {}
  <2>1. /\ queue' = {} /\ fetched' = {} /\ enqueuedTo' = p /\ known' = dataSources'
        /\ query' = [query EXCEPT !.stale = query.active]
    BY <1>3, <1>10 DEF Reset
  <2>2. query' \in [active : BOOLEAN, stale : BOOLEAN, from : 0..MaxHeight,
                    to : 0..MaxHeight, heights : SUBSET (1..MaxHeight)]
        /\ QueryCovers'
    BY <2>1 DEF PipelineInv, TypeOK, QueryCovers
  <2>3. TypeOK'
    <3>1. Cardinality(queue') <= QueueSize
      BY <2>1, FS_EmptySet, PipelineAssumption
    <3>2. dataSources' \subseteq DataSources /\ known' \subseteq DataSources
      BY <1>3, <1>4, <2>1
    <3>3. enqueuedTo' \in 0..MaxHeight
      BY <1>5, <2>1
    <3>. QED
      BY <1>1, <1>5, <1>8, <2>1, <2>2, <3>1, <3>2, <3>3 DEF PipelineInv, TypeOK
  <2>4. KnownSources'
    <3>1. Sources(indexed)' = Sources(indexed')
      BY DEF Sources
    <3>. QED
      BY <1>2, <1>3, <1>4, <2>1, <3>1 DEF KnownSources
  <2>5. LastHeight(indexed)' = p
    BY <1>2 DEF LastHeight
  <2>6. QueueAhead' /\ QueueComplete'
    BY <1>5, <2>1, <2>5 DEF QueueAhead, QueueComplete
  <2>. QED
    BY <1>7, <1>8, <2>2, <2>3, <2>4, <2>6 DEF PipelineInv
<1>. QED
  BY <1>9, <1>10

LEMMA FlushPreserves ==
  ASSUME PipelineInv, Flush
  PROVE  PipelineInv'
<1>1. UNCHANGED <<finalized, known, enqueuedTo, query, queue, fetched, processing,
                  dataSources, atStart, indexed, workers, crashes>>
      /\ stored' = indexed
  BY DEF Flush, fetchVars, dispatchVars, runVars
<1>2. TypeOK'
  BY <1>1 DEF PipelineInv, TypeOK
<1>3. StoredPrefix'
  BY <1>1 DEF PipelineInv, TypeOK, StoredPrefix
<1>. QED
  BY <1>1, <1>2, <1>3 DEF PipelineInv, KnownSources, QueryCovers, QueueAhead,
     ProcessesLowest, QueueComplete, Wanted, LastHeight, Sources

\* What is started again knows what the database holds, and nothing is enqueued.
LEMMA RestartPreserves ==
  ASSUME PipelineInv, Restart
  PROVE  PipelineInv'
<1>1. /\ crashes < MaxCrashes /\ crashes' = crashes + 1
      /\ indexed' = stored /\ stored' = stored /\ workers' = workers
      /\ dataSources' = Sources(stored) /\ atStart' = Sources(stored)
      /\ known' = Sources(stored)
      /\ enqueuedTo' = LastHeight(stored) /\ finalized' = 0
      /\ queue' = {} /\ fetched' = {}
      /\ query' = [active |-> FALSE, stale |-> FALSE, from |-> 0, to |-> 0, heights |-> {}]
      /\ processing' = [active |-> FALSE, height |-> 0, seen |-> {}]
  BY DEF Restart, StartHeight, NoQuery, NotProcessing
<1>2. LastHeight(stored) \in 0..MaxHeight /\ Sources(stored) \subseteq DataSources
      /\ stored \in Seq(Entries)
  BY LastHeightType DEF PipelineInv, TypeOK
<1>3. query' \in [active : BOOLEAN, stale : BOOLEAN, from : 0..MaxHeight,
                  to : 0..MaxHeight, heights : SUBSET (1..MaxHeight)]
  BY <1>1, PipelineAssumption
<1>4. processing' \in [active : BOOLEAN, height : 0..MaxHeight, seen : SUBSET DataSources]
  BY <1>1, PipelineAssumption
<1>5. crashes' \in 0..MaxCrashes
  BY <1>1, PipelineAssumption DEF PipelineInv, TypeOK
<1>6. Cardinality(queue') <= QueueSize /\ finalized' \in 0..MaxHeight
  BY <1>1, FS_EmptySet, PipelineAssumption
<1>7. TypeOK'
  BY <1>1, <1>2, <1>3, <1>4, <1>5, <1>6 DEF PipelineInv, TypeOK
<1>8. LastHeight(indexed)' = LastHeight(stored) /\ Sources(indexed)' = Sources(stored)
  BY <1>1 DEF LastHeight, Sources
<1>9. KnownSources'
  BY <1>1, <1>8 DEF KnownSources
<1>10. QueryCovers' /\ ProcessesLowest'
  BY <1>1 DEF QueryCovers, ProcessesLowest
<1>11. QueueAhead' /\ QueueComplete'
  BY <1>1, <1>2, <1>8, PipelineAssumption DEF QueueAhead, QueueComplete
<1>12. StoredPrefix'
  BY <1>1, <1>2 DEF StoredPrefix
<1>. QED
  BY <1>7, <1>9, <1>10, <1>11, <1>12 DEF PipelineInv

LEMMA StutterPreserves ==
  ASSUME PipelineInv, UNCHANGED vars
  PROVE  PipelineInv'
<1>1. UNCHANGED <<finalized, known, enqueuedTo, query, queue, fetched, processing,
                  dataSources, atStart, indexed, stored, workers, crashes>>
  BY DEF vars, fetchVars, dispatchVars, runVars
<1>. QED
  BY <1>1 DEF PipelineInv, TypeOK, KnownSources, QueryCovers, QueueAhead, ProcessesLowest,
     QueueComplete, StoredPrefix, Wanted, LastHeight, Sources

LEMMA NextPreserves ==
  ASSUME PipelineInv, [Next]_vars
  PROVE  PipelineInv'
<1>1. CASE UpdateFinalized
  BY <1>1, UpdateFinalizedPreserves
<1>2. CASE LookUp
  BY <1>2, LookUpPreserves
<1>3. CASE Enqueue
  BY <1>3, EnqueuePreserves
<1>4. CASE Discard
  BY <1>4, DiscardPreserves
<1>5. CASE FetchNext
  BY <1>5, FetchPreserves DEF FetchNext
<1>6. CASE ProcessNext
  BY <1>6, ProcessPreserves DEF ProcessNext
<1>7. CASE IndexNext
  BY <1>7, IndexPreserves DEF IndexNext
<1>8. CASE Flush
  BY <1>8, FlushPreserves
<1>9. CASE Restart
  BY <1>9, RestartPreserves
<1>10. CASE UNCHANGED vars
  BY <1>10, StutterPreserves
<1>. QED
  BY <1>1, <1>2, <1>3, <1>4, <1>5, <1>6, <1>7, <1>8, <1>9, <1>10 DEF Next

LEMMA PipelineInvariant == Spec => []PipelineInv
<1>1. Init => PipelineInv
  BY InitEstablishes
<1>2. PipelineInv /\ [Next]_vars => PipelineInv'
  BY NextPreserves
<1>. QED
  BY <1>1, <1>2, PTL DEF Spec

\* The dispatcher never holds more blocks than its queue has room for, and
\* what it knows of a block, a lookup and the database is of its type, with
\* any number of heights, data sources and crashes.
THEOREM PipelineTypeCorrect == Spec => []TypeOK
<1>1. PipelineInv => TypeOK
  BY DEF PipelineInv
<1>. QED
  BY <1>1, PipelineInvariant, PTL

\* resetForNewDs: whenever a data source comes into being, no height it wants
\* is missing between the last block indexed and latestBufferedHeight.
THEOREM PipelineQueueComplete == Spec => []QueueComplete
<1>1. PipelineInv => QueueComplete
  BY DEF PipelineInv
<1>. QED
  BY <1>1, PipelineInvariant, PTL

------------------------------------------------------------------------------
(* The refinement: IndexBlock indexes, Flush saves, Restart is the crash,  *)
(* and every other step leaves the chain alone.                            *)

LEMMA IndexImplements ==
  ASSUME PipelineInv, NEW created \in SUBSET DataSources, IndexBlock(created)
  PROVE  \E entry \in Chain!Entries : Chain!Index(entry)
<1> DEFINE p == processing.height
<1> DEFINE e == [height |-> p, seen |-> processing.seen, created |-> created]
<1>1. /\ e \in Entries /\ indexed' = Append(indexed, e)
      /\ p \in queue /\ \A k \in queue : p <= k
      /\ processing.seen = Sources(indexed)
  BY IndexedEntry
<1>2. /\ enqueuedTo \in 0..MaxHeight /\ queue \subseteq 1..MaxHeight
      /\ indexed \in Seq(Entries) /\ dataSources = Sources(indexed)
      /\ queue \subseteq (LastHeight(indexed) + 1)..enqueuedTo
  BY DEF PipelineInv, TypeOK, KnownSources, QueueAhead
<1>3. LastHeight(indexed) \in 0..MaxHeight /\ p \in 1..MaxHeight
  BY <1>1, <1>2, LastHeightType
<1>4. p \in (LastHeight(indexed) + 1)..enqueuedTo
  BY <1>1, <1>2
<1>5. LastHeight(indexed) < p /\ p <= enqueuedTo
  BY <1>2, <1>3, <1>4, PipelineAssumption
<1>6. ASSUME NEW h \in (LastHeight(indexed) + 1)..(p - 1)
      PROVE  ~Wanted(h, Sources(indexed))
  <2>1. h \in (LastHeight(indexed) + 1)..enqueuedTo /\ ~(p <= h)
    BY <1>2, <1>3, <1>5, PipelineAssumption
  <2>2. h \notin queue
    BY <1>1, <2>1
  <2>. QED
    BY <1>2, <2>1, <2>2 DEF PipelineInv, QueueComplete
<1>7. Len(stored)' = Len(stored)
  BY DEF IndexBlock
<1>8. e \in Chain!Entries
  BY <1>1 DEF Entries, Chain!Entries
<1>9. Chain!Index(e)
  BY <1>1, <1>3, <1>5, <1>6, <1>7, PipelineAssumption
     DEF Chain!Index, Chain!LastHeight, Chain!Sources, Chain!Wanted, LastHeight, Sources,
         Wanted
<1>. QED
  BY <1>8, <1>9

LEMMA RestartImplements ==
  ASSUME PipelineInv, Restart
  PROVE  Chain!Crash
<1>1. indexed' = stored /\ stored' = stored
  BY DEF Restart
<1>2. /\ indexed \in Seq(Entries) /\ stored \in Seq(Entries)
      /\ Len(stored) <= Len(indexed)
      /\ \A i \in 1..Len(stored) : stored[i] = indexed[i]
  BY DEF PipelineInv, TypeOK, StoredPrefix
<1>3. SubSeq(indexed, 1, Len(stored)) = stored
  BY <1>2
<1>. QED
  BY <1>1, <1>3 DEF Chain!Crash

LEMMA StepImplements ==
  ASSUME PipelineInv, [Next]_vars
  PROVE  [Chain!Next]_(Chain!vars)
<1>1. CASE IndexNext
  BY <1>1, IndexImplements DEF IndexNext, Chain!Next
<1>2. CASE Flush
  BY <1>2 DEF Flush, Chain!Next, Chain!Save
<1>3. CASE Restart
  BY <1>3, RestartImplements DEF Chain!Next
<1>4. CASE UNCHANGED <<indexed, stored>>
  BY <1>4 DEF Chain!vars
<1>5. UpdateFinalized \/ LookUp \/ Enqueue \/ Discard \/ FetchNext \/ ProcessNext
        \/ UNCHANGED vars => UNCHANGED <<indexed, stored>>
  BY DEF UpdateFinalized, UpdateFinalizedTo, LookUp, Enqueue, Discard, FetchNext, FetchBlock, ProcessNext,
     Process, vars
<1>. QED
  BY <1>1, <1>2, <1>3, <1>4, <1>5 DEF Next

\* Whatever is fetched in whatever order by whichever thread, and wherever the
\* process is stopped, the blocks are indexed as IndexedChain says.
THEOREM PipelineImplementsChain == Spec => ImplementsChain
<1>1. Init => Chain!Init
  BY DEF Init, Chain!Init
<1>2. PipelineInv /\ [Next]_vars => [Chain!Next]_(Chain!vars)
  BY StepImplements
<1>. QED
  BY <1>1, <1>2, PipelineInvariant, PTL DEF Spec, ImplementsChain, Chain!Spec

==============================================================================
