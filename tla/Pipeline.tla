------------------------------ MODULE Pipeline -------------------------------
(***************************************************************************)
(* A running node, from finalized heights to indexed blocks: FetchService  *)
(* enqueues heights, the block dispatcher has them fetched in any order, on*)
(* the main thread or by workers, and processed in the order of heights,   *)
(* and IndexerManager indexes each with the data sources of its height.    *)
(*                                                                         *)
(* A handler may create a data source, after which what is enqueued may be *)
(* the wrong heights; the process may crash and start again from what the  *)
(* database holds.  The queues themselves, the reset after a new data      *)
(* source and the database are node-core's (external): they are modelled   *)
(* as the overrides in packages/node/src rely on them.  BlockFetch is what *)
(* fetching one block is made of, IndexBlock what indexing it is, and      *)
(* Dictionary why Wants is known before a block is fetched.                *)
(***************************************************************************)
EXTENDS Naturals, Sequences, FiniteSets

CONSTANTS
  MaxHeight,      \* bound: the highest block that is finalized
  DataSources,
  FirstSources,   \* the data sources of the project
  Wants,          \* Wants[d]: the heights data source d has something to do at
  QueueSize,      \* bound: heights enqueued and not yet processed
  MaxCrashes      \* bound: crashes

ASSUME PipelineAssumption ==
  /\ MaxHeight \in Nat
  /\ FirstSources \subseteq DataSources
  /\ Wants \in [DataSources -> SUBSET (1..MaxHeight)]
  /\ QueueSize \in Nat \ {0}
  /\ MaxCrashes \in Nat

VARIABLES
  finalized,      \* the finalized height that the fetch loop was last told
  dataSources,    \* the data sources that the main thread knows
  atStart,        \* those that existed when the process, with its workers, started
  known,          \* those that the fetch loop asks the dictionary about
  enqueuedTo,     \* latestBufferedHeight
  query,          \* the heights being looked up: [active, stale, from, to, heights]
  queue,          \* heights enqueued and not yet processed
  fetched,        \* those of them whose block is there
  processing,     \* the block being indexed: [active, height, seen]
  indexed,        \* the blocks indexed: [height, seen, created]
  stored,         \* those that are in the database
  workers,        \* nodeConfig.workers: the dispatcher has worker threads
  crashes

fetchVars == <<finalized, known, enqueuedTo, query>>
dispatchVars == <<queue, fetched, processing>>
runVars == <<workers, crashes>>
vars == <<fetchVars, dispatchVars, dataSources, atStart, indexed, stored, runVars>>

Chain == INSTANCE IndexedChain WITH log <- indexed, saved <- Len(stored)

Wanted(h, sources) == \E d \in sources : h \in Wants[d]
LastHeight(l) == IF l = <<>> THEN 0 ELSE l[Len(l)].height
Sources(l) == FirstSources \cup UNION {l[i].created : i \in DOMAIN l}

NoQuery == [active |-> FALSE, stale |-> FALSE, from |-> 0, to |-> 0, heights |-> {}]
NotProcessing == [active |-> FALSE, height |-> 0, seen |-> {}]

Init ==
  /\ finalized = 0
  /\ dataSources = FirstSources
  /\ atStart = FirstSources
  /\ known = FirstSources
  /\ enqueuedTo = 0
  /\ query = NoQuery
  /\ queue = {}
  /\ fetched = {}
  /\ processing = NotProcessing
  /\ indexed = <<>>
  /\ stored = <<>>
  /\ workers \in BOOLEAN
  /\ crashes = 0

------------------------------------------------------------------------------
(* The fetch loop.                                                         *)

\* getFinalizedHeight, every getChainInterval.  The pool hands out one endpoint
\* or another, and one that lags behind takes the fetch loop's height back.
UpdateFinalizedTo(h) ==
  /\ finalized # h
  /\ finalized' = h
  /\ UNCHANGED <<known, enqueuedTo, query, dispatchVars, dataSources, atStart, indexed,
                 stored, runVars>>

UpdateFinalized == \E h \in 1..MaxHeight : UpdateFinalizedTo(h)

\* The next heights are looked up: those the dictionary says the data sources
\* want or, without a dictionary that can tell, all of them.
LookUp ==
  /\ ~query.active
  /\ Cardinality(queue) < QueueSize
  /\ enqueuedTo < finalized
  /\ \E heights \in {{h \in (enqueuedTo + 1)..finalized : Wanted(h, known)},
                     (enqueuedTo + 1)..finalized} :
       query' = [active |-> TRUE, stale |-> FALSE, from |-> enqueuedTo + 1,
                 to |-> finalized, heights |-> heights]
  /\ UNCHANGED <<finalized, known, enqueuedTo, dispatchVars, dataSources, atStart,
                 indexed, stored, runVars>>

Batch(to) == {h \in query.heights : h <= to}

\* Mutant, the room in the queue is not looked at.
SliceAll(to) == to = query.to

\* enqueueBlocks takes all heights or as many as the queue has room for.
Slice(to) ==
  LET size == Cardinality(queue \cup Batch(to))
  IN \/ to = query.to /\ size <= QueueSize
     \/ to \in query.heights /\ size = QueueSize

Enqueue ==
  /\ query.active /\ ~query.stale
  /\ \E to \in query.from..query.to :
       /\ Slice(to)
       /\ queue' = queue \cup Batch(to)
       /\ enqueuedTo' = to
  /\ query' = NoQuery
  /\ UNCHANGED <<finalized, known, fetched, processing, dataSources, atStart, indexed,
                 stored, runVars>>

\* The queue was reset since: the answer is of no use, even if the fetch loop
\* is back at the height it had got to.
Discard ==
  /\ query.active /\ query.stale
  /\ query' = NoQuery
  /\ UNCHANGED <<finalized, known, enqueuedTo, dispatchVars, dataSources, atStart,
                 indexed, stored, runVars>>

------------------------------------------------------------------------------
(* The block dispatcher.                                                   *)

\* ApiService.fetchBlocks on the main thread, or fetchBlock of a worker:
\* blocks arrive in any order.
FetchBlock(h) ==
  /\ h \in queue \ fetched
  /\ fetched' = fetched \cup {h}
  /\ UNCHANGED <<fetchVars, queue, processing, dataSources, atStart, indexed, stored,
                 runVars>>

\* Mutant, a worker has a DynamicDsService of its own.
GetDataSourcesOfThread == IF workers THEN atStart ELSE dataSources

\* projectService.getDataSources, awaited when the block's turn comes; that
\* of a worker asks the main thread.
GetDataSources == dataSources

\* The lowest height goes first, and one at a time.
Process(h) ==
  /\ ~processing.active
  /\ h \in queue \cap fetched
  /\ \A k \in queue : h <= k
  /\ processing' = [active |-> TRUE, height |-> h, seen |-> GetDataSources]
  /\ UNCHANGED <<fetchVars, queue, fetched, dataSources, atStart, indexed, stored, runVars>>

\* Mutant, initBlockDispatcher without resetForNewDs.
ResetNothing(created) ==
  /\ queue' = queue \ {processing.height}
  /\ fetched' = fetched \ {processing.height}
  /\ UNCHANGED <<enqueuedTo, known, query>>

\* initBlockDispatcher hands resetForNewDs to the dispatcher: a block that
\* created a data source empties the queue and sends the fetch loop back to
\* the next height.
Reset(created) ==
  IF created = {}
  THEN /\ queue' = queue \ {processing.height}
       /\ fetched' = fetched \ {processing.height}
       /\ UNCHANGED <<enqueuedTo, known, query>>
  ELSE /\ queue' = {}
       /\ fetched' = {}
       /\ enqueuedTo' = processing.height
       /\ known' = dataSources'
       /\ query' = [query EXCEPT !.stale = query.active]

\* IndexerManager.indexBlock is done; its handlers created data sources.
IndexBlock(created) ==
  /\ processing.active
  /\ created \cap dataSources = {}
  /\ indexed' = Append(indexed, [height |-> processing.height, seen |-> processing.seen,
                                 created |-> created])
  /\ dataSources' = dataSources \cup created
  /\ Reset(created)
  /\ processing' = NotProcessing
  /\ UNCHANGED <<finalized, atStart, stored, runVars>>

------------------------------------------------------------------------------

\* The store is flushed between two blocks, with the metadata.
Flush ==
  /\ ~processing.active
  /\ stored # indexed
  /\ stored' = indexed
  /\ UNCHANGED <<fetchVars, dispatchVars, dataSources, atStart, indexed, runVars>>

\* Mutant, the fetch loop starts where the process that crashed had got to.
StartHeightOfMemory == LastHeight(indexed)

\* projectService.startHeight: after the last block that is stored.
StartHeight == LastHeight(stored)

\* The process ends, because a block could not be fetched or indexed or for a
\* reason of its own, and is started again.
Restart ==
  /\ crashes < MaxCrashes
  /\ crashes' = crashes + 1
  /\ indexed' = stored
  /\ dataSources' = Sources(stored)
  /\ atStart' = Sources(stored)
  /\ known' = Sources(stored)
  /\ enqueuedTo' = StartHeight
  /\ finalized' = 0
  /\ query' = NoQuery
  /\ queue' = {}
  /\ fetched' = {}
  /\ processing' = NotProcessing
  /\ UNCHANGED <<stored, workers>>

FetchNext == \E h \in 1..MaxHeight : FetchBlock(h)
ProcessNext == \E h \in 1..MaxHeight : Process(h)
IndexNext == \E created \in SUBSET DataSources : IndexBlock(created)

Next == \/ UpdateFinalized \/ LookUp \/ Enqueue \/ Discard
        \/ FetchNext \/ ProcessNext \/ IndexNext \/ Flush \/ Restart

Spec == Init /\ [][Next]_vars

\* The chain grows and an endpoint that does not lag is asked again and again;
\* its answer stands for an interval, in which the fetch loop comes round at
\* least once in a while.  Every request is answered and every queue is served;
\* a crash is never due.
FairSpec ==
  /\ Spec
  /\ WF_vars(UpdateFinalizedTo(MaxHeight)) /\ SF_vars(LookUp)
  /\ WF_vars(Enqueue) /\ WF_vars(Discard)
  /\ WF_vars(FetchNext) /\ WF_vars(ProcessNext) /\ WF_vars(IndexNext) /\ WF_vars(Flush)

------------------------------------------------------------------------------

Entries == [height : 1..MaxHeight, seen : SUBSET DataSources, created : SUBSET DataSources]

\* Type invariant; the queue never holds more than it has room for.
TypeOK ==
  /\ finalized \in 0..MaxHeight
  /\ dataSources \subseteq DataSources
  /\ atStart \subseteq DataSources
  /\ known \subseteq DataSources
  /\ enqueuedTo \in 0..MaxHeight
  /\ query \in [active : BOOLEAN, stale : BOOLEAN, from : 0..MaxHeight, to : 0..MaxHeight,
                heights : SUBSET (1..MaxHeight)]
  /\ queue \subseteq 1..MaxHeight
  /\ Cardinality(queue) <= QueueSize
  /\ fetched \subseteq queue
  /\ processing \in [active : BOOLEAN, height : 0..MaxHeight, seen : SUBSET DataSources]
  /\ indexed \in Seq(Entries)
  /\ stored \in Seq(Entries)
  /\ workers \in BOOLEAN
  /\ crashes \in 0..MaxCrashes

\* Whatever was enqueued before a data source came into being, no height that
\* one of the data sources wants is missing between the last block indexed
\* and where the fetch loop has got to.
QueueComplete ==
  \A h \in (LastHeight(indexed) + 1)..enqueuedTo : Wanted(h, dataSources) => h \in queue

\* The pipeline implements the chain of indexed blocks.
ImplementsChain == Chain!Spec

\* Every block that a data source of the project wants ends up in the
\* database, crashes, new data sources and full queues notwithstanding.
EventuallyIndexed ==
  \A h \in 1..MaxHeight :
    Wanted(h, FirstSources) => <>(\E i \in DOMAIN stored : stored[i].height = h)

==============================================================================
