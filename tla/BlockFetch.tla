----------------------------- MODULE BlockFetch ------------------------------
(***************************************************************************)
(* How blocks are fetched: FetchService learns the target height from the  *)
(* pool (packages/node/src/indexer/fetch.service.ts), the dispatchers ask  *)
(* for batches of heights below it, and ConcordiumApi.fetchBlocks          *)
(* (packages/node/src/concordium/api.concordium.ts) assembles each block   *)
(* from five awaited gRPC calls while the chain moves on.                  *)
(*                                                                         *)
(* A call of fetchBlocks is a member of Calls; its jobs (one per height)   *)
(* run concurrently under Promise.all.  A retry of a failed batch, the     *)
(* next batch and a batch of another worker are all further calls.  What a *)
(* gRPC answer says is abstracted to the block it is about.                *)
(***************************************************************************)
EXTENDS ChainNode, Sequences

CONSTANTS
  Calls,              \* bound: the invocations of fetchBlocks
  BatchSize,          \* bound: heights per invocation
  UnfinalizedBlocks   \* nodeConfig.unfinalizedBlocks

ASSUME FetchAssumption ==
  /\ BatchSize \in Nat \ {0}
  /\ UnfinalizedBlocks \in BOOLEAN

VARIABLES
  latestFinalized,    \* last answer of FetchService.getFinalizedHeight
  latestBest,         \* last answer of FetchService.getBestHeight
  status,             \* status[c]: the promise that call c returned
  endpoint,           \* endpoint[c]: the connection that serves call c
  request,            \* request[c]: the heights asked for, bufferBlocks
  finalAtStart,       \* history: last[endpoint[c]] when call c started
  pc,                 \* pc[c][i]: the await job i of call c is suspended at
  hash,               \* hash[c][i]: blockHash
  info,               \* info[c][i]: the block that blockInfo describes
  summary,            \* ... that finalizationSummary describes
  transactions,       \* ... that transactions and their events come from
  specialEvents,      \* ... that specialEvents come from
  fetchEvents         \* number of 'fetchBlock' events emitted

targetVars == <<latestFinalized, latestBest>>
callVars == <<endpoint, request, finalAtStart>>
blockVars == <<hash, info, summary, transactions, specialEvents>>
vars == <<chainVars, targetVars, status, callVars, pc, blockVars, fetchEvents>>

Slots == 1..BatchSize

\* The heights of one batch: ascending, at most BatchSize of them.
Requests ==
  UNION {{hs \in [1..n -> Heights] : \A i, k \in 1..n : i < k => hs[i] < hs[k]}
           : n \in Slots}

Awaits == {"hash", "info", "summary", "transactions", "specialEvents"}

\* FetchService.latestHeight: the height up to which blocks are enqueued.
LatestHeight == IF UnfinalizedBlocks THEN latestBest ELSE latestFinalized

Init ==
  /\ ChainInit
  /\ latestFinalized = 0
  /\ latestBest = 0
  /\ status = [c \in Calls |-> "idle"]
  /\ endpoint = [c \in Calls |-> CHOOSE e \in Endpoints : TRUE]
  /\ request = [c \in Calls |-> <<>>]
  /\ finalAtStart = [c \in Calls |-> 0]
  /\ pc = [c \in Calls |-> [i \in Slots |-> "none"]]
  /\ hash = [c \in Calls |-> [i \in Slots |-> NoBlock]]
  /\ info = hash
  /\ summary = hash
  /\ transactions = hash
  /\ specialEvents = hash
  /\ fetchEvents = 0

------------------------------------------------------------------------------

\* Mutant, off by one: the height after the last finalized block.
FinalizedHeightNext(e) == {b.height + 1 : b \in BlockInfo(e, NoBlock)}

\* getFinalizedBlock().blockHeight
FinalizedHeight(e) == {b.height : b \in BlockInfo(e, NoBlock)}

\* FetchService.getFinalizedHeight: getFinalizedBlock of whichever endpoint
\* the pool hands out (the header also goes to registerFinalizedBlock).
GetFinalizedHeight(e) ==
  /\ \E h \in FinalizedHeight(e) : latestFinalized' = h
  /\ UNCHANGED <<chainVars, latestBest, status, callVars, pc, blockVars, fetchEvents>>

\* FetchService.getBestHeight.
GetBestHeight(e) ==
  /\ \E h \in BestHeight(e) : latestBest' = h
  /\ UNCHANGED <<chainVars, latestFinalized, status, callVars, pc, blockVars, fetchEvents>>

\* ConcordiumApiConnection.fetchBlocks on the connection of endpoint e: every
\* height gets a job, suspended at its first await.
FetchBlocks(c, e, hs) ==
  /\ status[c] = "idle"
  /\ \A i \in DOMAIN hs : hs[i] <= LatestHeight
  /\ status' = [status EXCEPT ![c] = "pending"]
  /\ endpoint' = [endpoint EXCEPT ![c] = e]
  /\ request' = [request EXCEPT ![c] = hs]
  /\ finalAtStart' = [finalAtStart EXCEPT ![c] = last[e]]
  /\ pc' = [pc EXCEPT ![c] = [i \in Slots |-> IF i \in DOMAIN hs THEN "hash" ELSE "none"]]
  /\ UNCHANGED <<chainVars, targetVars, blockVars, fetchEvents>>

\* (await getBlocksAtHeight(height))[0]: any block listed, `undefined` if none.
FirstAtHeight(e, h) ==
  IF BlocksAtHeight(e, h) = {} THEN {NoBlock} ELSE BlocksAtHeight(e, h)

\* Mutant, off by one: the hash of the next height.
HashAtNext(c, i) == FirstAtHeight(endpoint[c], request[c][i] + 1)

HashAt(c, i) == FirstAtHeight(endpoint[c], request[c][i])

\* blockHash = (await getBlocksAtHeight(height))[0].
GetBlocksAtHeight(c, i) ==
  /\ pc[c][i] = "hash"
  /\ \E b \in HashAt(c, i) : hash' = [hash EXCEPT ![c][i] = b]
  /\ pc' = [pc EXCEPT ![c][i] = "info"]
  /\ UNCHANGED <<chainVars, targetVars, status, callVars, info, summary,
                 transactions, specialEvents, fetchEvents>>

\* blockInfo = await getBlockByHash(blockHash).
GetBlockByHash(c, i) ==
  /\ pc[c][i] = "info"
  /\ \E b \in BlockInfo(endpoint[c], hash[c][i]) :
       info' = [info EXCEPT ![c][i] = b]
  /\ pc' = [pc EXCEPT ![c][i] = "summary"]
  /\ UNCHANGED <<chainVars, targetVars, status, callVars, hash, summary,
                 transactions, specialEvents, fetchEvents>>

\* Mutant, the hash is not passed on.
PartOfTip(c, i) == BlockInfo(endpoint[c], NoBlock)

\* The answer to a request about blockInfo.blockHash.
Part(c, i) == BlockInfo(endpoint[c], info[c][i])

\* await client.getBlockFinalizationSummary(blockInfo.blockHash).
GetFinalizationSummary(c, i) ==
  /\ pc[c][i] = "summary"
  /\ \E b \in Part(c, i) :
       summary' = [summary EXCEPT ![c][i] = b]
  /\ pc' = [pc EXCEPT ![c][i] = "transactions"]
  /\ UNCHANGED <<chainVars, targetVars, status, callVars, hash, info,
                 transactions, specialEvents, fetchEvents>>

\* await getAndWrapTransactions(blockInfo.blockHash).
GetAndWrapTransactions(c, i) ==
  /\ pc[c][i] = "transactions"
  /\ \E b \in Part(c, i) :
       transactions' = [transactions EXCEPT ![c][i] = b]
  /\ pc' = [pc EXCEPT ![c][i] = "specialEvents"]
  /\ UNCHANGED <<chainVars, targetVars, status, callVars, hash, info,
                 summary, specialEvents, fetchEvents>>

\* Mutant, as with Promise.race.
SettleOnFirst(c, i) == IF status[c] = "pending" THEN "resolved" ELSE status[c]

\* Promise.all resolves with its last job, unless a job rejected it before.
SettleOnSuccess(c, i) ==
  IF status[c] = "pending" /\ \A k \in DOMAIN request[c] \ {i} : pc[c][k] = "done"
  THEN "resolved" ELSE status[c]

\* await getAndWrapSpecialEvents(blockInfo.blockHash), the last await: the
\* block is wrapped, 'fetchBlock' is emitted and the job resolves.
GetAndWrapSpecialEvents(c, i) ==
  /\ pc[c][i] = "specialEvents"
  /\ \E b \in Part(c, i) :
       specialEvents' = [specialEvents EXCEPT ![c][i] = b]
  /\ pc' = [pc EXCEPT ![c][i] = "done"]
  /\ fetchEvents' = fetchEvents + 1
  /\ status' = [status EXCEPT ![c] = SettleOnSuccess(c, i)]
  /\ UNCHANGED <<chainVars, targetVars, callVars, hash, info, summary, transactions>>

\* Mutant, a rejection that nobody handles.
SettleOnErrorNever(c) == status[c]

\* The first job that rejects settles Promise.all; the other jobs run on.
SettleOnError(c) == IF status[c] = "pending" THEN "rejected" ELSE status[c]

\* A gRPC call of the job fails: the transport, or a block that is gone.
CallFails(c, i) ==
  /\ pc[c][i] \in Awaits
  /\ pc' = [pc EXCEPT ![c][i] = "failed"]
  /\ status' = [status EXCEPT ![c] = SettleOnError(c)]
  /\ UNCHANGED <<chainVars, targetVars, callVars, blockVars, fetchEvents>>

------------------------------------------------------------------------------

ChainMoves ==
  /\ ChainNext
  /\ UNCHANGED <<targetVars, status, callVars, pc, blockVars, fetchEvents>>

JobStep(c, i) ==
  \/ GetBlocksAtHeight(c, i)
  \/ GetBlockByHash(c, i)
  \/ GetFinalizationSummary(c, i)
  \/ GetAndWrapTransactions(c, i)
  \/ GetAndWrapSpecialEvents(c, i)
  \/ CallFails(c, i)

Next ==
  \/ ChainMoves
  \/ \E e \in Endpoints :
       \/ GetFinalizedHeight(e)
       \/ GetBestHeight(e)
       \/ \E c \in Calls, hs \in Requests : FetchBlocks(c, e, hs)
  \/ \E c \in Calls, i \in Slots : JobStep(c, i)

Spec == Init /\ [][Next]_vars

\* Every gRPC call is answered or fails: the client's answer to each await.
FairSpec == Spec /\ \A c \in Calls, i \in Slots : WF_vars(JobStep(c, i))

------------------------------------------------------------------------------

BlockTable == [Calls -> [Slots -> Blocks \cup {NoBlock}]]

TypeOK ==
  /\ ChainTypeOK
  /\ latestFinalized \in Heights
  /\ latestBest \in Heights
  /\ status \in [Calls -> {"idle", "pending", "resolved", "rejected"}]
  /\ endpoint \in [Calls -> Endpoints]
  /\ request \in [Calls -> Requests \cup {<<>>}]
  /\ finalAtStart \in [Calls -> Heights]
  /\ pc \in [Calls -> [Slots -> Awaits \cup {"none", "done", "failed"}]]
  /\ hash \in BlockTable
  /\ info \in BlockTable
  /\ summary \in BlockTable
  /\ transactions \in BlockTable
  /\ specialEvents \in BlockTable
  /\ fetchEvents \in Nat

\* Job i of call c has wrapped its block.
Wrapped(c, i) == i \in DOMAIN request[c] /\ pc[c][i] = "done"

\* getAndWrapBlock: the parts of a wrapped block, read by separate calls with
\* the chain moving in between, all belong to the block of its header.
Coherent ==
  \A c \in Calls, i \in Slots : Wrapped(c, i) =>
    /\ summary[c][i] = info[c][i]
    /\ transactions[c][i] = info[c][i]
    /\ specialEvents[c][i] = info[c][i]

\* getAndWrapBlock: whatever happens in between, a height that the serving
\* endpoint had finalized when the call started yields the finalized block of
\* that height.  It is what makes `[0]` of getBlocksAtHeight right.
CanonicalWhenFinal ==
  \A c \in Calls, i \in Slots :
    Wrapped(c, i) /\ request[c][i] <= finalAtStart[c] =>
      info[c][i] = Final(request[c][i])

\* fetchBlocks: a resolved promise holds a complete block for every height
\* that was asked for, in the order of the request.
ResolvedComplete ==
  \A c \in Calls : status[c] = "resolved" =>
    \A i \in DOMAIN request[c] : pc[c][i] = "done" /\ specialEvents[c][i] # NoBlock

\* fetchBlocks, with one endpoint and without --unfinalized-blocks: every
\* block delivered is the finalized block of the height asked for, although
\* latestFinalized was read before the call and the chain has moved since.
DeliversCanonical ==
  \A c \in Calls : status[c] = "resolved" =>
    \A i \in DOMAIN request[c] : info[c][i] = Final(request[c][i])

\* fetchBlocks: a batch is delivered or fails; it is never left hanging by a
\* job that threw, a block that was dropped or a height without a block.
Settles ==
  \A c \in Calls : status[c] = "pending" ~> status[c] \in {"resolved", "rejected"}

\* "should get blocks at a specific height" (api.concordium.spec.ts:25): the
\* blocks a fetch resolves with have the heights that were asked for.
BlockAtRequestedHeight ==
  \A c \in Calls : status[c] = "resolved" =>
    \A i \in DOMAIN request[c] : info[c][i].height = request[c][i]

==============================================================================
