-------------------------- MODULE BlockFetchProofs ---------------------------
(***************************************************************************)
(* Proofs about BlockFetch, for every number of endpoints, calls, heights  *)
(* and forks and every batch size.                                         *)
(*                                                                         *)
(* The invariants of the runs are not inductive: they speak of finished    *)
(* jobs, so the strengthening FetchInv says what every intermediate await  *)
(* of getAndWrapBlock has established, and that finality never retreats.   *)
(***************************************************************************)
EXTENDS BlockFetch, TLAPS

\* The await points of getAndWrapBlock from which each part is available.
HashKnown == {"info", "summary", "transactions", "specialEvents", "done"}
InfoKnown == {"summary", "transactions", "specialEvents", "done"}
SummaryKnown == {"transactions", "specialEvents", "done"}
TransactionsKnown == {"specialEvents", "done"}

\* What a node holds above its last finalized block.
LiveAbove == \A e \in Endpoints : \A b \in live[e] : b.height > last[e]

\* What holds of call c between its steps.
CallOK(c) ==
  /\ finalAtStart[c] <= last[endpoint[c]]
  /\ status[c] = "idle" => request[c] = <<>>
  /\ status[c] = "resolved" => \A i \in DOMAIN request[c] : pc[c][i] = "done"

\* What holds of job i of call c at each await.
JobOK(c, i) ==
  /\ pc[c][i] # "none" <=> i \in DOMAIN request[c]
  /\ pc[c][i] \in HashKnown /\ request[c][i] <= finalAtStart[c] =>
       hash[c][i] = Final(request[c][i])
  /\ pc[c][i] \in InfoKnown =>
       /\ info[c][i] \in Blocks
       /\ request[c][i] <= finalAtStart[c] => info[c][i] = Final(request[c][i])
  /\ pc[c][i] \in SummaryKnown => summary[c][i] = info[c][i]
  /\ pc[c][i] \in TransactionsKnown => transactions[c][i] = info[c][i]
  /\ pc[c][i] = "done" => specialEvents[c][i] = info[c][i]

FetchInv ==
  /\ LiveAbove
  /\ \A c \in Calls : CallOK(c)
  /\ \A c \in Calls, i \in Slots : JobOK(c, i)

------------------------------------------------------------------------------

\* A batch of fetchBlocks holds at most BatchSize heights, all of them heights
\* of the chain.
LEMMA RequestHeights ==
  ASSUME NEW hs \in Requests \cup {<<>>}
  PROVE  /\ DOMAIN hs \subseteq Slots
         /\ \A i \in DOMAIN hs : hs[i] \in Heights
<1>1. CASE hs = <<>>
  BY <1>1
<1>2. CASE hs \in Requests
  <2>1. PICK n \in Slots : hs \in [1..n -> Heights]
    BY <1>2 DEF Requests
  <2>. QED
    BY <2>1, FetchAssumption DEF Slots
<1>. QED
  BY <1>1, <1>2

\* A node answers getBlocksAtHeight with the finalized block alone for every
\* height up to its last finalized block.
LEMMA FinalBlockAlone ==
  ASSUME TypeOK, LiveAbove, NEW e \in Endpoints, NEW h \in Heights, h <= last[e]
  PROVE  BlocksAtHeight(e, h) = {Final(h)}
<1>1. last[e] \in Nat /\ live[e] \subseteq Blocks
  BY ChainAssumption DEF TypeOK, ChainTypeOK, Heights
<1>2. ASSUME NEW b \in Known(e), b.height = h
      PROVE  b = Final(h)
  <2>1. b \notin live[e]
    BY <1>1, <1>2, ChainAssumption DEF LiveAbove, Heights, Blocks
  <2>. QED
    BY <1>2, <2>1 DEF Known, Final
<1>3. Final(h) \in Known(e) /\ Final(h).height = h
  BY <1>1, ChainAssumption DEF Known, Final, Heights
<1>. QED
  BY <1>2, <1>3 DEF BlocksAtHeight

\* Whatever a node answers to getBlockInfo is a block, and the block asked for
\* if the call named one.
LEMMA InfoIsBlock ==
  ASSUME TypeOK, NEW e \in Endpoints, NEW x \in Blocks \cup {NoBlock},
         NEW b \in BlockInfo(e, x)
  PROVE  b \in Blocks /\ (x # NoBlock => b = x)
<1>1. last[e] \in Heights /\ FinalFork \in Forks
  BY ChainAssumption DEF TypeOK, ChainTypeOK
<1>2. CASE x = NoBlock
  BY <1>1, <1>2 DEF BlockInfo, Final, Blocks
<1>3. CASE x # NoBlock
  BY <1>3 DEF BlockInfo
<1>. QED
  BY <1>2, <1>3

------------------------------------------------------------------------------

\* The initial state is well typed.
LEMMA InitType == Init => TypeOK
<1>. SUFFICES ASSUME Init PROVE TypeOK
  OBVIOUS
<1>1. 0 \in Heights
  BY ChainAssumption DEF Heights
<1>4. (CHOOSE e \in Endpoints : TRUE) \in Endpoints
  BY ChainAssumption, Zenon
<1>2. ChainTypeOK
  BY <1>1 DEF Init, ChainInit, ChainTypeOK
<1>3. hash \in BlockTable
  BY DEF Init, BlockTable
<1>. QED
  BY <1>1, <1>2, <1>3, <1>4 DEF Init, TypeOK

\* No step of the nodes, of FetchService or of fetchBlocks leaves the types.
LEMMA NextType == TypeOK /\ [Next]_vars => TypeOK'
<1>. SUFFICES ASSUME TypeOK, [Next]_vars PROVE TypeOK'
  OBVIOUS
<1>. USE DEF callVars, targetVars, blockVars
<1>1. CASE ChainMoves
  <2>1. ChainTypeOK'
    <3>1. ASSUME NEW e \in Endpoints, Finalize(e) PROVE ChainTypeOK'
      <4>1. Final(last[e] + 1) \in Blocks
        BY <3>1 DEF Finalize, TypeOK, ChainTypeOK
      <4>2. last[e] + 1 \in Heights
        BY <4>1 DEF Final, Blocks
      <4>. QED
        BY <3>1, <4>2 DEF Finalize, TypeOK, ChainTypeOK
    <3>2. ASSUME NEW e \in Endpoints, NEW b \in Blocks, Arrive(e, b) PROVE ChainTypeOK'
      BY <3>2 DEF Arrive, TypeOK, ChainTypeOK
    <3>. QED
      BY <1>1, <3>1, <3>2 DEF ChainMoves, ChainNext
  <2>. QED
    BY <1>1, <2>1 DEF ChainMoves, TypeOK
<1>2. ASSUME NEW e \in Endpoints, GetFinalizedHeight(e) PROVE TypeOK'
  <2>1. latestFinalized' \in Heights
    BY <1>2, InfoIsBlock DEF GetFinalizedHeight, FinalizedHeight, Blocks
  <2>. QED
    BY <1>2, <2>1 DEF GetFinalizedHeight, TypeOK, ChainTypeOK, chainVars
<1>3. ASSUME NEW e \in Endpoints, GetBestHeight(e) PROVE TypeOK'
  BY <1>3 DEF GetBestHeight, BestHeight, TypeOK, ChainTypeOK, chainVars
<1>4. ASSUME NEW e \in Endpoints, NEW c \in Calls, NEW hs \in Requests, FetchBlocks(c, e, hs)
      PROVE TypeOK'
  <2>1. last[e] \in Heights
    BY DEF TypeOK, ChainTypeOK
  <2>2. pc' \in [Calls -> [Slots -> Awaits \cup {"none", "done", "failed"}]]
    BY <1>4 DEF FetchBlocks, TypeOK, Awaits
  <2>. QED
    BY <1>4, <2>1, <2>2 DEF FetchBlocks, TypeOK, ChainTypeOK, chainVars
<1>5. ASSUME NEW c \in Calls, NEW i \in Slots, JobStep(c, i) PROVE TypeOK'
  <2>1. pc' \in [Calls -> [Slots -> Awaits \cup {"none", "done", "failed"}]]
    <3>1. PICK l \in Awaits \cup {"done", "failed"} : pc' = [pc EXCEPT ![c][i] = l]
      BY <1>5, Zenon DEF JobStep, GetBlocksAtHeight, GetBlockByHash, GetFinalizationSummary,
           GetAndWrapTransactions, GetAndWrapSpecialEvents, CallFails, Awaits
    <3>. QED
      BY <3>1 DEF TypeOK
  <2>2. endpoint[c] \in Endpoints /\ hash[c][i] \in Blocks \cup {NoBlock}
          /\ info[c][i] \in Blocks \cup {NoBlock}
    BY DEF TypeOK, BlockTable
  <2>3. CASE GetBlocksAtHeight(c, i)
    <3>1. BlocksAtHeight(endpoint[c], request[c][i]) \subseteq Blocks
      <4>1. \A h \in 0..last[endpoint[c]] : Final(h) \in Blocks
        BY <2>2, ChainAssumption DEF TypeOK, ChainTypeOK, Final, Blocks, Heights
      <4>. QED
        BY <2>2, <4>1 DEF BlocksAtHeight, Known, TypeOK, ChainTypeOK
    <3>2. hash' \in BlockTable
      BY <2>3, <3>1 DEF GetBlocksAtHeight, HashAt, FirstAtHeight, TypeOK, BlockTable
    <3>. QED
      BY <2>1, <2>3, <3>2 DEF GetBlocksAtHeight, TypeOK, ChainTypeOK, chainVars
  <2>4. CASE GetBlockByHash(c, i)
    <3>1. info' \in BlockTable
      BY <2>2, <2>4, InfoIsBlock DEF GetBlockByHash, TypeOK, BlockTable
    <3>. QED
      BY <2>1, <2>4, <3>1 DEF GetBlockByHash, TypeOK, ChainTypeOK, chainVars
  <2>5. CASE GetFinalizationSummary(c, i)
    <3>1. summary' \in BlockTable
      BY <2>2, <2>5, InfoIsBlock DEF GetFinalizationSummary, Part, TypeOK, BlockTable
    <3>. QED
      BY <2>1, <2>5, <3>1 DEF GetFinalizationSummary, TypeOK, ChainTypeOK, chainVars
  <2>6. CASE GetAndWrapTransactions(c, i)
    <3>1. transactions' \in BlockTable
      BY <2>2, <2>6, InfoIsBlock DEF GetAndWrapTransactions, Part, TypeOK, BlockTable
    <3>. QED
      BY <2>1, <2>6, <3>1 DEF GetAndWrapTransactions, TypeOK, ChainTypeOK, chainVars
  <2>7. CASE GetAndWrapSpecialEvents(c, i)
    <3>1. specialEvents' \in BlockTable
      BY <2>2, <2>7, InfoIsBlock DEF GetAndWrapSpecialEvents, Part, TypeOK, BlockTable
    <3>2. status' \in [Calls -> {"idle", "pending", "resolved", "rejected"}]
      BY <2>7 DEF GetAndWrapSpecialEvents, SettleOnSuccess, TypeOK
    <3>. QED
      BY <2>1, <2>7, <3>1, <3>2 DEF GetAndWrapSpecialEvents, TypeOK, ChainTypeOK, chainVars
  <2>8. CASE CallFails(c, i)
    BY <2>1, <2>8 DEF CallFails, SettleOnError, TypeOK, ChainTypeOK, chainVars
  <2>. QED
    BY <1>5, <2>3, <2>4, <2>5, <2>6, <2>7, <2>8 DEF JobStep
<1>6. CASE UNCHANGED vars
  BY <1>6 DEF vars, TypeOK, ChainTypeOK, chainVars
<1>. QED
  BY <1>1, <1>2, <1>3, <1>4, <1>5, <1>6 DEF Next

\* Type correctness of fetchBlocks and of the nodes it reads, for every pool,
\* chain and batch size.
THEOREM TypeCorrect == Spec => []TypeOK
BY InitType, NextType, PTL DEF Spec

------------------------------------------------------------------------------

\* Nothing has been fetched yet.
LEMMA InitFetch == Init => FetchInv
<1>. SUFFICES ASSUME Init PROVE FetchInv
  OBVIOUS
<1>1. LiveAbove
  BY DEF Init, ChainInit, LiveAbove
<1>2. ASSUME NEW c \in Calls PROVE CallOK(c)
  <2>1. endpoint[c] \in Endpoints
    BY InitType DEF TypeOK
  <2>. QED
    BY <2>1 DEF Init, ChainInit, CallOK
<1>3. ASSUME NEW c \in Calls, NEW i \in Slots PROVE JobOK(c, i)
  BY DEF Init, JobOK, HashKnown, InfoKnown, SummaryKnown, TransactionsKnown
<1>. QED
  BY <1>1, <1>2, <1>3 DEF FetchInv

\* The nodes never take a finalized block back, and what they hold above the
\* last finalized block stays above it.
LEMMA ChainStep ==
  ASSUME TypeOK, LiveAbove, ChainNext
  PROVE  LiveAbove' /\ \A e \in Endpoints : last[e] <= last'[e]
<1>. USE ChainAssumption
<1>1. ASSUME NEW e \in Endpoints, Finalize(e)
      PROVE  LiveAbove' /\ \A f \in Endpoints : last[f] <= last'[f]
  <2>1. \A f \in Endpoints : last[f] \in Nat /\ live[f] \subseteq Blocks
    BY DEF TypeOK, ChainTypeOK, Heights
  <2>2. \A f \in Endpoints : last'[f] = (IF f = e THEN last[e] + 1 ELSE last[f])
    BY <1>1 DEF Finalize, TypeOK, ChainTypeOK
  <2>3. \A f \in Endpoints : live'[f] =
          (IF f = e THEN {b \in live[e] : b.height > last[e] + 1} ELSE live[f])
    BY <1>1 DEF Finalize, TypeOK, ChainTypeOK
  <2>4. ASSUME NEW f \in Endpoints PROVE last[f] <= last'[f]
    BY <2>1, <2>2
  <2>5. ASSUME NEW f \in Endpoints, NEW b \in live'[f] PROVE b.height > last'[f]
    <3>1. CASE f = e
      BY <2>2, <2>3, <2>5, <3>1
    <3>2. CASE f # e
      BY <2>2, <2>3, <2>5, <3>2 DEF LiveAbove
    <3>. QED
      BY <3>1, <3>2
  <2>. QED
    BY <2>4, <2>5 DEF LiveAbove
<1>2. ASSUME NEW e \in Endpoints, NEW b \in Blocks, Arrive(e, b)
      PROVE  LiveAbove' /\ \A f \in Endpoints : last[f] <= last'[f]
  <2>1. \A f \in Endpoints : live'[f] = (IF f = e THEN live[e] \cup {b} ELSE live[f])
    BY <1>2 DEF Arrive, TypeOK, ChainTypeOK
  <2>. QED
    BY <1>2, <2>1 DEF Arrive, LiveAbove, TypeOK, ChainTypeOK, Heights
<1>. QED
  BY <1>1, <1>2 DEF ChainNext

\* Starting a call gives every height of the batch a fresh job.
LEMMA StartStep ==
  ASSUME TypeOK, FetchInv, NEW e \in Endpoints, NEW c \in Calls, NEW hs \in Requests,
         FetchBlocks(c, e, hs)
  PROVE  FetchInv'
<1>. USE DEF FetchBlocks, chainVars, blockVars
<1>1. LiveAbove'
  BY DEF FetchInv, LiveAbove
<1>2. ASSUME NEW d \in Calls PROVE CallOK(d)'
  <2>1. CASE d = c
    BY <2>1, ChainAssumption DEF CallOK, TypeOK, ChainTypeOK, Heights
  <2>2. CASE d # c
    BY <2>2 DEF FetchInv, CallOK, TypeOK
  <2>. QED
    BY <2>1, <2>2
<1>3. ASSUME NEW d \in Calls, NEW k \in Slots PROVE JobOK(d, k)'
  <2>1. CASE d = c
    <3>1. pc'[d][k] = (IF k \in DOMAIN hs THEN "hash" ELSE "none") /\ request'[d] = hs
      BY <2>1 DEF TypeOK
    <3>. QED
      BY <3>1 DEF JobOK, HashKnown, InfoKnown, SummaryKnown, TransactionsKnown
  <2>2. CASE d # c
    <3>1. /\ pc'[d] = pc[d]
          /\ request'[d] = request[d]
          /\ finalAtStart'[d] = finalAtStart[d]
      BY <2>2 DEF TypeOK
    <3>. QED
      BY <3>1 DEF FetchInv, JobOK
  <2>. QED
    BY <2>1, <2>2
<1>. QED
  BY <1>1, <1>2, <1>3 DEF FetchInv

\* An answer, or a failure, of one job keeps what every await has established.
LEMMA JobStepOK ==
  ASSUME TypeOK, FetchInv, NEW c \in Calls, NEW i \in Slots, JobStep(c, i)
  PROVE  FetchInv'
<1>. USE DEF callVars, chainVars, targetVars
<1>1. /\ UNCHANGED <<last, live, endpoint, request, finalAtStart>>
      /\ pc[c][i] \in Awaits
      /\ \E l \in Awaits \cup {"done", "failed"} : pc' = [pc EXCEPT ![c][i] = l]
  BY Zenon DEF JobStep, GetBlocksAtHeight, GetBlockByHash, GetFinalizationSummary,
     GetAndWrapTransactions, GetAndWrapSpecialEvents, CallFails, Awaits
<1>2. /\ i \in DOMAIN request[c]
      /\ request[c][i] \in Heights
      /\ request[c] # <<>>
  <2>1. i \in DOMAIN request[c]
    BY <1>1 DEF FetchInv, JobOK, Awaits
  <2>. QED
    BY <2>1, RequestHeights DEF TypeOK
<1>3. /\ endpoint[c] \in Endpoints
      /\ finalAtStart[c] <= last[endpoint[c]]
      /\ finalAtStart[c] \in Nat /\ last[endpoint[c]] \in Nat /\ request[c][i] \in Nat
  BY <1>2, ChainAssumption DEF TypeOK, ChainTypeOK, FetchInv, CallOK, Heights
<1>4. LiveAbove'
  BY <1>1 DEF FetchInv, LiveAbove
<1>5. ASSUME NEW d \in Calls, NEW k \in Slots, <<d, k>> # <<c, i>>
      PROVE  /\ pc'[d][k] = pc[d][k]
             /\ hash'[d][k] = hash[d][k]
             /\ info'[d][k] = info[d][k]
             /\ summary'[d][k] = summary[d][k]
             /\ transactions'[d][k] = transactions[d][k]
             /\ specialEvents'[d][k] = specialEvents[d][k]
  <2>. USE <1>5 DEF TypeOK, BlockTable
  <2>1. CASE GetBlocksAtHeight(c, i)
    BY <2>1 DEF GetBlocksAtHeight
  <2>2. CASE GetBlockByHash(c, i)
    BY <2>2 DEF GetBlockByHash
  <2>3. CASE GetFinalizationSummary(c, i)
    BY <2>3 DEF GetFinalizationSummary
  <2>4. CASE GetAndWrapTransactions(c, i)
    BY <2>4 DEF GetAndWrapTransactions
  <2>5. CASE GetAndWrapSpecialEvents(c, i)
    BY <2>5 DEF GetAndWrapSpecialEvents
  <2>6. CASE CallFails(c, i)
    BY <2>6 DEF CallFails, blockVars
  <2>. QED
    BY <2>1, <2>2, <2>3, <2>4, <2>5, <2>6 DEF JobStep
<1>6. JobOK(c, i)'
  <2>. USE <1>2 DEF HashKnown, InfoKnown, SummaryKnown, TransactionsKnown
  <2>0. JobOK(c, i) /\ \A x \in Blocks : x # NoBlock
    BY ChainAssumption DEF FetchInv
  <2>1. CASE GetBlocksAtHeight(c, i)
    <3>1. PICK b \in HashAt(c, i) : hash' = [hash EXCEPT ![c][i] = b]
      BY <2>1 DEF GetBlocksAtHeight
    <3>2. request[c][i] <= finalAtStart[c] => b = Final(request[c][i])
      <4>1. SUFFICES ASSUME request[c][i] <= finalAtStart[c] PROVE b = Final(request[c][i])
        OBVIOUS
      <4>2. request[c][i] <= last[endpoint[c]]
        BY <1>3, <4>1
      <4>3. BlocksAtHeight(endpoint[c], request[c][i]) = {Final(request[c][i])}
        BY <1>3, <4>2, FinalBlockAlone DEF FetchInv
      <4>. QED
        BY <4>3 DEF HashAt, FirstAtHeight
    <3>3. hash'[c][i] = b /\ pc'[c][i] = "info"
      BY <2>1, <3>1 DEF GetBlocksAtHeight, TypeOK, BlockTable
    <3>. QED
      BY <1>1, <3>2, <3>3 DEF JobOK
  <2>2. CASE GetBlockByHash(c, i)
    <3>1. PICK b \in BlockInfo(endpoint[c], hash[c][i]) : info' = [info EXCEPT ![c][i] = b]
      BY <2>2 DEF GetBlockByHash
    <3>2. hash[c][i] \in Blocks \cup {NoBlock}
      BY DEF TypeOK, BlockTable
    <3>3. b \in Blocks /\ (hash[c][i] # NoBlock => b = hash[c][i])
      BY <1>3, <3>2, InfoIsBlock
    <3>4. /\ info'[c][i] = b
          /\ pc[c][i] = "info" /\ pc'[c][i] = "summary"
          /\ hash' = hash
      BY <2>2, <3>1 DEF GetBlockByHash, TypeOK, BlockTable
    <3>5. Final(request[c][i]) \in Blocks
      BY ChainAssumption DEF Final, Blocks
    <3>. QED
      BY <1>1, <2>0, <3>3, <3>4, <3>5 DEF JobOK
  <2>3. CASE GetFinalizationSummary(c, i)
    <3>1. PICK b \in Part(c, i) : summary' = [summary EXCEPT ![c][i] = b]
      BY <2>3 DEF GetFinalizationSummary
    <3>2. pc[c][i] = "summary" /\ pc'[c][i] = "transactions" /\ summary'[c][i] = b
          /\ UNCHANGED <<hash, info>>
      BY <2>3, <3>1 DEF GetFinalizationSummary, TypeOK, BlockTable
    <3>3. b = info[c][i]
      BY <1>3, <2>0, <3>2, InfoIsBlock DEF JobOK, Part
    <3>. QED
      BY <1>1, <2>0, <3>2, <3>3 DEF JobOK
  <2>4. CASE GetAndWrapTransactions(c, i)
    <3>1. PICK b \in Part(c, i) :
            transactions' = [transactions EXCEPT ![c][i] = b]
      BY <2>4 DEF GetAndWrapTransactions
    <3>2. pc[c][i] = "transactions" /\ pc'[c][i] = "specialEvents" /\ transactions'[c][i] = b
          /\ UNCHANGED <<hash, info, summary>>
      BY <2>4, <3>1 DEF GetAndWrapTransactions, TypeOK, BlockTable
    <3>3. b = info[c][i]
      BY <1>3, <2>0, <3>2, InfoIsBlock DEF JobOK, Part
    <3>. QED
      BY <1>1, <2>0, <3>2, <3>3 DEF JobOK
  <2>5. CASE GetAndWrapSpecialEvents(c, i)
    <3>1. PICK b \in Part(c, i) :
            specialEvents' = [specialEvents EXCEPT ![c][i] = b]
      BY <2>5 DEF GetAndWrapSpecialEvents
    <3>2. pc[c][i] = "specialEvents" /\ pc'[c][i] = "done" /\ specialEvents'[c][i] = b
          /\ UNCHANGED <<hash, info, summary, transactions>>
      BY <2>5, <3>1 DEF GetAndWrapSpecialEvents, TypeOK, BlockTable
    <3>3. b = info[c][i]
      BY <1>3, <2>0, <3>2, InfoIsBlock DEF JobOK, Part
    <3>. QED
      BY <1>1, <2>0, <3>2, <3>3 DEF JobOK
  <2>6. CASE CallFails(c, i)
    <3>1. pc'[c][i] = "failed"
      BY <2>6 DEF CallFails, TypeOK
    <3>. QED
      BY <1>1, <3>1 DEF JobOK
  <2>. QED
    BY <2>1, <2>2, <2>3, <2>4, <2>5, <2>6 DEF JobStep
<1>7. ASSUME NEW d \in Calls, NEW k \in Slots PROVE JobOK(d, k)'
  <2>1. CASE <<d, k>> = <<c, i>>
    BY <1>6, <2>1
  <2>2. CASE <<d, k>> # <<c, i>>
    BY <1>1, <1>5, <2>2 DEF FetchInv, JobOK
  <2>. QED
    BY <2>1, <2>2
<1>8. ASSUME NEW d \in Calls PROVE CallOK(d)'
  <2>1. /\ \A k \in Slots : pc[d][k] = "done" => <<d, k>> # <<c, i>>
        /\ DOMAIN request[d] \subseteq Slots
        /\ CallOK(d) /\ CallOK(c)
    BY <1>1, RequestHeights DEF Awaits, TypeOK, FetchInv
  <2>2. status[c] \notin {"idle", "resolved"}
    BY <1>1, <1>2, <2>1 DEF CallOK, Awaits
  <2>3. status'[d] # status[d] => d = c /\ status'[d] # "idle"
    BY <2>2 DEF JobStep, GetBlocksAtHeight, GetBlockByHash, GetFinalizationSummary,
       GetAndWrapTransactions, GetAndWrapSpecialEvents, CallFails, SettleOnSuccess,
       SettleOnError, TypeOK
  <2>4. CASE status'[d] = status[d]
    BY <1>1, <1>5, <2>1, <2>4 DEF CallOK
  <2>5. CASE status'[d] # status[d]
    <3>1. d = c /\ status'[c] # "idle"
      BY <2>3, <2>5
    <3>2. CASE GetAndWrapSpecialEvents(c, i)
      <4>1. status'[c] = "resolved" => \A k \in DOMAIN request[c] : k = i \/ pc[c][k] = "done"
        BY <2>2, <3>2 DEF GetAndWrapSpecialEvents, SettleOnSuccess, TypeOK
      <4>2. pc'[c][i] = "done"
        BY <3>2 DEF GetAndWrapSpecialEvents, TypeOK
      <4>. QED
        BY <1>1, <1>5, <2>1, <3>1, <4>1, <4>2 DEF CallOK
    <3>3. CASE ~ GetAndWrapSpecialEvents(c, i)
      <4>1. status'[c] # "resolved"
        BY <2>2, <3>3 DEF JobStep, GetBlocksAtHeight, GetBlockByHash, GetFinalizationSummary,
           GetAndWrapTransactions, CallFails, SettleOnError, TypeOK
      <4>. QED
        BY <1>1, <2>1, <3>1, <4>1 DEF CallOK
    <3>. QED
      BY <3>2, <3>3
  <2>. QED
    BY <2>4, <2>5
<1>. QED
  BY <1>4, <1>7, <1>8 DEF FetchInv

\* FetchInv is inductive, given the types.
LEMMA NextFetch == TypeOK /\ FetchInv /\ [Next]_vars => FetchInv'
<1>. SUFFICES ASSUME TypeOK, FetchInv, [Next]_vars PROVE FetchInv'
  OBVIOUS
<1>1. CASE ChainMoves
  <2>1. LiveAbove' /\ \A e \in Endpoints : last[e] <= last'[e]
    BY <1>1, ChainStep DEF ChainMoves, FetchInv
  <2>2. ASSUME NEW c \in Calls PROVE CallOK(c)'
    <3>1. /\ endpoint[c] \in Endpoints /\ finalAtStart[c] \in Int
          /\ last[endpoint[c]] \in Int /\ last'[endpoint[c]] \in Int
          /\ endpoint'[c] = endpoint[c] /\ finalAtStart'[c] = finalAtStart[c]
      BY <1>1, NextType, ChainAssumption DEF Next, ChainMoves, callVars, TypeOK, ChainTypeOK, Heights
    <3>2. finalAtStart[c] <= last'[endpoint[c]]
      BY <2>1, <3>1 DEF FetchInv, CallOK
    <3>. QED
      BY <1>1, <3>1, <3>2 DEF ChainMoves, callVars, FetchInv, CallOK
  <2>3. ASSUME NEW c \in Calls, NEW i \in Slots PROVE JobOK(c, i)'
    BY <1>1 DEF ChainMoves, callVars, blockVars, FetchInv, JobOK
  <2>. QED
    BY <2>1, <2>2, <2>3 DEF FetchInv
<1>2. CASE \E e \in Endpoints : GetFinalizedHeight(e) \/ GetBestHeight(e)
  BY <1>2 DEF GetFinalizedHeight, GetBestHeight, chainVars, callVars, blockVars,
     FetchInv, LiveAbove, CallOK, JobOK
<1>3. CASE UNCHANGED vars
  BY <1>3 DEF vars, chainVars, callVars, blockVars, FetchInv, LiveAbove, CallOK, JobOK
<1>. QED
  BY <1>1, <1>2, <1>3, StartStep, JobStepOK DEF Next

\* What every await of getAndWrapBlock has established, for every behaviour.
THEOREM FetchInvariant == Spec => [](TypeOK /\ FetchInv)
<1>1. Init => TypeOK /\ FetchInv
  BY InitType, InitFetch
<1>2. TypeOK /\ FetchInv /\ [Next]_vars => TypeOK' /\ FetchInv'
  BY NextType, NextFetch
<1>. QED
  BY <1>1, <1>2, PTL DEF Spec

\* The parts of a wrapped block belong together, however the chain moves
\* between the calls of getAndWrapBlock.
THEOREM FetchCoherent == Spec => []Coherent
<1>1. TypeOK /\ FetchInv => Coherent
  BY DEF FetchInv, JobOK, Coherent, Wrapped, SummaryKnown, TransactionsKnown
<1>. QED
  BY <1>1, FetchInvariant, PTL

\* A height that was final at the serving endpoint when fetchBlocks started
\* yields the finalized block of that height.
THEOREM FetchCanonical == Spec => []CanonicalWhenFinal
<1>1. TypeOK /\ FetchInv => CanonicalWhenFinal
  BY DEF FetchInv, JobOK, CanonicalWhenFinal, Wrapped, InfoKnown
<1>. QED
  BY <1>1, FetchInvariant, PTL

\* A resolved batch holds a complete block for every height.
THEOREM FetchComplete == Spec => []ResolvedComplete
<1>1. TypeOK /\ FetchInv => ResolvedComplete
  <2>. SUFFICES ASSUME TypeOK, FetchInv, NEW c \in Calls, status[c] = "resolved",
                       NEW i \in DOMAIN request[c]
                PROVE  pc[c][i] = "done" /\ specialEvents[c][i] # NoBlock
    BY DEF ResolvedComplete
  <2>1. i \in Slots
    BY RequestHeights DEF TypeOK
  <2>2. pc[c][i] = "done"
    BY DEF FetchInv, CallOK
  <2>3. specialEvents[c][i] \in Blocks
    BY <2>1, <2>2 DEF FetchInv, JobOK, InfoKnown
  <2>. QED
    BY <2>2, <2>3, ChainAssumption
<1>. QED
  BY <1>1, FetchInvariant, PTL

------------------------------------------------------------------------------

\* FetchService never believes more final than the endpoint has finalized, and
\* so no batch reaches beyond what was final when it started.  Both need a
\* single endpoint: two endpoints may disagree on how far finality is.
FinalTarget ==
  /\ \A e \in Endpoints : latestFinalized <= last[e]
  /\ \A c \in Calls : \A i \in DOMAIN request[c] : request[c][i] <= finalAtStart[c]

\* With one endpoint and without --unfinalized-blocks, fetchBlocks delivers the
\* finalized block of every height asked for.
THEOREM FetchDeliversCanonical ==
  ASSUME NEW e0, Endpoints = {e0}, UnfinalizedBlocks = FALSE
  PROVE  Spec => []DeliversCanonical
<1>1. Init => FinalTarget
  BY DEF Init, ChainInit, FinalTarget
<1>2. TypeOK /\ FetchInv /\ FinalTarget /\ [Next]_vars => FinalTarget'
  <2>. SUFFICES ASSUME TypeOK, FetchInv, FinalTarget, [Next]_vars PROVE FinalTarget'
    OBVIOUS
  <2>0. TypeOK' /\ last[e0] \in Int /\ last'[e0] \in Int /\ latestFinalized \in Int
    BY NextType, ChainAssumption DEF TypeOK, ChainTypeOK, Heights
  <2>1. CASE ChainMoves
    <3>1. last[e0] <= last'[e0]
      BY <2>1, ChainStep DEF ChainMoves, FetchInv
    <3>. QED
      BY <2>0, <2>1, <3>1 DEF ChainMoves, FinalTarget, targetVars, callVars
  <2>2. ASSUME NEW e \in Endpoints, GetFinalizedHeight(e) PROVE FinalTarget'
    BY <2>0, <2>2 DEF GetFinalizedHeight, FinalizedHeight, BlockInfo, Final, FinalTarget, chainVars, callVars
  <2>3. ASSUME NEW e \in Endpoints, GetBestHeight(e) PROVE FinalTarget'
    BY <2>3 DEF GetBestHeight, FinalTarget, chainVars, callVars
  <2>4. ASSUME NEW e \in Endpoints, NEW c \in Calls, NEW hs \in Requests, FetchBlocks(c, e, hs)
        PROVE FinalTarget'
    <3>1. \A i \in DOMAIN hs : hs[i] <= last[e]
      <4>1. \A i \in DOMAIN hs : hs[i] \in Int
        BY RequestHeights, ChainAssumption DEF Heights
      <4>. QED
        BY <2>0, <2>4, <4>1 DEF FetchBlocks, LatestHeight, FinalTarget
    <3>2. ASSUME NEW d \in Calls, NEW i \in DOMAIN request'[d]
          PROVE  request'[d][i] <= finalAtStart'[d]
      <4>1. CASE d = c
        BY <2>4, <3>1, <3>2, <4>1 DEF FetchBlocks, TypeOK
      <4>2. CASE d # c
        BY <2>4, <3>2, <4>2 DEF FetchBlocks, TypeOK, FinalTarget
      <4>. QED
        BY <4>1, <4>2
    <3>. QED
      BY <2>4, <3>2 DEF FetchBlocks, FinalTarget, targetVars, chainVars
  <2>5. ASSUME NEW c \in Calls, NEW i \in Slots, JobStep(c, i) PROVE FinalTarget'
    <3>1. UNCHANGED <<last, latestFinalized, request, finalAtStart>>
      BY <2>5, Zenon DEF JobStep, GetBlocksAtHeight, GetBlockByHash, GetFinalizationSummary,
         GetAndWrapTransactions, GetAndWrapSpecialEvents, CallFails, callVars, chainVars,
         targetVars
    <3>. QED
      BY <3>1 DEF FinalTarget
  <2>6. CASE UNCHANGED vars
    BY <2>6 DEF vars, FinalTarget, targetVars, chainVars, callVars
  <2>. QED
    BY <2>1, <2>2, <2>3, <2>4, <2>5, <2>6 DEF Next
<1>3. TypeOK /\ FetchInv /\ FinalTarget => DeliversCanonical
  <2>. SUFFICES ASSUME TypeOK, FetchInv, FinalTarget,
                       NEW c \in Calls, status[c] = "resolved", NEW i \in DOMAIN request[c]
                PROVE  info[c][i] = Final(request[c][i])
    BY DEF DeliversCanonical
  <2>1. i \in Slots
    BY RequestHeights DEF TypeOK
  <2>. QED
    BY <2>1 DEF FetchInv, CallOK, JobOK, InfoKnown, FinalTarget
<1>. QED
  BY <1>1, <1>2, <1>3, FetchInvariant, PTL DEF Spec

==============================================================================
