------------------------------ MODULE ChainNode ------------------------------
(***************************************************************************)
(* The Concordium nodes behind the configured endpoints, as far as the     *)
(* gRPC client of packages/node/src/concordium/api.concordium.ts sees them *)
(* (external: neither the nodes nor @concordium/node-sdk are in this       *)
(* repository).                                                            *)
(*                                                                         *)
(* All nodes follow one chain but each at its own pace, so an endpoint may *)
(* lag behind another.  A height has a single block once it is finalized;  *)
(* before that a node may hold several live blocks of the height.  Blocks  *)
(* are named after the fact: the block of height h that is finally         *)
(* finalized is Final(h), whatever order the node lists it in.             *)
(***************************************************************************)
EXTENDS Integers

CONSTANTS
  Endpoints,    \* the endpoints of the connection pool
  MaxHeight,    \* bound: the highest block that is ever produced
  Forks,        \* names that tell apart the blocks of one height
  FinalFork,    \* the fork that wins
  NoBlock       \* `undefined`: no block, or no block hash

Heights == 0..MaxHeight

Blocks == [height : Heights, fork : Forks]

ASSUME ChainAssumption ==
  /\ Endpoints # {}
  /\ MaxHeight \in Nat
  /\ FinalFork \in Forks
  /\ NoBlock \notin Blocks

VARIABLES
  last,         \* last[e]: height of the last finalized block of endpoint e
  live          \* live[e]: the blocks endpoint e holds above last[e]

chainVars == <<last, live>>

Final(h) == [height |-> h, fork |-> FinalFork]

\* Every block endpoint e can answer a query about.
Known(e) == {Final(h) : h \in 0..last[e]} \cup live[e]

\* client.getBlocksAtHeight: the live and the finalized blocks of a height,
\* in no particular order; none for a height the node has not reached.
BlocksAtHeight(e, h) == {b \in Known(e) : b.height = h}

\* client.getBlockInfo: without a hash the node answers for its last
\* finalized block (ConcordiumApi.getFinalizedBlock relies on it); a hash it
\* does not know, or no longer knows, is an error and has no answer here.
BlockInfo(e, hash) ==
  IF hash = NoBlock THEN {Final(last[e])} ELSE {hash} \cap Known(e)

\* client.getConsensusStatus().bestBlockHeight: the height of the highest
\* block the node knows (a set of one height).
BestHeight(e) ==
  {h \in Heights : /\ \E b \in Known(e) : b.height = h
                   /\ \A b \in Known(e) : b.height <= h}

ChainInit ==
  /\ last = [e \in Endpoints |-> 0]
  /\ live = [e \in Endpoints |-> {}]

\* A node receives a block on top of one it knows.
Arrive(e, b) ==
  /\ b \notin Known(e)
  /\ b.height > last[e]
  /\ \E parent \in Known(e) : parent.height = b.height - 1
  /\ live' = [live EXCEPT ![e] = @ \cup {b}]
  /\ UNCHANGED last

\* A node finalizes the next height and drops the blocks that lost.
Finalize(e) ==
  /\ Final(last[e] + 1) \in live[e]
  /\ last' = [last EXCEPT ![e] = @ + 1]
  /\ live' = [live EXCEPT ![e] = {b \in @ : b.height > last[e] + 1}]

ChainNext ==
  \E e \in Endpoints : Finalize(e) \/ \E b \in Blocks : Arrive(e, b)

ChainTypeOK ==
  /\ last \in [Endpoints -> Heights]
  /\ live \in [Endpoints -> SUBSET Blocks]

==============================================================================
