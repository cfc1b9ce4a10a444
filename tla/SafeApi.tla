------------------------------- MODULE SafeApi -------------------------------
(***************************************************************************)
(* The `api` a mapping handler is given: IndexerManager.getApi asks        *)
(* ConcordiumApiService.getSafeApi for a client bound to the block being   *)
(* indexed (packages/node/src/concordium/safe-api.ts), wrapped in a proxy  *)
(* that retries every method call on another connection of the pool        *)
(* (packages/node/src/concordium/api.service.concordium.ts).               *)
(*                                                                         *)
(* One handler run is modelled: one proxy and the method calls it makes,   *)
(* which may overlap (Promise.all in a mapping).  The methods of the       *)
(* client fall into five kinds and are abstracted to them; what an answer  *)
(* says is abstracted to the blocks it is about.                           *)
(***************************************************************************)
EXTENDS ChainNode, Sequences

CONSTANTS
  Invocations,        \* bound: the method calls of one handler run
  MaxRetries,         \* maxRetries, 5 in the code
  ErrorCodes,         \* the codes a failing request can carry
  retryErrorCodes,    \* those the proxy retries
  NotFound,           \* the code of a request about a block the node lacks
  NoConnectedApi,     \* the error of a pool without a connected endpoint
  NoEndpoint

ASSUME SafeApiAssumption ==
  /\ MaxRetries \in Nat \ {0}
  /\ retryErrorCodes \subseteq ErrorCodes
  /\ NotFound \in ErrorCodes \ retryErrorCodes
  /\ NoConnectedApi \notin ErrorCodes
  /\ NoEndpoint \notin Endpoints

VARIABLES
  connected,    \* the endpoints the pool has a working connection to
  target,       \* the connection the proxy was created on
  pinned,       \* blockHash and blockHeight of the client
  method,       \* method[r]: the kind of the method that call r names
  status,       \* status[r]: the promise that call r returned
  currentApi,   \* currentApi[r]: the connection of the next attempt
  retries,      \* retries[r]
  errors,       \* history: the error codes call r has met
  reason,       \* reason[r]: what call r was rejected with
  answer        \* answer[r]: the blocks the result of call r is about

poolVars == <<chainVars, connected>>
vars == <<poolVars, target, pinned, method, status, currentApi, retries, errors,
          reason, answer>>

Kinds == {"pinned", "stream", "blocksAtHeight", "anonymityRevokers", "unsupported"}

\* The kinds whose request is awaited inside the retry loop.
Retried == {"pinned", "blocksAtHeight"}

Init ==
  /\ ChainInit
  /\ connected = Endpoints
  /\ target = NoEndpoint
  /\ pinned = NoBlock
  /\ method \in [Invocations -> Kinds]
  /\ status = [r \in Invocations |-> "idle"]
  /\ currentApi = [r \in Invocations |-> NoEndpoint]
  /\ retries = [r \in Invocations |-> 0]
  /\ errors = [r \in Invocations |-> <<>>]
  /\ reason = [r \in Invocations |-> "none"]
  /\ answer = [r \in Invocations |-> {}]

------------------------------------------------------------------------------

\* IndexerManager.getApi: the client of a block that was fetched from some
\* endpoint, on a connection of the pool's choice.
GetSafeApi(e, b) ==
  /\ target = NoEndpoint
  /\ e \in connected
  /\ \E f \in Endpoints : b \in Known(f)
  /\ target' = e
  /\ pinned' = b
  /\ UNCHANGED <<poolVars, method, status, currentApi, retries, errors, reason, answer>>

\* A method of the proxy is called: the first attempt goes to its target.
Invoke(r) ==
  /\ target # NoEndpoint
  /\ status[r] = "idle"
  /\ status' = [status EXCEPT ![r] = "calling"]
  /\ currentApi' = [currentApi EXCEPT ![r] = target]
  /\ UNCHANGED <<poolVars, target, pinned, method, retries, errors, reason, answer>>

Resolve(r, blocks) ==
  /\ status' = [status EXCEPT ![r] = "resolved"]
  /\ answer' = [answer EXCEPT ![r] = blocks]
  /\ UNCHANGED <<poolVars, target, pinned, method, currentApi, retries, errors, reason>>

\* Mutant, the hash is not passed on.
AnswerOfTip(r) == BlockInfo(currentApi[r], NoBlock)

\* What the node answers to a request that names the pinned hash.
Answer(r) == BlockInfo(currentApi[r], pinned)

\* getBlockInfo, getAccountInfo, ...: the request names the pinned hash.
CallPinned(r) ==
  /\ status[r] = "calling"
  /\ method[r] = "pinned"
  /\ \E b \in Answer(r) : Resolve(r, {b})

\* getBlocksAtHeight: bound to the height, not to the hash.
CallBlocksAtHeight(r) ==
  /\ status[r] = "calling"
  /\ method[r] = "blocksAtHeight"
  /\ Resolve(r, BlocksAtHeight(currentApi[r], pinned.height))

\* getAccountList, getBakerList, ...: the iterable is returned at once, so the
\* promise of the proxy resolves before anything has been sent.
CallStream(r) ==
  /\ status[r] = "calling"
  /\ method[r] = "stream"
  /\ status' = [status EXCEPT ![r] = "iterating"]
  /\ UNCHANGED <<poolVars, target, pinned, method, currentApi, retries, errors,
                 reason, answer>>

\* The mapping reads the stream to its end ...
StreamEnds(r) ==
  /\ status[r] = "iterating"
  /\ \E b \in Answer(r) : Resolve(r, {b})

\* ... or the stream breaks off, outside the retry loop.
StreamBreaks(r, code) ==
  /\ status[r] = "iterating"
  /\ code = NotFound => BlockInfo(currentApi[r], pinned) = {}
  /\ status' = [status EXCEPT ![r] = "rejected"]
  /\ reason' = [reason EXCEPT ![r] = code]
  /\ errors' = [errors EXCEPT ![r] = Append(@, code)]
  /\ UNCHANGED <<poolVars, target, pinned, method, currentApi, retries, answer>>

\* Mutant, what a method throws before it returns a promise is lost.
ThrowLocallyNever(r, error) == FALSE

\* An error without a code, thrown before anything is sent.
ThrowLocally(r, error) ==
  /\ status[r] = "calling"
  /\ status' = [status EXCEPT ![r] = "rejected"]
  /\ reason' = [reason EXCEPT ![r] = error]
  /\ UNCHANGED <<poolVars, target, pinned, method, currentApi, retries, errors, answer>>

\* getConsensusStatus, sendAccountTransaction, ...: not supported.
CallUnsupported(r) == method[r] = "unsupported" /\ ThrowLocally(r, "Error")

\* getAnonymityRevokers calls itself until the stack is exhausted.
CallAnonymityRevokers(r) ==
  method[r] = "anonymityRevokers" /\ ThrowLocally(r, "RangeError")

\* Mutant, every error is retried.
RetryableAny(code) == TRUE

\* retryErrorCodes.includes(error?.code)
Retryable(code) == code \in retryErrorCodes

\* retries++
CountRetry(r) == retries[r] + 1

\* Mutant, off by one: <= for <.
LoopsOneTooMany(r) == CountRetry(r) <= MaxRetries

\* The condition of the loop, after retries++.
Loops(r) == CountRetry(r) < MaxRetries

\* The catch clause of the retry loop.  A connection is taken from the pool
\* even after the last attempt; when the pool has none, its error escapes.
CallFails(r, code) ==
  /\ status[r] = "calling"
  /\ method[r] \in Retried
  /\ code = NotFound => method[r] = "pinned" /\ BlockInfo(currentApi[r], pinned) = {}
  /\ errors' = [errors EXCEPT ![r] = Append(@, code)]
  /\ \/ /\ ~ Retryable(code)
        /\ status' = [status EXCEPT ![r] = "rejected"]
        /\ reason' = [reason EXCEPT ![r] = code]
        /\ UNCHANGED <<currentApi, retries>>
     \/ /\ Retryable(code)
        /\ connected = {}
        /\ status' = [status EXCEPT ![r] = "rejected"]
        /\ reason' = [reason EXCEPT ![r] = NoConnectedApi]
        /\ UNCHANGED <<currentApi, retries>>
     \/ /\ Retryable(code)
        /\ \E e \in connected : currentApi' = [currentApi EXCEPT ![r] = e]
        /\ retries' = [retries EXCEPT ![r] = CountRetry(r)]
        /\ IF Loops(r)
           THEN UNCHANGED <<status, reason>>
           ELSE /\ status' = [status EXCEPT ![r] = "rejected"]
                /\ reason' = [reason EXCEPT ![r] = code]
  /\ UNCHANGED <<poolVars, target, pinned, method, answer>>

------------------------------------------------------------------------------

\* The pool loses and regains connections (ConnectionPoolService of node-core).
Disconnect(e) ==
  /\ e \in connected
  /\ connected' = connected \ {e}
  /\ UNCHANGED <<chainVars, target, pinned, method, status, currentApi, retries,
                 errors, reason, answer>>

Connect(e) ==
  /\ e \notin connected
  /\ connected' = connected \cup {e}
  /\ UNCHANGED <<chainVars, target, pinned, method, status, currentApi, retries,
                 errors, reason, answer>>

ChainMoves ==
  /\ ChainNext
  /\ UNCHANGED <<connected, target, pinned, method, status, currentApi, retries,
                 errors, reason, answer>>

CallStep(r) ==
  \/ CallPinned(r)
  \/ CallBlocksAtHeight(r)
  \/ CallStream(r)
  \/ StreamEnds(r)
  \/ CallUnsupported(r)
  \/ CallAnonymityRevokers(r)
  \/ \E code \in ErrorCodes : StreamBreaks(r, code) \/ CallFails(r, code)

Next ==
  \/ ChainMoves
  \/ \E e \in Endpoints :
       Disconnect(e) \/ Connect(e) \/ \E b \in Blocks : GetSafeApi(e, b)
  \/ \E r \in Invocations : Invoke(r) \/ CallStep(r)

Spec == Init /\ [][Next]_vars

\* Every request is answered or fails.
FairSpec == Spec /\ \A r \in Invocations : WF_vars(CallStep(r))

------------------------------------------------------------------------------

TypeOK ==
  /\ ChainTypeOK
  /\ connected \subseteq Endpoints
  /\ target \in Endpoints \cup {NoEndpoint}
  /\ pinned \in Blocks \cup {NoBlock}
  /\ method \in [Invocations -> Kinds]
  /\ status \in [Invocations -> {"idle", "calling", "iterating", "resolved", "rejected"}]
  /\ currentApi \in [Invocations -> Endpoints \cup {NoEndpoint}]
  /\ retries \in [Invocations -> 0..MaxRetries]
  /\ errors \in [Invocations -> Seq(ErrorCodes)]
  /\ reason \in [Invocations ->
                   ErrorCodes \cup {NoConnectedApi, "none", "Error", "RangeError"}]
  /\ answer \in [Invocations -> SUBSET Blocks]

\* SafeConcordiumGRPCClient: a handler sees the state as of its own block,
\* whichever endpoint answers after however many retries and however far that
\* endpoint has moved on.
PinnedAnswer ==
  \A r \in Invocations :
    status[r] = "resolved" /\ method[r] \in {"pinned", "stream"} => answer[r] = {pinned}

\* getSafeApi: only retryable errors are retried, at most MaxRetries attempts
\* are made, and a call that gives up does so with the error of its last
\* attempt, unless the pool ran dry.
RetriesAccounted ==
  \A r \in Invocations : method[r] \in Retried =>
    LET n == Len(errors[r]) IN
    /\ \A k \in 1..n : k < n \/ status[r] # "rejected" => errors[r][k] \in retryErrorCodes
    /\ status[r] \in {"calling", "resolved"} => n < MaxRetries
    /\ status[r] = "rejected" =>
         /\ n \in 1..MaxRetries
         /\ \/ reason[r] = NoConnectedApi
            \/ reason[r] = errors[r][n] /\ (reason[r] \in retryErrorCodes => n = MaxRetries)

\* getSafeApi: a call a mapping awaits is answered or rejected, also while
\* connections come and go and every attempt fails.
CallSettles ==
  \A r \in Invocations : status[r] = "calling" ~> status[r] \in {"resolved", "rejected"}

\* "other than retryErrorCodes, other errors does not have anything to do with
\* network request, retrying would not change its outcome"
\* (api.service.concordium.ts:96): no connected endpoint could answer a request
\* that was given up without a retry.
RetryWouldNotChange ==
  \A r \in Invocations :
    status[r] = "rejected" /\ method[r] = "pinned" /\ Len(errors[r]) = 1
      /\ reason[r] \in ErrorCodes \ retryErrorCodes =>
        \A e \in connected : BlockInfo(e, pinned) = {}

==============================================================================
