---------------------------- MODULE SafeApiProofs ----------------------------
(***************************************************************************)
(* Proofs about SafeApi, for every pool, number of overlapping calls,      *)
(* retry limit and set of retried error codes.                             *)
(*                                                                         *)
(* PinnedAnswer needs to know that the block of the proxy cannot change    *)
(* once a call is under way; RetriesAccounted, that the counter of the     *)
(* retry loop agrees with the errors met so far.                           *)
(***************************************************************************)
EXTENDS SafeApi, TLAPS

\* The proxy exists, with its block, before any call is made through it.
ProxyFirst ==
  /\ target # NoEndpoint => pinned \in Blocks
  /\ \A r \in Invocations :
       /\ status[r] # "idle" => target # NoEndpoint
       /\ status[r] \in {"calling", "iterating"} => currentApi[r] \in Endpoints
       /\ status[r] = "iterating" => method[r] = "stream"

\* The retry loop counts the errors it has met.
Counted ==
  \A r \in Invocations :
    /\ status[r] \in {"idle", "calling"} => Len(errors[r]) = retries[r] /\ retries[r] < MaxRetries
    /\ status[r] = "idle" => errors[r] = <<>>

SafeInv == ProxyFirst /\ Counted /\ PinnedAnswer /\ RetriesAccounted

------------------------------------------------------------------------------

\* The initial state is well typed and nothing has been called.
LEMMA InitSafe == Init => TypeOK /\ SafeInv
<1>. SUFFICES ASSUME Init PROVE TypeOK /\ SafeInv
  OBVIOUS
<1>1. ChainTypeOK
  BY ChainAssumption DEF Init, ChainInit, ChainTypeOK, Heights
<1>2. TypeOK
  BY <1>1, SafeApiAssumption DEF Init, TypeOK
<1>3. SafeInv
  BY SafeApiAssumption DEF Init, SafeInv, ProxyFirst, Counted, PinnedAnswer, RetriesAccounted
<1>. QED
  BY <1>2, <1>3

\* The nodes keep their types when they move on.
LEMMA ChainMovesType == ChainTypeOK /\ ChainNext => ChainTypeOK'
<1>. SUFFICES ASSUME ChainTypeOK, ChainNext PROVE ChainTypeOK'
  OBVIOUS
<1>1. ASSUME NEW e \in Endpoints, Finalize(e) PROVE ChainTypeOK'
  <2>1. Final(last[e] + 1) \in Blocks
    BY <1>1 DEF Finalize, ChainTypeOK
  <2>2. last[e] + 1 \in Heights
    BY <2>1 DEF Final, Blocks
  <2>. QED
    BY <1>1, <2>2 DEF Finalize, ChainTypeOK
<1>2. ASSUME NEW e \in Endpoints, NEW b \in Blocks, Arrive(e, b) PROVE ChainTypeOK'
  BY <1>2 DEF Arrive, ChainTypeOK
<1>. QED
  BY <1>1, <1>2 DEF ChainNext

\* A node answers a request that names a block with that block or not at all.
LEMMA AnswerIsPinned ==
  ASSUME NEW e, pinned \in Blocks, NEW b \in BlockInfo(e, pinned)
  PROVE  b = pinned
BY ChainAssumption DEF BlockInfo

\* What getBlocksAtHeight answers are blocks.
LEMMA ListedAreBlocks ==
  ASSUME TypeOK, NEW e \in Endpoints, NEW h
  PROVE  BlocksAtHeight(e, h) \subseteq Blocks
<1>1. \A k \in 0..last[e] : Final(k) \in Blocks
  BY ChainAssumption DEF TypeOK, ChainTypeOK, Final, Blocks, Heights
<1>. QED
  BY <1>1 DEF BlocksAtHeight, Known, TypeOK, ChainTypeOK

------------------------------------------------------------------------------

\* A call that ends with a result keeps the invariant if the result of a
\* pinned method is about the pinned block.
LEMMA ResolveStep ==
  ASSUME TypeOK, SafeInv, NEW r \in Invocations, NEW blocks \in SUBSET Blocks,
         Resolve(r, blocks), status[r] \in {"calling", "iterating"},
         method[r] \in {"pinned", "stream"} => blocks = {pinned}
  PROVE  TypeOK' /\ SafeInv'
<1>. USE DEF Resolve, poolVars, chainVars
<1>1. TypeOK'
  BY DEF TypeOK, ChainTypeOK
<1>2. ASSUME NEW q \in Invocations
      PROVE  /\ status'[q] = (IF q = r THEN "resolved" ELSE status[q])
             /\ answer'[q] = (IF q = r THEN blocks ELSE answer[q])
  BY DEF TypeOK
<1>3. ProxyFirst'
  BY <1>2 DEF SafeInv, ProxyFirst
<1>4. Counted'
  BY <1>2 DEF SafeInv, Counted
<1>5. PinnedAnswer'
  BY <1>2 DEF SafeInv, PinnedAnswer
<1>6. RetriesAccounted'
  BY <1>2 DEF SafeInv, ProxyFirst, RetriesAccounted, Retried
<1>. QED
  BY <1>1, <1>3, <1>4, <1>5, <1>6 DEF SafeInv

\* A failed attempt is retried or rejects the call, within the limit.
LEMMA FailStep ==
  ASSUME TypeOK, SafeInv, NEW r \in Invocations, NEW code \in ErrorCodes, CallFails(r, code)
  PROVE  TypeOK' /\ SafeInv'
<1>. USE SafeApiAssumption DEF poolVars, chainVars
<1>1. /\ status[r] = "calling" /\ method[r] \in Retried
      /\ errors' = [errors EXCEPT ![r] = Append(@, code)]
      /\ UNCHANGED <<last, live, connected, target, pinned, method, answer>>
  BY DEF CallFails
<1>2. /\ errors[r] \in Seq(ErrorCodes) /\ retries[r] \in Nat
      /\ Len(errors[r]) = retries[r] /\ retries[r] < MaxRetries
      /\ \A k \in 1..Len(errors[r]) : errors[r][k] \in retryErrorCodes
  BY <1>1 DEF TypeOK, SafeInv, Counted, RetriesAccounted
<1>3. /\ errors'[r] = Append(errors[r], code)
      /\ Len(errors'[r]) = retries[r] + 1
      /\ errors'[r][retries[r] + 1] = code
      /\ \A k \in 1..retries[r] : errors'[r][k] = errors[r][k]
  <2>1. errors'[r] = Append(errors[r], code)
    BY <1>1 DEF TypeOK
  <2>. QED
    BY <1>2, <2>1
<1>4. ASSUME NEW q \in Invocations, q # r
      PROVE  /\ status'[q] = status[q] /\ reason'[q] = reason[q] /\ errors'[q] = errors[q]
             /\ retries'[q] = retries[q] /\ currentApi'[q] = currentApi[q]
  BY <1>4 DEF CallFails, TypeOK
<1>5. \/ /\ code \notin retryErrorCodes
         /\ status' = [status EXCEPT ![r] = "rejected"]
         /\ reason' = [reason EXCEPT ![r] = code]
         /\ UNCHANGED <<currentApi, retries>>
      \/ /\ code \in retryErrorCodes
         /\ status' = [status EXCEPT ![r] = "rejected"]
         /\ reason' = [reason EXCEPT ![r] = NoConnectedApi]
         /\ UNCHANGED <<currentApi, retries>>
      \/ /\ code \in retryErrorCodes
         /\ \E e \in connected : currentApi' = [currentApi EXCEPT ![r] = e]
         /\ retries' = [retries EXCEPT ![r] = retries[r] + 1]
         /\ retries[r] + 1 < MaxRetries
         /\ UNCHANGED <<status, reason>>
      \/ /\ code \in retryErrorCodes
         /\ \E e \in connected : currentApi' = [currentApi EXCEPT ![r] = e]
         /\ retries' = [retries EXCEPT ![r] = retries[r] + 1]
         /\ ~ (retries[r] + 1 < MaxRetries)
         /\ status' = [status EXCEPT ![r] = "rejected"]
         /\ reason' = [reason EXCEPT ![r] = code]
  BY Zenon DEF CallFails, Retryable, CountRetry, Loops
<1>6. TypeOK'
  <2>1. errors' \in [Invocations -> Seq(ErrorCodes)]
    BY <1>1, <1>2 DEF TypeOK
  <2>2. retries' \in [Invocations -> 0..MaxRetries]
    BY <1>2, <1>5 DEF TypeOK
  <2>3. /\ currentApi' \in [Invocations -> Endpoints \cup {NoEndpoint}]
        /\ status' \in [Invocations -> {"idle", "calling", "iterating", "resolved", "rejected"}]
        /\ reason' \in [Invocations ->
                   ErrorCodes \cup {NoConnectedApi, "none", "Error", "RangeError"}]
    BY <1>5 DEF TypeOK
  <2>. QED
    BY <1>1, <2>1, <2>2, <2>3 DEF TypeOK, ChainTypeOK
<1>7. ProxyFirst'
  <2>1. status'[r] # "idle" /\ status'[r] # "iterating" /\ currentApi'[r] \in Endpoints
    BY <1>1, <1>5 DEF TypeOK, SafeInv, ProxyFirst
  <2>. QED
    BY <1>1, <1>4, <2>1 DEF SafeInv, ProxyFirst
<1>8. Counted'
  <2>1. status'[r] \in {"idle", "calling"} =>
          /\ Len(errors'[r]) = retries'[r] /\ retries'[r] < MaxRetries
          /\ status'[r] = "calling"
    BY <1>1, <1>2, <1>3, <1>5 DEF TypeOK
  <2>. QED
    BY <1>4, <2>1 DEF SafeInv, Counted
<1>9. PinnedAnswer'
  <2>1. status'[r] # "resolved"
    BY <1>1, <1>5 DEF TypeOK
  <2>. QED
    BY <1>1, <1>4, <2>1 DEF SafeInv, PinnedAnswer
<1>10. RetriesAccounted'
  <2>1. /\ \A k \in 1..(retries[r] + 1) :
             k < retries[r] + 1 \/ status'[r] # "rejected" => errors'[r][k] \in retryErrorCodes
        /\ status'[r] \in {"calling", "resolved"} => retries[r] + 1 < MaxRetries
        /\ status'[r] = "rejected" =>
             /\ retries[r] + 1 \in 1..MaxRetries
             /\ \/ reason'[r] = NoConnectedApi
                \/ reason'[r] = code /\ (code \in retryErrorCodes => retries[r] + 1 = MaxRetries)
    BY <1>1, <1>2, <1>3, <1>5 DEF TypeOK
  <2>. QED
    BY <1>1, <1>3, <1>4, <2>1 DEF SafeInv, RetriesAccounted
<1>. QED
  BY <1>6, <1>7, <1>8, <1>9, <1>10 DEF SafeInv

\* A stream that breaks off, and a method that throws before it sends, are
\* outside the retry loop.
LEMMA ThrowStep ==
  ASSUME TypeOK, SafeInv, NEW r \in Invocations, status[r] # "idle",
         method[r] \notin Retried,
         UNCHANGED <<last, live, connected, target, pinned, method, currentApi, retries, answer>>,
         status' = [status EXCEPT ![r] = "rejected"],
         NEW x \in ErrorCodes \cup {"Error", "RangeError"},
         reason' = [reason EXCEPT ![r] = x],
         NEW es \in Seq(ErrorCodes), errors' = [errors EXCEPT ![r] = es]
  PROVE  TypeOK' /\ SafeInv'
<1>1. TypeOK'
  BY DEF TypeOK, ChainTypeOK
<1>2. ASSUME NEW q \in Invocations
      PROVE  /\ status'[q] = (IF q = r THEN "rejected" ELSE status[q])
             /\ q # r => errors'[q] = errors[q] /\ reason'[q] = reason[q]
  BY DEF TypeOK
<1>3. ProxyFirst'
  BY <1>2 DEF SafeInv, ProxyFirst
<1>4. Counted'
  BY <1>2 DEF SafeInv, Counted
<1>5. PinnedAnswer'
  BY <1>2 DEF SafeInv, PinnedAnswer
<1>6. RetriesAccounted'
  BY <1>2 DEF SafeInv, RetriesAccounted
<1>. QED
  BY <1>1, <1>3, <1>4, <1>5, <1>6 DEF SafeInv

\* Every step keeps the types and the invariant.
LEMMA NextSafe == TypeOK /\ SafeInv /\ [Next]_vars => TypeOK' /\ SafeInv'
<1>. SUFFICES ASSUME TypeOK, SafeInv, [Next]_vars PROVE TypeOK' /\ SafeInv'
  OBVIOUS
<1>. USE DEF poolVars, chainVars
<1>1. CASE /\ ChainTypeOK' /\ connected' \subseteq Endpoints
           /\ UNCHANGED <<target, pinned, method, status, currentApi, retries, errors, reason, answer>>
  BY <1>1 DEF TypeOK, SafeInv, ProxyFirst, Counted, PinnedAnswer, RetriesAccounted
<1>2. CASE ChainMoves
  BY <1>1, <1>2, ChainMovesType DEF ChainMoves, TypeOK
<1>3. CASE \E e \in Endpoints : Disconnect(e) \/ Connect(e)
  BY <1>1, <1>3 DEF Disconnect, Connect, TypeOK, ChainTypeOK
<1>4. ASSUME NEW e \in Endpoints, NEW b \in Blocks, GetSafeApi(e, b) PROVE TypeOK' /\ SafeInv'
  <2>1. TypeOK'
    BY <1>4 DEF GetSafeApi, TypeOK, ChainTypeOK
  <2>2. \A r \in Invocations : status[r] = "idle"
    BY <1>4 DEF GetSafeApi, SafeInv, ProxyFirst
  <2>3. SafeInv'
    BY <1>4, <2>2, SafeApiAssumption DEF GetSafeApi, SafeInv, ProxyFirst, Counted, PinnedAnswer,
       RetriesAccounted
  <2>. QED
    BY <2>1, <2>3
<1>5. ASSUME NEW r \in Invocations, Invoke(r) PROVE TypeOK' /\ SafeInv'
  <2>1. TypeOK'
    BY <1>5 DEF Invoke, TypeOK, ChainTypeOK
  <2>2. ASSUME NEW q \in Invocations
        PROVE  /\ status'[q] = (IF q = r THEN "calling" ELSE status[q])
               /\ currentApi'[q] = (IF q = r THEN target ELSE currentApi[q])
    BY <1>5 DEF Invoke, TypeOK
  <2>3. status[r] = "idle" /\ errors[r] = <<>>
    BY <1>5 DEF Invoke, SafeInv, Counted
  <2>4. ProxyFirst'
    BY <1>5, <2>2 DEF Invoke, TypeOK, SafeInv, ProxyFirst
  <2>5. Counted'
    BY <1>5, <2>2, <2>3 DEF Invoke, SafeInv, Counted
  <2>6. PinnedAnswer'
    BY <1>5, <2>2 DEF Invoke, SafeInv, PinnedAnswer
  <2>7. RetriesAccounted'
    BY <1>5, <2>2, <2>3, SafeApiAssumption DEF Invoke, SafeInv, RetriesAccounted
  <2>. QED
    BY <2>1, <2>4, <2>5, <2>6, <2>7 DEF SafeInv
<1>6. ASSUME NEW r \in Invocations, CallStep(r) PROVE TypeOK' /\ SafeInv'
  <2>0. /\ status[r] \in {"calling", "iterating"}
        /\ pinned \in Blocks /\ currentApi[r] \in Endpoints
    <3>1. status[r] \in {"calling", "iterating"}
      BY <1>6, Zenon DEF CallStep, CallPinned, CallBlocksAtHeight, CallStream, StreamEnds,
         CallUnsupported, CallAnonymityRevokers, ThrowLocally, StreamBreaks, CallFails
    <3>. QED
      BY <3>1 DEF SafeInv, ProxyFirst
  <2>1. CASE CallPinned(r) \/ StreamEnds(r)
    <3>1. PICK b \in BlockInfo(currentApi[r], pinned) : Resolve(r, {b})
      BY <2>1 DEF CallPinned, StreamEnds, Answer
    <3>. QED
      BY <2>0, <3>1, AnswerIsPinned, ResolveStep
  <2>2. CASE CallBlocksAtHeight(r)
    BY <2>0, <2>2, ListedAreBlocks, ResolveStep DEF CallBlocksAtHeight
  <2>3. CASE CallStream(r)
    <3>1. TypeOK'
      BY <2>3 DEF CallStream, TypeOK, ChainTypeOK
    <3>2. ASSUME NEW q \in Invocations
          PROVE  status'[q] = (IF q = r THEN "iterating" ELSE status[q])
      BY <2>3 DEF CallStream, TypeOK
    <3>3. SafeInv'
      BY <2>0, <2>3, <3>2 DEF CallStream, SafeInv, ProxyFirst, Counted, PinnedAnswer,
         RetriesAccounted, Retried
    <3>. QED
      BY <3>1, <3>3
  <2>4. ASSUME NEW code \in ErrorCodes, StreamBreaks(r, code) PROVE TypeOK' /\ SafeInv'
    <3>1. method[r] \notin Retried /\ Append(errors[r], code) \in Seq(ErrorCodes)
      BY <2>4 DEF StreamBreaks, TypeOK, SafeInv, ProxyFirst, Retried
    <3>2. errors' = [errors EXCEPT ![r] = Append(errors[r], code)]
      BY <2>4 DEF StreamBreaks
    <3>. QED
      BY <2>0, <2>4, <3>1, <3>2, ThrowStep DEF StreamBreaks
  <2>5. CASE CallUnsupported(r) \/ CallAnonymityRevokers(r)
    <3>1. PICK x \in {"Error", "RangeError"} : ThrowLocally(r, x)
      BY <2>5 DEF CallUnsupported, CallAnonymityRevokers
    <3>2. method[r] \notin Retried
      BY <2>5 DEF CallUnsupported, CallAnonymityRevokers, Retried
    <3>3. errors' = [errors EXCEPT ![r] = errors[r]] /\ errors[r] \in Seq(ErrorCodes)
      BY <3>1 DEF ThrowLocally, TypeOK
    <3>. QED
      BY <2>0, <3>1, <3>2, <3>3, ThrowStep DEF ThrowLocally
  <2>. QED
    BY <1>6, <2>1, <2>2, <2>3, <2>4, <2>5, FailStep DEF CallStep
<1>7. CASE UNCHANGED vars
  BY <1>1, <1>7 DEF vars, TypeOK, ChainTypeOK
<1>. QED
  BY <1>2, <1>3, <1>4, <1>5, <1>6, <1>7 DEF Next

\* Type correctness, and what the retry loop and the proxy maintain.
THEOREM SafeApiInvariant == Spec => [](TypeOK /\ SafeInv)
BY InitSafe, NextSafe, PTL DEF Spec

\* getSafeApi: the retry counter stays within maxRetries, and a call is rejected with
\* an error that was thrown.
THEOREM SafeApiTypeCorrect == Spec => []TypeOK
BY SafeApiInvariant, PTL

\* A handler only ever sees its own block, whichever endpoint answers.
THEOREM SafeApiPinned == Spec => []PinnedAnswer
<1>1. TypeOK /\ SafeInv => PinnedAnswer
  BY DEF SafeInv
<1>. QED
  BY <1>1, SafeApiInvariant, PTL

\* The retry loop makes at most MaxRetries attempts and gives up for a reason.
THEOREM SafeApiRetriesAccounted == Spec => []RetriesAccounted
<1>1. TypeOK /\ SafeInv => RetriesAccounted
  BY DEF SafeInv
<1>. QED
  BY <1>1, SafeApiInvariant, PTL

==============================================================================
