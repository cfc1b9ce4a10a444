------------------------------ MODULE Profiler -------------------------------
(***************************************************************************)
(* MetaService (packages/node/src/meta/meta.service.ts): events of the     *)
(* fetch loop are counted, and every ten seconds the speeds since the last *)
(* report are logged.  Events and the interval come in any order; the      *)
(* interval may come before the first event, when there is no              *)
(* lastStatsReportedTs and the report throws half way.                     *)
(*                                                                         *)
(* Times are left out: of lastStatsReportedTs only whether it is set       *)
(* matters.  What has been logged is kept as a history.                    *)
(***************************************************************************)
EXTENDS Integers

CONSTANTS
  MaxCount,     \* bound: events of a kind
  MaxFiltered   \* bound: the highest height that is filtered

ASSUME ProfilerAssumption == MaxCount \in Nat /\ MaxFiltered \in Nat

VARIABLES
  acc,                    \* accEnqueueBlocks, accFetchBlocks, accRpcCalls
  lastReported,           \* lastReportedEnqueueBlocks and its siblings
  currentFiltering,       \* currentFilteringBlockNum
  lastReportedFiltering,  \* lastReportedFilteringBlockNum
  ticking,                \* lastStatsReportedTs is set
  logged,                 \* history: the sum of all counts logged
  loggedFiltering,        \* history: the sum of all filtering counts logged
  baseline                \* history: the height the first speed counts from

profilerVars == <<acc, lastReported, currentFiltering, lastReportedFiltering,
                  ticking, logged, loggedFiltering, baseline>>

Counters == {"enqueueBlocks", "fetchBlock", "rpcCall"}

Nothing == [c \in Counters |-> 0]

ProfilerInit ==
  /\ acc = Nothing
  /\ lastReported = Nothing
  /\ currentFiltering = 0
  /\ lastReportedFiltering = 0
  /\ ticking = FALSE
  /\ logged = Nothing
  /\ loggedFiltering = 0
  /\ baseline = 0

\* Mutant, handleEnqueueBlocks does not start the clock.
CountSilently(c, size) ==
  /\ acc[c] + size <= MaxCount
  /\ acc' = [acc EXCEPT ![c] = @ + size]
  /\ ticking' = (ticking \/ c # "enqueueBlocks")
  /\ UNCHANGED <<lastReported, currentFiltering, lastReportedFiltering, logged,
                 loggedFiltering, baseline>>

\* handleEnqueueBlocks, handleFetchBlock and handleRpcCall.
Count(c, size) ==
  /\ acc[c] + size <= MaxCount
  /\ acc' = [acc EXCEPT ![c] = @ + size]
  /\ ticking' = TRUE
  /\ UNCHANGED <<lastReported, currentFiltering, lastReportedFiltering, logged,
                 loggedFiltering, baseline>>

handleFilteringBlocks(height) ==
  /\ currentFiltering' = height
  /\ lastReportedFiltering' = IF ticking THEN lastReportedFiltering ELSE height
  /\ baseline' = IF ticking THEN baseline ELSE height
  /\ UNCHANGED <<acc, lastReported, ticking, logged, loggedFiltering>>

\* blockFilteringSpeed without a lastStatsReportedTs: the enqueue count is
\* taken before getTime() of undefined throws.
ReportThrows ==
  /\ ~ticking
  /\ lastReported' = [lastReported EXCEPT !["enqueueBlocks"] = acc["enqueueBlocks"]]
  /\ UNCHANGED <<acc, currentFiltering, lastReportedFiltering, ticking, logged,
                 loggedFiltering, baseline>>

\* Mutant, lastReportedFilteringBlockNum is not brought up to date.
ReportForgetsFiltering ==
  /\ ticking
  /\ logged' = [c \in Counters |-> logged[c] + (acc[c] - lastReported[c])]
  /\ lastReported' = acc
  /\ loggedFiltering' = loggedFiltering + (currentFiltering - lastReportedFiltering)
  /\ UNCHANGED <<acc, currentFiltering, lastReportedFiltering, ticking, baseline>>

Report ==
  /\ ticking
  /\ logged' = [c \in Counters |-> logged[c] + (acc[c] - lastReported[c])]
  /\ lastReported' = acc
  /\ loggedFiltering' = loggedFiltering + (currentFiltering - lastReportedFiltering)
  /\ lastReportedFiltering' = currentFiltering
  /\ UNCHANGED <<acc, currentFiltering, ticking, baseline>>

ProfilerEvent ==
  \/ \E c \in Counters, size \in 1..MaxCount :
       (size = 1 \/ c = "enqueueBlocks") /\ Count(c, size)
  \/ \E height \in 1..MaxFiltered : handleFilteringBlocks(height)

Interval == Report \/ ReportThrows

ProfilerNext == ProfilerEvent \/ Interval

ProfilerSpec == ProfilerInit /\ [][ProfilerNext]_profilerVars

------------------------------------------------------------------------------

\* Type invariant: counts never run backwards.
ProfilerTypeOK ==
  /\ acc \in [Counters -> 0..MaxCount]
  /\ lastReported \in [Counters -> 0..MaxCount]
  /\ currentFiltering \in 0..MaxFiltered
  /\ lastReportedFiltering \in 0..MaxFiltered
  /\ baseline \in 0..MaxFiltered
  /\ ticking \in BOOLEAN
  /\ logged \in [Counters -> 0..MaxCount]
  /\ loggedFiltering \in Int

\* Every event is in the counts logged so far or will be in the next one,
\* although a report that throws has already moved the enqueue count on.
NothingLost ==
  \A c \in Counters : logged[c] + (acc[c] - lastReported[c]) = acc[c]

\* The heights passed, summed over all reports, are the way from where the
\* profiler began to where filtering is now; a fetch that starts at a high
\* block does not count the blocks before it, if it filters before it enqueues.
FilteringAccounted ==
  loggedFiltering + (currentFiltering - lastReportedFiltering) = currentFiltering - baseline

==============================================================================
