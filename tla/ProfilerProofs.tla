--------------------------- MODULE ProfilerProofs ----------------------------
(***************************************************************************)
(* The counts of the profiler are right for any number of events, in any   *)
(* order with the interval.  NothingLost alone is not inductive: a report  *)
(* that throws moves lastReportedEnqueueBlocks without logging anything,   *)
(* which does no harm only because nothing has been counted while there is *)
(* no lastStatsReportedTs.                                                 *)
(***************************************************************************)
EXTENDS Profiler, TLAPS

\* Before the first event nothing has been counted or logged.
QuietBeforeTicking ==
  ~ticking => acc = Nothing /\ lastReported = Nothing /\ loggedFiltering = 0

\* What has been logged is what has been reported.
LoggedIsReported == logged = lastReported

ProfilerInv ==
  /\ ProfilerTypeOK
  /\ QuietBeforeTicking
  /\ LoggedIsReported
  /\ FilteringAccounted

LEMMA InitEstablishesProfilerInv == ProfilerInit => ProfilerInv
<1>1. Nothing \in [Counters -> 0..MaxCount]
  BY ProfilerAssumption DEF Nothing
<1>2. ASSUME ProfilerInit PROVE ProfilerTypeOK
  <2>1. 0 \in 0..MaxFiltered /\ 0 \in Int
    BY ProfilerAssumption
  <2>2. ticking \in BOOLEAN
    BY <1>2, Zenon DEF ProfilerInit
  <2> QED BY <1>1, <1>2, <2>1, <2>2, Zenon DEF ProfilerInit, ProfilerTypeOK
<1>3. ASSUME ProfilerInit PROVE QuietBeforeTicking /\ LoggedIsReported /\ FilteringAccounted
  BY <1>3 DEF ProfilerInit, QuietBeforeTicking, LoggedIsReported, FilteringAccounted
<1> QED BY <1>2, <1>3 DEF ProfilerInv

LEMMA CountPreserves ==
  ASSUME ProfilerInv, NEW c \in Counters, NEW size \in 1..MaxCount, Count(c, size)
  PROVE ProfilerInv'
<1>1. acc' \in [Counters -> 0..MaxCount]
  <2>1. acc[c] \in 0..MaxCount BY DEF ProfilerInv, ProfilerTypeOK
  <2>2. acc[c] + size \in 0..MaxCount BY <2>1, ProfilerAssumption DEF Count
  <2> QED BY <2>2 DEF Count, ProfilerInv, ProfilerTypeOK
<1>2. ticking' = TRUE /\ UNCHANGED <<lastReported, currentFiltering,
        lastReportedFiltering, logged, loggedFiltering, baseline>>
  BY DEF Count
<1> QED BY <1>1, <1>2 DEF ProfilerInv, ProfilerTypeOK, QuietBeforeTicking,
           LoggedIsReported, FilteringAccounted

LEMMA FilteringPreserves ==
  ASSUME ProfilerInv, NEW height \in 1..MaxFiltered, handleFilteringBlocks(height)
  PROVE ProfilerInv'
<1>1. CASE ticking
  BY <1>1, ProfilerAssumption DEF handleFilteringBlocks, ProfilerInv, ProfilerTypeOK,
     QuietBeforeTicking, LoggedIsReported, FilteringAccounted
<1>2. CASE ~ticking
  BY <1>2, ProfilerAssumption DEF handleFilteringBlocks, ProfilerInv, ProfilerTypeOK,
     QuietBeforeTicking, LoggedIsReported, FilteringAccounted
<1> QED BY <1>1, <1>2

LEMMA ReportThrowsPreserves ==
  ASSUME ProfilerInv, ReportThrows
  PROVE ProfilerInv'
<1>1. acc = Nothing /\ lastReported = Nothing
  BY DEF ReportThrows, ProfilerInv, QuietBeforeTicking
<1>2. lastReported' = lastReported
  BY <1>1 DEF ReportThrows, Nothing, Counters
<1> QED BY <1>2 DEF ReportThrows, ProfilerInv, ProfilerTypeOK, QuietBeforeTicking,
           LoggedIsReported, FilteringAccounted

LEMMA ReportPreserves ==
  ASSUME ProfilerInv, Report
  PROVE ProfilerInv'
<1>1. \A c \in Counters : logged[c] + (acc[c] - lastReported[c]) = acc[c]
  BY ProfilerAssumption DEF ProfilerInv, ProfilerTypeOK, LoggedIsReported
<1>2. logged' = acc
  BY <1>1 DEF Report, ProfilerInv, ProfilerTypeOK
<1>3. loggedFiltering' \in Int /\ FilteringAccounted'
  BY ProfilerAssumption DEF Report, ProfilerInv, ProfilerTypeOK, FilteringAccounted
<1> QED BY <1>2, <1>3 DEF Report, ProfilerInv, ProfilerTypeOK, QuietBeforeTicking,
           LoggedIsReported

LEMMA StepPreservesProfilerInv ==
  ASSUME ProfilerInv, [ProfilerNext]_profilerVars
  PROVE ProfilerInv'
<1>1. CASE ProfilerEvent
  BY <1>1, CountPreserves, FilteringPreserves DEF ProfilerEvent
<1>2. CASE Interval
  BY <1>2, ReportPreserves, ReportThrowsPreserves DEF Interval
<1>3. CASE UNCHANGED profilerVars
  BY <1>3 DEF profilerVars, ProfilerInv, ProfilerTypeOK, QuietBeforeTicking,
     LoggedIsReported, FilteringAccounted
<1> QED BY <1>1, <1>2, <1>3 DEF ProfilerNext

LEMMA ProfilerInvariant == ProfilerSpec => []ProfilerInv
BY InitEstablishesProfilerInv, StepPreservesProfilerInv, PTL DEF ProfilerSpec

\* The counters of MetaService keep their types and never run backwards.
THEOREM ProfilerTypeCorrect == ProfilerSpec => []ProfilerTypeOK
BY ProfilerInvariant, PTL DEF ProfilerInv

\* blockFilteringSpeed: every event counted is in a report or in the next one,
\* for any number of events and reports, those that throw included.
THEOREM ProfilerNothingLost == ProfilerSpec => []NothingLost
<1>1. ProfilerInv => NothingLost
  BY ProfilerAssumption DEF ProfilerInv, ProfilerTypeOK, LoggedIsReported, NothingLost
<1> QED BY <1>1, ProfilerInvariant, PTL

\* handleFilteringBlocks: the heights reported add up to the way filtering has
\* gone, wherever it began.
THEOREM ProfilerFilteringAccounted == ProfilerSpec => []FilteringAccounted
BY ProfilerInvariant, PTL DEF ProfilerInv

==============================================================================
