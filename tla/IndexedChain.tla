---------------------------- MODULE IndexedChain -----------------------------
(***************************************************************************)
(* What the pipeline of fetching, dispatching and indexing promises: blocks*)
(* are indexed in the order of their heights, each at most once; no height *)
(* that a data source wants is passed over; every block is given exactly   *)
(* the data sources that exist by then, those created by earlier blocks    *)
(* included; and a crash loses no more than what was not saved.            *)
(***************************************************************************)
EXTENDS Naturals, Sequences

CONSTANTS
  MaxHeight,
  DataSources,
  FirstSources,   \* the data sources of the project
  Wants           \* Wants[d]: the heights data source d has something to do at

VARIABLES
  log,      \* the blocks indexed: [height, seen, created]
  saved     \* how many of them are in the database

vars == <<log, saved>>

Entries == [height : 1..MaxHeight, seen : SUBSET DataSources, created : SUBSET DataSources]

\* The height of the last block of a log; 0 when there is none.
LastHeight(l) == IF l = <<>> THEN 0 ELSE l[Len(l)].height

\* The data sources there are after a log.
Sources(l) == FirstSources \cup UNION {l[i].created : i \in DOMAIN l}

Wanted(h, sources) == \E d \in sources : h \in Wants[d]

Init == log = <<>> /\ saved = 0

Index(entry) ==
  /\ entry.height > LastHeight(log)
  /\ \A h \in (LastHeight(log) + 1)..(entry.height - 1) : ~Wanted(h, Sources(log))
  /\ entry.seen = Sources(log)
  /\ log' = Append(log, entry)
  /\ UNCHANGED saved

Save == saved' = Len(log) /\ UNCHANGED log

Crash == log' = SubSeq(log, 1, saved) /\ UNCHANGED saved

Next == (\E entry \in Entries : Index(entry)) \/ Save \/ Crash

Spec == Init /\ [][Next]_vars

==============================================================================
