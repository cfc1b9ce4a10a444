---------------------------- MODULE StartUpProofs ----------------------------
(***************************************************************************)
(* What start-up guarantees for any endpoints, workers, dictionaries and   *)
(* command lines.                                                          *)
(*                                                                         *)
(* FetchingReady speaks of the moment the fetch loop runs and is not       *)
(* inductive; StartUpInv says what a thread has by each step, and that it  *)
(* keeps it: connections still on their way never take one that is there.  *)
(***************************************************************************)
EXTENDS StartUp, ProfilerProofs

\* The steps that a thread reaches by its services.
InitialisedSteps == {"initialised", "projectReady", "dictionaries", "dispatcher", "fetching"}

MainSteps == {"dispatcher", "fetching"}

\* The variables have their types, those of the profiler apart.
ThreadsTyped ==
  /\ argv \in Inputs
  /\ step \in [Threads -> Steps]
  /\ loading \in [Threads -> SUBSET {"module", "instance"}]
  /\ endpoints \in [Threads -> {<<>>, argv.endpoint, argv.endpoint \o argv.primary}]
  /\ attempt \in [Threads -> [Endpoints -> {"none", "pending", "connected", "failed"}]]
  /\ dictionary \in [Dictionaries -> {"unset", "usable", "skipped"}]
  /\ outcome \in {"starting", "listening", "done", "exited"}
  /\ outcome = "exited" <=> reason # "none"

\* Whether a thread has yet to create its context.
Contextless(t) == step[t] = "ready" \/ (t = "main" /\ step[t] = "off")

\* The primary endpoint is pushed onto the project's endpoints alone: those
\* that a context is created from are the ones just loaded.
EndpointsUnpushed ==
  \A t \in Threads :
    /\ Contextless(t) /\ "module" \notin loading[t] => endpoints[t] = argv.endpoint
    /\ ~Contextless(t) => loading[t] = {}

\* A thread that has services has a connection, and only the node and its
\* workers and the tests have any.
ThreadsConnected ==
  \A t \in Threads :
    /\ step[t] \in InitialisedSteps => Connected(t) /\ argv.command \in {"node", "test"}
    /\ step[t] = "created" /\ argv.command \in {"node", "test"} => Connected(t)
    /\ t # "main" /\ step[t] # "off" => argv.command \in {"node", "test"}

\* The dispatcher comes after the dictionaries, the fetch loop after the workers.
MainAfter ==
  /\ step["main"] \in MainSteps => \A d \in Dictionaries : dictionary[d] # "unset"
  /\ step["main"] = "fetching" => \A w \in MyWorkers : step[w] = "projectReady"

StartUpInv ==
  /\ ThreadsTyped
  /\ EndpointsUnpushed
  /\ ThreadsConnected
  /\ MainAfter

------------------------------------------------------------------------------
(* The profiler inside the node is the profiler.                           *)

LEMMA StepProfiles == Next => [ProfilerNext]_profilerVars
<1>1. ASSUME NEW t \in Threads, ThreadStep(t) PROVE UNCHANGED profilerVars
  BY <1>1 DEF ThreadStep, RegisterApp, CreateContext, Connect, ConnectFails, Connections,
     AppInit, ProjectServiceInit, LookupFails, Starting, Alive
<1>2. ASSUME MainStep PROVE UNCHANGED profilerVars
  BY <1>2 DEF MainStep, PickPort, RunSubcommand, SpawnWorkers, StartFetching, Listen,
     GetDictionaryEndpoints, InitDictionary, Starting
<1>3. ASSUME Profile PROVE ProfilerNext
  BY <1>3 DEF Profile, ProfilerNext
<1>. QED
  BY <1>1, <1>2, <1>3 DEF Next

\* Profile is the only step that MetaService takes part in, and it is one of
\* the profiler's: whatever start-up does, the profiler behaves as specified.
THEOREM StartUpProfiles == Spec => ProfilerSpec
<1>1. Init => ProfilerInit
  BY DEF Init
<1>2. [Next]_vars => [ProfilerNext]_profilerVars
  BY StepProfiles DEF vars
<1>. QED
  BY <1>1, <1>2, PTL DEF Spec, ProfilerSpec

\* MetaService loses no event, although its interval runs before the fetch loop.
THEOREM StartUpNothingLost == Spec => []NothingLost
BY StartUpProfiles, ProfilerNothingLost, PTL

\* MetaService accounts for the heights filtered, whenever its interval ticks.
THEOREM StartUpFilteringAccounted == Spec => []FilteringAccounted
BY StartUpProfiles, ProfilerFilteringAccounted, PTL

------------------------------------------------------------------------------

LEMMA MainIsThread == "main" \in Threads /\ MyWorkers \subseteq Threads \ {"main"}
BY StartUpAssumption DEF Threads, MyWorkers

LEMMA StartUpInitEstablishes == Init => StartUpInv
<1> SUFFICES ASSUME Init PROVE StartUpInv
  OBVIOUS
<1>1. ThreadsTyped
  BY DEF Init, ThreadsTyped, Steps, LoadsAtStart
<1>2. \A t \in Threads : step[t] \in {"off", "ready"} /\ (t # "main" => step[t] = "off")
  BY DEF Init
<1>3. \A t \in Threads :
        /\ t = "main" => Contextless(t) /\ "module" \in loading[t]
        /\ t # "main" => ~Contextless(t) /\ loading[t] = {}
  BY DEF Init, LoadsAtStart, Contextless
<1>4. EndpointsUnpushed
  BY <1>3 DEF EndpointsUnpushed
<1>5. ThreadsConnected
  BY <1>2 DEF ThreadsConnected, InitialisedSteps
<1>6. MainAfter
  BY <1>2, MainIsThread DEF MainAfter, MainSteps
<1>. QED
  BY <1>1, <1>4, <1>5, <1>6 DEF StartUpInv

\* exitWithError changes nothing but the outcome.
LEMMA ExitPreserves ==
  ASSUME StartUpInv, NEW why, why # "none", Exit(why), UNCHANGED argv
  PROVE  StartUpInv'
<1>1. outcome' = "exited" /\ reason' = why
      /\ UNCHANGED <<argv, step, loading, endpoints, attempt, dictionary>>
  BY DEF Exit
<1>2. ThreadsTyped'
  BY <1>1 DEF StartUpInv, ThreadsTyped
<1>3. EndpointsUnpushed' /\ ThreadsConnected' /\ MainAfter'
  BY <1>1 DEF StartUpInv, EndpointsUnpushed, Contextless, ThreadsConnected, MainAfter,
     Connected, MyWorkers
<1>. QED
  BY <1>2, <1>3 DEF StartUpInv

\* A thread goes on when it has what the next step asks for.
LEMMA GoesToPreserves ==
  ASSUME StartUpInv, NEW t \in Threads, NEW s \in Steps, GoesTo(t, s),
         UNCHANGED <<argv, loading, endpoints, attempt, dictionary>>,
         IF s = "ready" THEN Contextless(t) ELSE s # "off" /\ loading[t] = {},
         s \in InitialisedSteps => Connected(t) /\ argv.command \in {"node", "test"},
         s = "created" /\ argv.command \in {"node", "test"} => Connected(t),
         t = "main" /\ s \in MainSteps => \A d \in Dictionaries : dictionary[d] # "unset",
         t = "main" /\ s = "fetching" => \A w \in MyWorkers : step[w] = "projectReady",
         t # "main" => step[t] \notin {"off", "projectReady"}
  PROVE  StartUpInv'
<1>1. step' = [step EXCEPT ![t] = s] /\ UNCHANGED <<outcome, reason>>
  BY DEF GoesTo
<1>2. ThreadsTyped'
  BY <1>1 DEF StartUpInv, ThreadsTyped
<1>3. \A u \in Threads : step'[u] = IF u = t THEN s ELSE step[u]
  BY <1>1 DEF StartUpInv, ThreadsTyped
<1>4. EndpointsUnpushed'
  BY <1>3 DEF StartUpInv, EndpointsUnpushed, Contextless
<1>5. ThreadsConnected'
  BY <1>3 DEF StartUpInv, ThreadsConnected, Connected
<1>6. MainAfter'
  <2>1. MyWorkers' = MyWorkers
    BY DEF MyWorkers
  <2>2. ASSUME step'["main"] \in MainSteps PROVE \A d \in Dictionaries : dictionary'[d] # "unset"
    BY <1>3, <2>2, MainIsThread DEF StartUpInv, MainAfter
  <2>3. ASSUME step'["main"] = "fetching", NEW w \in MyWorkers PROVE step'[w] = "projectReady"
    BY <1>3, <2>3, MainIsThread DEF StartUpInv, MainAfter
  <2>. QED
    BY <2>1, <2>2, <2>3 DEF MainAfter
<1>. QED
  BY <1>2, <1>4, <1>5, <1>6 DEF StartUpInv

LEMMA PickPortPreserves ==
  ASSUME StartUpInv, PickPort
  PROVE  StartUpInv'
<1>1. UNCHANGED argv /\ Contextless("main")
  BY DEF PickPort, Starting, Contextless
<1>2. CASE Exit("port")
  BY <1>1, <1>2, ExitPreserves
<1>3. CASE GoesTo("main", "ready") /\ UNCHANGED <<loading, endpoints, attempt, dictionary>>
  BY <1>1, <1>3, MainIsThread, GoesToPreserves DEF Steps, InitialisedSteps, MainSteps
<1>. QED
  BY <1>2, <1>3 DEF PickPort

\* A thread that is loading a project has no context yet.
LEMMA RegisterAppPreserves ==
  ASSUME StartUpInv, NEW t \in Threads, RegisterApp(t)
  PROVE  StartUpInv'
<1>1. UNCHANGED argv
  BY DEF RegisterApp, Starting
<1>2. CASE Exit("project")
  BY <1>1, <1>2, ExitPreserves
<1>3. ASSUME NEW load \in loading[t],
             loading' = [loading EXCEPT ![t] = @ \ {load}],
             endpoints' = IF load = "module" THEN [endpoints EXCEPT ![t] = argv.endpoint]
                          ELSE endpoints,
             UNCHANGED <<step, attempt, dictionary, outcome, reason>>
      PROVE  StartUpInv'
  <2>1. ThreadsTyped'
    <3>1. loading' \in [Threads -> SUBSET {"module", "instance"}]
      BY <1>3 DEF StartUpInv, ThreadsTyped
    <3>2. endpoints' \in [Threads -> {<<>>, argv.endpoint, argv.endpoint \o argv.primary}]
      BY <1>3 DEF StartUpInv, ThreadsTyped
    <3>. QED
      BY <1>1, <1>3, <3>1, <3>2 DEF StartUpInv, ThreadsTyped
  <2>2. /\ \A u \in Threads : loading'[u] = IF u = t THEN loading[u] \ {load} ELSE loading[u]
        /\ \A u \in Threads : endpoints'[u] = IF u = t /\ load = "module" THEN argv.endpoint
                                              ELSE endpoints[u]
    BY <1>3 DEF StartUpInv, ThreadsTyped
  <2>3. EndpointsUnpushed'
    BY <1>1, <1>3, <2>2 DEF StartUpInv, EndpointsUnpushed, Contextless
  <2>4. ThreadsConnected' /\ MainAfter'
    BY <1>1, <1>3 DEF StartUpInv, ThreadsConnected, Connected, MainAfter, MyWorkers
  <2>. QED
    BY <2>1, <2>3, <2>4 DEF StartUpInv
<1>. QED
  BY <1>2, <1>3 DEF RegisterApp

\* init pushes the primary endpoint, and no connection of this thread is there
\* yet.
LEMMA CreateContextPreserves ==
  ASSUME StartUpInv, NEW t \in Threads, CreateContext(t)
  PROVE  StartUpInv'
<1>1. UNCHANGED argv /\ step[t] = "ready" /\ loading[t] = {}
  BY DEF CreateContext, Starting
<1>2. CASE Exit("dependency")
  BY <1>1, <1>2, ExitPreserves
<1>3. CASE argv.command \in {"node", "test"} /\ ApiInit(t)
  <2> DEFINE pushed == argv.endpoint \o argv.primary
  <2> DEFINE asked == [e \in Endpoints |->
                        IF \E i \in DOMAIN endpoints'[t] : endpoints'[t][i] = e
                        THEN "pending" ELSE "none"]
  <2>1. /\ endpoints' = [endpoints EXCEPT ![t] = @ \o argv.primary]
        /\ attempt' = [attempt EXCEPT ![t] = asked]
        /\ step' = [step EXCEPT ![t] = "connecting"]
        /\ UNCHANGED <<loading, outcome, reason, dictionary>>
    BY <1>3 DEF ApiInit, GoesTo
  <2>2. endpoints[t] = argv.endpoint
    BY <1>1 DEF StartUpInv, EndpointsUnpushed, Contextless
  <2>3. endpoints' = [endpoints EXCEPT ![t] = pushed]
    BY <2>1, <2>2
  <2>4. asked \in [Endpoints -> {"none", "pending", "connected", "failed"}]
    OBVIOUS
  <2>5. /\ \A u \in Threads : step'[u] = IF u = t THEN "connecting" ELSE step[u]
        /\ \A u \in Threads : attempt'[u] = IF u = t THEN asked ELSE attempt[u]
        /\ \A u \in Threads : endpoints'[u] = IF u = t THEN pushed ELSE endpoints[u]
    BY <2>1, <2>3 DEF StartUpInv, ThreadsTyped
  <2>6. ThreadsTyped'
    <3>1. step' \in [Threads -> Steps]
      BY <2>1 DEF StartUpInv, ThreadsTyped, Steps
    <3>2. endpoints' \in [Threads -> {<<>>, argv.endpoint, argv.endpoint \o argv.primary}]
      BY <2>3 DEF StartUpInv, ThreadsTyped
    <3>3. attempt' \in [Threads -> [Endpoints -> {"none", "pending", "connected", "failed"}]]
      BY <2>1, <2>4 DEF StartUpInv, ThreadsTyped
    <3>. QED
      BY <1>1, <2>1, <3>1, <3>2, <3>3 DEF StartUpInv, ThreadsTyped
  <2>7. EndpointsUnpushed'
    BY <1>1, <2>1, <2>5 DEF StartUpInv, EndpointsUnpushed, Contextless
  <2>8. ThreadsConnected'
    <3>1. \A u \in Threads \ {t} : step'[u] = step[u] /\ (Connected(u) => Connected(u)')
      BY <2>5 DEF Connected
    <3>2. step'[t] = "connecting"
      BY <2>5
    <3>. QED
      BY <1>1, <3>1, <3>2 DEF StartUpInv, ThreadsConnected, InitialisedSteps
  <2>9. MainAfter'
    <3>1. MyWorkers' = MyWorkers
      BY <1>1 DEF MyWorkers
    <3>2. ASSUME step'["main"] \in MainSteps PROVE step["main"] = step'["main"]
      BY <2>5, <3>2, MainIsThread DEF MainSteps
    <3>3. ASSUME NEW w \in MyWorkers, step[w] = "projectReady" PROVE step'[w] = "projectReady"
      BY <1>1, <2>5, <3>3, MainIsThread
    <3>4. step'["main"] \in MainSteps => \A d \in Dictionaries : dictionary'[d] # "unset"
      BY <2>1, <3>2 DEF StartUpInv, MainAfter
    <3>5. step'["main"] = "fetching" => \A w \in MyWorkers : step'[w] = "projectReady"
      BY <3>2, <3>3 DEF StartUpInv, MainAfter, MainSteps
    <3>. QED
      BY <3>1, <3>4, <3>5 DEF MainAfter
  <2>. QED
    BY <2>6, <2>7, <2>8, <2>9 DEF StartUpInv
<1>4. CASE /\ argv.command \notin {"node", "test"} /\ GoesTo(t, "created")
           /\ UNCHANGED <<loading, endpoints, attempt, dictionary>>
  BY <1>1, <1>4, GoesToPreserves DEF Steps, InitialisedSteps, MainSteps
<1>. QED
  BY <1>2, <1>3, <1>4 DEF CreateContext

\* An answer takes no connection away.
LEMMA AnswerPreserves ==
  ASSUME StartUpInv, NEW t \in Threads, NEW e \in Endpoints,
         Connect(t, e) \/ ConnectFails(t, e)
  PROVE  StartUpInv'
<1>1. UNCHANGED <<argv, step, loading, endpoints, dictionary, outcome, reason>>
      /\ attempt[t][e] = "pending"
  BY DEF Connect, ConnectFails, Alive
<1>2. PICK a \in {"connected", "failed"} : attempt' = [attempt EXCEPT ![t][e] = a]
  BY DEF Connect, ConnectFails
<1>3. \A u \in Threads, f \in Endpoints :
        attempt'[u][f] = IF u = t /\ f = e THEN a ELSE attempt[u][f]
  BY <1>2 DEF StartUpInv, ThreadsTyped
<1>4. ThreadsTyped'
  BY <1>1, <1>2 DEF StartUpInv, ThreadsTyped
<1>5. \A u \in Threads : Connected(u) => Connected(u)'
  BY <1>1, <1>3 DEF Connected
<1>6. ThreadsConnected'
  BY <1>1, <1>5 DEF StartUpInv, ThreadsConnected
<1>7. EndpointsUnpushed' /\ MainAfter'
  BY <1>1 DEF StartUpInv, EndpointsUnpushed, Contextless, MainAfter, MyWorkers
<1>. QED
  BY <1>4, <1>6, <1>7 DEF StartUpInv

\* The steps of a thread from its first connection to its services.
LEMMA ServicesPreserve ==
  ASSUME StartUpInv, NEW t \in Threads,
         Connections(t) \/ AppInit(t) \/ ProjectServiceInit(t) \/ LookupFails(t)
  PROVE  StartUpInv'
<1>1. UNCHANGED argv /\ argv.command \in {"node", "test", "reindex", "forceClean"}
  BY StartUpAssumption DEF Connections, AppInit, ProjectServiceInit, LookupFails, Starting,
     StartUpInv, ThreadsTyped
<1>2. loading[t] = {}
  BY DEF Connections, AppInit, ProjectServiceInit, LookupFails, StartUpInv, EndpointsUnpushed,
     Contextless
<1>3. CASE Connections(t)
  <2>1. CASE Exit("endpoints")
    BY <1>1, <2>1, ExitPreserves
  <2>2. CASE /\ Connected(t) /\ GoesTo(t, "created")
             /\ UNCHANGED <<loading, endpoints, attempt, dictionary>>
    BY <1>1, <1>2, <1>3, <2>2, GoesToPreserves
       DEF Connections, Steps, InitialisedSteps, MainSteps
  <2>. QED
    BY <1>3, <2>1, <2>2 DEF Connections
<1>4. CASE AppInit(t)
  <2>1. /\ step[t] = "created" /\ Command(t) \in {"node", "worker", "test"}
        /\ GoesTo(t, "initialised") /\ UNCHANGED <<loading, endpoints, attempt, dictionary>>
    BY <1>4 DEF AppInit
  <2>2. argv.command \in {"node", "test"}
    BY <1>1, <2>1 DEF Command, StartUpInv, ThreadsConnected
  <2>3. Connected(t)
    BY <2>1, <2>2 DEF StartUpInv, ThreadsConnected
  <2>4. "initialised" \in Steps /\ "initialised" \notin MainSteps
    BY DEF Steps, MainSteps
  <2>. QED
    BY <1>1, <1>2, <2>1, <2>2, <2>3, <2>4, GoesToPreserves
<1>5. CASE ProjectServiceInit(t)
  <2>1. CASE Exit("projectService")
    BY <1>1, <2>1, ExitPreserves
  <2>2. CASE /\ GoesTo(t, "projectReady")
             /\ UNCHANGED <<loading, endpoints, attempt, dictionary>>
    <3>1. step[t] = "initialised"
      BY <1>5 DEF ProjectServiceInit
    <3>2. Connected(t) /\ argv.command \in {"node", "test"}
      BY <3>1 DEF StartUpInv, ThreadsConnected, InitialisedSteps
    <3>. QED
      BY <1>1, <1>2, <2>2, <3>1, <3>2, GoesToPreserves DEF Steps, InitialisedSteps, MainSteps
  <2>. QED
    BY <1>5, <2>1, <2>2 DEF ProjectServiceInit
<1>6. CASE LookupFails(t)
  BY <1>1, <1>6, ExitPreserves DEF LookupFails
<1>. QED
  BY <1>3, <1>4, <1>5, <1>6

\* The steps of the main thread.
LEMMA DictionaryPreserves ==
  ASSUME StartUpInv, NEW d \in Dictionaries, InitDictionary(d)
  PROVE  StartUpInv'
<1>1. UNCHANGED <<argv, step, loading, endpoints, attempt, outcome, reason>>
      /\ step["main"] = "dictionaries"
  BY DEF InitDictionary, Starting
<1>2. dictionary' \in [Dictionaries -> {"unset", "usable", "skipped"}]
  BY DEF InitDictionary, StartUpInv, ThreadsTyped
<1>3. ThreadsTyped'
  BY <1>1, <1>2 DEF StartUpInv, ThreadsTyped
<1>4. MainAfter'
  BY <1>1 DEF MainAfter, MainSteps
<1>5. EndpointsUnpushed' /\ ThreadsConnected'
  BY <1>1 DEF StartUpInv, EndpointsUnpushed, Contextless, ThreadsConnected, Connected
<1>. QED
  BY <1>3, <1>4, <1>5 DEF StartUpInv

LEMMA SpawnPreserves ==
  ASSUME StartUpInv, SpawnWorkers
  PROVE  StartUpInv'
<1>1. /\ step["main"] = "dictionaries" /\ \A d \in Dictionaries : dictionary[d] # "unset"
      /\ step' = [t \in Threads |-> IF t = "main" THEN "dispatcher"
                                    ELSE IF t \in MyWorkers THEN "ready" ELSE "off"]
      /\ loading' = [t \in Threads |-> IF t \in MyWorkers THEN {"module"} ELSE {}]
      /\ UNCHANGED <<argv, endpoints, attempt, dictionary, outcome, reason>>
  BY DEF SpawnWorkers, Starting, LoadsAtStart
<1>2. Connected("main") /\ argv.command \in {"node", "test"} /\ loading["main"] = {}
  BY <1>1, MainIsThread DEF StartUpInv, ThreadsConnected, EndpointsUnpushed, Contextless,
     InitialisedSteps
<1>3. /\ step'["main"] = "dispatcher" /\ loading'["main"] = {}
      /\ \A t \in MyWorkers : step'[t] = "ready" /\ loading'[t] = {"module"}
      /\ \A t \in Threads \ {"main"} : step'[t] \in {"ready", "off"}
  BY <1>1, <1>2, MainIsThread
<1>4. ThreadsTyped'
  <2>1. step' \in [Threads -> Steps]
    BY <1>1 DEF Steps
  <2>2. loading' \in [Threads -> SUBSET {"module", "instance"}]
    BY <1>1 DEF StartUpInv, ThreadsTyped
  <2>. QED
    BY <1>1, <2>1, <2>2 DEF StartUpInv, ThreadsTyped
<1>5. EndpointsUnpushed'
  BY <1>1, <1>2, <1>3, MainIsThread DEF EndpointsUnpushed, Contextless
<1>6. ThreadsConnected'
  BY <1>1, <1>2, <1>3 DEF ThreadsConnected, Connected, InitialisedSteps
<1>7. MainAfter'
  BY <1>1, <1>3 DEF MainAfter
<1>. QED
  BY <1>4, <1>5, <1>6, <1>7 DEF StartUpInv

LEMMA MainPreserves ==
  ASSUME StartUpInv, MainStep
  PROVE  StartUpInv'
<1>1. CASE PickPort
  BY <1>1, PickPortPreserves
<1>2. CASE RunSubcommand
  <2>1. UNCHANGED argv /\ outcome = "starting"
    BY <1>2 DEF RunSubcommand, Starting
  <2>2. CASE Exit("subcommand")
    BY <2>1, <2>2, ExitPreserves
  <2>3. CASE outcome' = "done"
             /\ UNCHANGED <<step, loading, endpoints, attempt, dictionary, reason>>
    <3>1. ThreadsTyped'
      BY <2>1, <2>3 DEF StartUpInv, ThreadsTyped
    <3>. QED
      BY <2>1, <2>3, <3>1 DEF StartUpInv, EndpointsUnpushed, Contextless, ThreadsConnected,
         MainAfter, Connected, MyWorkers
  <2>. QED
    BY <1>2, <2>2, <2>3 DEF RunSubcommand
<1>3. CASE GetDictionaryEndpoints
  <2>1. UNCHANGED argv /\ step["main"] = "projectReady"
    BY <1>3 DEF GetDictionaryEndpoints, Starting
  <2>2. CASE Exit("dictionaries")
    BY <2>1, <2>2, ExitPreserves
  <2>3. CASE /\ GoesTo("main", "dictionaries")
             /\ UNCHANGED <<loading, endpoints, attempt, dictionary>>
    <3>1. Connected("main") /\ argv.command \in {"node", "test"} /\ loading["main"] = {}
      BY <2>1, MainIsThread DEF StartUpInv, ThreadsConnected, EndpointsUnpushed, Contextless,
         InitialisedSteps
    <3>2. "dictionaries" \in Steps /\ "dictionaries" \notin MainSteps
      BY DEF Steps, MainSteps
    <3>. QED
      BY <2>1, <2>3, <3>1, <3>2, MainIsThread, GoesToPreserves
  <2>. QED
    BY <1>3, <2>2, <2>3 DEF GetDictionaryEndpoints
<1>4. CASE SpawnWorkers
  BY <1>4, SpawnPreserves
<1>5. CASE StartFetching
  <2>1. /\ step["main"] = "dispatcher" /\ GoesTo("main", "fetching")
        /\ \A w \in MyWorkers : step[w] = "projectReady"
        /\ UNCHANGED <<argv, loading, endpoints, attempt, dictionary>>
    BY <1>5 DEF StartFetching, Starting, WorkersReady
  <2>2. Connected("main") /\ argv.command \in {"node", "test"} /\ loading["main"] = {}
        /\ \A d \in Dictionaries : dictionary[d] # "unset"
    BY <2>1, MainIsThread DEF StartUpInv, ThreadsConnected, EndpointsUnpushed, Contextless,
       MainAfter, InitialisedSteps, MainSteps
  <2>3. "fetching" \in Steps
    BY DEF Steps
  <2>. QED
    BY <2>1, <2>2, <2>3, MainIsThread, GoesToPreserves
<1>6. CASE Listen
  <2>1. UNCHANGED argv /\ outcome = "starting"
    BY <1>6 DEF Listen, Starting
  <2>2. CASE Exit("listen")
    BY <2>1, <2>2, ExitPreserves
  <2>3. CASE outcome' = "listening"
             /\ UNCHANGED <<step, loading, endpoints, attempt, dictionary, reason>>
    <3>1. ThreadsTyped'
      BY <2>1, <2>3 DEF StartUpInv, ThreadsTyped
    <3>. QED
      BY <2>1, <2>3, <3>1 DEF StartUpInv, EndpointsUnpushed, Contextless, ThreadsConnected,
         MainAfter, Connected, MyWorkers
  <2>. QED
    BY <1>6, <2>2, <2>3 DEF Listen
<1>7. CASE \E d \in Dictionaries : InitDictionary(d)
  BY <1>7, DictionaryPreserves
<1>. QED
  BY <1>1, <1>2, <1>3, <1>4, <1>5, <1>6, <1>7 DEF MainStep

LEMMA StartUpInvariant == Spec => []StartUpInv
<1>1. Init => StartUpInv
  BY StartUpInitEstablishes
<1>2. StartUpInv /\ [Next]_vars => StartUpInv'
  <2> SUFFICES ASSUME StartUpInv, [Next]_vars PROVE StartUpInv'
    OBVIOUS
  <2>1. ASSUME NEW t \in Threads, ThreadStep(t) PROVE StartUpInv'
    BY <2>1, RegisterAppPreserves, CreateContextPreserves, AnswerPreserves, ServicesPreserve
       DEF ThreadStep
  <2>2. CASE MainStep
    BY <2>2, MainPreserves
  <2>3. CASE UNCHANGED startUpVars
    BY <2>3 DEF startUpVars, StartUpInv, ThreadsTyped, EndpointsUnpushed, Contextless,
       ThreadsConnected, MainAfter, Connected, MyWorkers
  <2>. QED
    BY <2>1, <2>2, <2>3 DEF Next, Profile, vars
<1>. QED
  BY <1>1, <1>2, PTL DEF Spec

------------------------------------------------------------------------------

\* ConcordiumApiService.init: a thread's endpoints are the project's with the
\* primary one once, however many threads load the project.
THEOREM StartUpTypeCorrect == Spec => []TypeOK
<1>1. StartUpInv /\ ProfilerTypeOK => TypeOK
  BY DEF StartUpInv, ThreadsTyped, TypeOK
<1>. QED
  BY <1>1, StartUpInvariant, StartUpProfiles, ProfilerTypeCorrect, PTL

\* When fetchService.init has gone on to the fetch loop, every thread that is
\* handed blocks has a connection and a project service.
THEOREM StartUpFetchingReady == Spec => []FetchingReady
<1>1. ASSUME StartUpInv PROVE FetchingReady
  <2> SUFFICES ASSUME step["main"] = "fetching"
               PROVE  /\ \A t \in {"main"} \cup MyWorkers : Connected(t)
                      /\ \A w \in MyWorkers : step[w] = "projectReady"
                      /\ \A d \in Dictionaries : dictionary[d] # "unset"
    BY DEF FetchingReady
  <2>1. /\ \A w \in MyWorkers : step[w] = "projectReady"
        /\ \A d \in Dictionaries : dictionary[d] # "unset"
    BY <1>1 DEF StartUpInv, MainAfter, MainSteps
  <2>2. \A t \in {"main"} \cup MyWorkers : t \in Threads /\ step[t] \in InitialisedSteps
    BY <2>1, MainIsThread DEF InitialisedSteps
  <2>. QED
    BY <1>1, <2>1, <2>2 DEF StartUpInv, ThreadsConnected
<1>. QED
  BY <1>1, StartUpInvariant, PTL

------------------------------------------------------------------------------
(* Nest finds every dependency.                                            *)

\* What every application has from the modules that are global.
CommonTokens ==
  {"Sequelize", "EventEmitter2", "NodeConfig", "ISubqueryProject",
   "IProjectUpgradeService", "Null"}

\* The modules of each application, imports followed twice.
LEMMA ApplicationModules ==
  /\ ModulesOf("node") = {"AppModule"} \cup AppImports
  /\ ModulesOf("worker") = {"WorkerModule"} \cup WorkerImports
  /\ ModulesOf("test") = {"TestingModule"} \cup TestingImports
  /\ ModulesOf("reindex") = {"ReindexModule"} \cup ReindexImports
  /\ ModulesOf("forceClean") = {"ForceCleanModule"} \cup ForceCleanImports
<1>. USE DEF ModulesOf, Lookup, Imports, RootModules
<1>1. ModulesOf("node") = {"AppModule"} \cup AppImports
  <2>1. UNION {Lookup(Imports, m) : m \in AppImports} = {"FetchModule"}
    BY DEF AppImports, MetaImports, AdminImports
  <2>. QED
    BY <2>1 DEF AppImports
<1>2. ModulesOf("worker") = {"WorkerModule"} \cup WorkerImports
  BY DEF WorkerImports
<1>3. ModulesOf("test") = {"TestingModule"} \cup TestingImports
  BY DEF TestingImports
<1>4. ModulesOf("reindex") = {"ReindexModule"} \cup ReindexImports
  BY DEF ReindexImports
<1>5. ModulesOf("forceClean") = {"ForceCleanModule"} \cup ForceCleanImports
  BY DEF ForceCleanImports
<1>. QED
  BY <1>1, <1>2, <1>3, <1>4, <1>5

\* NestFactory.create: every token a provider asks for is visible where it is
\* provided, for the node, its workers, the tests and the sub-commands.
LEMMA NodeCreatable == Creatable("node")
<1>1. /\ FetchProviders \cup CommonTokens \cup {"SchedulerRegistry"} \subseteq Visible("node", "FetchModule")
      /\ MetaProviders \cup CommonTokens \cup {"StoreCacheService"} \subseteq Visible("node", "MetaModule")
  BY ApplicationModules DEF Visible, Lookup, GlobalExports, Exports, Imports, Providers, AppImports, MetaImports,
     CommonTokens
<1>2. ASSUME NEW token \in FetchProviders
      PROVE  Requires("node", "FetchModule", token) \subseteq Visible("node", "FetchModule")
  <2>1. Requires("node", "FetchModule", token) \in
          {{}, ApiInject, DispatcherInject, IndexerManagerNeeds, FetchServiceNeeds,
            DictionaryServiceNeeds, DynamicDsServiceNeeds, UnfinalizedBlocksServiceNeeds,
            ProjectServiceNeeds("node")}
    BY DEF Requires, Factories, Lookup, ClassRequires, ClassOf, FetchProviders
  <2>. QED
    BY <1>1, <2>1 DEF CommonTokens, FetchProviders, ApiInject, DispatcherInject, IndexerManagerNeeds,
       FetchServiceNeeds, DictionaryServiceNeeds, DynamicDsServiceNeeds,
       UnfinalizedBlocksServiceNeeds, ProjectServiceNeeds, MainThreadOnly
<1>3. ASSUME NEW token \in MetaProviders
      PROVE  Requires("node", "MetaModule", token) \subseteq Visible("node", "MetaModule")
  BY <1>1 DEF Requires, Factories, Lookup, ClassRequires, ClassOf, MetaProviders,
     MetaServiceNeeds, CommonTokens
<1>4. /\ Lookup(Providers, "FetchModule") = FetchProviders
      /\ Lookup(Providers, "MetaModule") = MetaProviders
      /\ \A module \in ModulesOf("node") \ {"FetchModule", "MetaModule"} : Lookup(Providers, module) = {}
  BY ApplicationModules DEF Lookup, Providers, AppImports
<1>. QED
  BY <1>2, <1>3, <1>4 DEF Creatable

LEMMA WorkerCreatable == Creatable("worker")
<1>1. WorkerFetchProviders \cup CommonTokens \subseteq Visible("worker", "WorkerFetchModule")
  BY ApplicationModules DEF Visible, Lookup, GlobalExports, Providers, WorkerImports, CommonTokens
<1>2. ASSUME NEW token \in WorkerFetchProviders
      PROVE  Requires("worker", "WorkerFetchModule", token)
               \subseteq Visible("worker", "WorkerFetchModule")
  <2>1. Requires("worker", "WorkerFetchModule", token) \in
          {{}, ApiInject, IndexerManagerNeeds, ProjectServiceNeeds("worker"), WorkerServiceNeeds}
    BY DEF Requires, Factories, WorkerFactories, Lookup, ClassRequires, ClassOf, WorkerFetchProviders
  <2>. QED
    BY <1>1, <2>1 DEF CommonTokens, WorkerFetchProviders, ApiInject, IndexerManagerNeeds,
       WorkerServiceNeeds, ProjectServiceNeeds, MainThreadOnly
<1>3. /\ Lookup(Providers, "WorkerFetchModule") = WorkerFetchProviders
      /\ \A module \in ModulesOf("worker") \ {"WorkerFetchModule"} : Lookup(Providers, module) = {}
  BY ApplicationModules DEF Lookup, Providers, WorkerImports
<1>. QED
  BY <1>2, <1>3 DEF Creatable

LEMMA TestCreatable == Creatable("test")
<1>1. TestingProviders \cup CommonTokens \subseteq Visible("test", "TestingFeatureModule")
  BY ApplicationModules DEF Visible, Lookup, GlobalExports, Providers, TestingImports, CommonTokens
<1>2. ASSUME NEW token \in TestingProviders
      PROVE  Requires("test", "TestingFeatureModule", token)
               \subseteq Visible("test", "TestingFeatureModule")
  <2>1. Requires("test", "TestingFeatureModule", token) \in
          {{}, ApiInject, IndexerManagerNeeds, DynamicDsServiceNeeds, UnfinalizedBlocksServiceNeeds,
           ProjectServiceNeeds("test")}
    BY DEF Requires, Factories, Lookup, ClassRequires, ClassOf, TestingProviders
  <2>. QED
    BY <1>1, <2>1 DEF CommonTokens, TestingProviders, ApiInject, IndexerManagerNeeds,
       DynamicDsServiceNeeds, UnfinalizedBlocksServiceNeeds, ProjectServiceNeeds, MainThreadOnly
<1>3. /\ Lookup(Providers, "TestingFeatureModule") = TestingProviders
      /\ \A module \in ModulesOf("test") \ {"TestingFeatureModule"} : Lookup(Providers, module) = {}
  BY ApplicationModules DEF Lookup, Providers, TestingImports
<1>. QED
  BY <1>2, <1>3 DEF Creatable

LEMMA ReindexCreatable == Creatable("reindex") /\ Creatable("forceClean")
<1>1. ReindexProviders \cup CommonTokens \subseteq Visible("reindex", "ReindexFeatureModule")
  BY ApplicationModules DEF Visible, Lookup, GlobalExports, Providers, ReindexImports, CommonTokens
<1>2. ASSUME NEW token \in ReindexProviders
      PROVE  Requires("reindex", "ReindexFeatureModule", token)
               \subseteq Visible("reindex", "ReindexFeatureModule")
  <2>1. Requires("reindex", "ReindexFeatureModule", token) \in
          {{}, DynamicDsServiceNeeds, UnfinalizedBlocksServiceNeeds}
    BY DEF Requires, Factories, Lookup, ClassRequires, ClassOf, ReindexProviders
  <2>. QED
    BY <1>1, <2>1 DEF CommonTokens, ReindexProviders, DynamicDsServiceNeeds, UnfinalizedBlocksServiceNeeds
<1>3. /\ Lookup(Providers, "ReindexFeatureModule") = ReindexProviders
      /\ \A module \in ModulesOf("reindex") \ {"ReindexFeatureModule"} : Lookup(Providers, module) = {}
      /\ \A module \in ModulesOf("forceClean") : Lookup(Providers, module) = {}
  BY ApplicationModules DEF Lookup, Providers, ReindexImports, ForceCleanImports
<1>. QED
  BY <1>2, <1>3 DEF Creatable

\* app.get finds the project service by its token in the node and its workers.
LEMMA ProjectServiceFound == Found("node", "IProjectService") /\ Found("worker", "IProjectService")
BY ApplicationModules DEF Found, Lookup, Providers, AppImports, WorkerImports, FetchProviders, WorkerFetchProviders

LEMMA AllCreatable ==
  ASSUME StartUpInv, NEW t
  PROVE  Creatable(Command(t))
BY NodeCreatable, WorkerCreatable, TestCreatable, ReindexCreatable, StartUpAssumption
   DEF Command, StartUpInv, ThreadsTyped

\* NestFactory.create and app.get: whatever the command line, no start-up fails
\* for want of a dependency, but for the project service that the test command
\* looks up.
THEOREM StartUpDependenciesFound == Spec => []DependenciesFound
<1>1. Init => DependenciesFound
  BY DEF Init, DependenciesFound
<1>2. StartUpInv /\ DependenciesFound /\ [Next]_vars => DependenciesFound'
  <2> SUFFICES ASSUME StartUpInv, DependenciesFound, [Next]_vars PROVE DependenciesFound'
    OBVIOUS
  <2>1. CASE UNCHANGED <<argv, reason>>
    BY <2>1 DEF DependenciesFound
  <2>2. ASSUME NEW why \in {"port", "project", "endpoints", "projectService", "dictionaries",
                            "listen", "subcommand"},
               Exit(why)
        PROVE  DependenciesFound'
    BY <2>2 DEF DependenciesFound, Exit
  <2>3. ASSUME NEW t \in Threads, ThreadStep(t) PROVE DependenciesFound'
    <3>1. UNCHANGED argv
      BY <2>3 DEF ThreadStep, RegisterApp, CreateContext, Connect, ConnectFails, Connections,
         AppInit, ProjectServiceInit, LookupFails, Starting, Alive
    <3>2. CASE CreateContext(t)
      BY <2>1, <3>1, <3>2, AllCreatable DEF CreateContext, ApiInit, GoesTo
    <3>3. CASE LookupFails(t)
      <4>1. argv.command \in {"node", "test"}
        BY <3>3 DEF LookupFails, StartUpInv, ThreadsConnected, InitialisedSteps
      <4>2. argv.command = "test" /\ reason' = "lookup"
        BY <3>3, <4>1, ProjectServiceFound DEF LookupFails, Command, ProjectServiceToken, Exit
      <4>. QED
        BY <3>1, <4>2 DEF DependenciesFound
    <3>. QED
      BY <2>1, <2>2, <2>3, <3>1, <3>2, <3>3 DEF ThreadStep, RegisterApp, Connect, ConnectFails,
         Connections, AppInit, ProjectServiceInit, GoesTo
  <2>4. CASE MainStep
    BY <2>1, <2>2, <2>4 DEF MainStep, PickPort, RunSubcommand, GetDictionaryEndpoints,
       SpawnWorkers, StartFetching, Listen, InitDictionary, Starting, GoesTo
  <2>5. CASE UNCHANGED startUpVars
    BY <2>1, <2>5 DEF startUpVars
  <2>. QED
    BY <2>3, <2>4, <2>5 DEF Next, Profile, vars
<1>. QED
  BY <1>1, <1>2, StartUpInvariant, PTL DEF Spec

==============================================================================
