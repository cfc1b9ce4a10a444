------------------------------- MODULE StartUp -------------------------------
(***************************************************************************)
(* From the command line to a running node: bootstrap (packages/node/src/  *)
(* init.ts), the sub-commands, the connections that ConcordiumApiService   *)
(* opens while Nest creates the context, the worker threads that the block *)
(* dispatcher waits for, the dictionaries, and the profiler's interval,    *)
(* which ticks from app.init on, before there is anything to report.       *)
(*                                                                         *)
(* Each thread loads the project from the moment its modules are imported, *)
(* connects to every endpoint at once and goes on with the first           *)
(* connection, while the others are still on their way.  Which chain an    *)
(* endpoint serves is a constant; whether it answers is not.               *)
(***************************************************************************)
EXTENDS Wiring, Profiler, Sequences

CONSTANTS
  Endpoints,
  Serves,         \* Serves[e]: the genesis hash of e's chain, or "malformed"
  ChainId,        \* network.chainId of the project
  Dictionaries,   \* the dictionary endpoints
  Workers,        \* the worker threads, of a node that is started with them
  Inputs          \* [command, port, workers, profiler, endpoint, primary]

Threads == {"main"} \cup Workers

ASSUME StartUpAssumption ==
  /\ "main" \notin Workers
  /\ Serves \in [Endpoints -> STRING]
  /\ \A input \in Inputs : input.command \in {"node", "test", "reindex", "forceClean"}

VARIABLES
  argv,         \* the command line, and what the project says of endpoints
  step,         \* step[t]: how far thread t has come
  loading,      \* loading[t]: the loads of the project that are under way
  endpoints,    \* endpoints[t]: network.endpoint of the thread's project
  attempt,      \* attempt[t][e]: the connection of thread t to e
  dictionary,   \* dictionary[d]
  outcome,      \* of the process
  reason        \* history: why the process exited

startUpVars == <<argv, step, loading, endpoints, attempt, dictionary, outcome, reason>>
vars == <<startUpVars, profilerVars>>

\* Importing the module of a command calls ConfigureModule.register; the test
\* command asks for an instance of its own as well.
LoadsAtStart(command) == IF command = "test" THEN {"module", "instance"} ELSE {"module"}

Init ==
  /\ argv \in Inputs
  /\ step = [t \in Threads |-> IF t = "main" /\ argv.command # "node" THEN "ready" ELSE "off"]
  /\ loading = [t \in Threads |-> IF t = "main" THEN LoadsAtStart(argv.command) ELSE {}]
  /\ endpoints = [t \in Threads |-> <<>>]
  /\ attempt = [t \in Threads |-> [e \in Endpoints |-> "none"]]
  /\ dictionary = [d \in Dictionaries |-> "unset"]
  /\ outcome = "starting"
  /\ reason = "none"
  /\ ProfilerInit

MyWorkers == IF argv.workers THEN Workers ELSE {}

\* The command whose tables of Wiring a thread goes by.
Command(t) == IF t = "main" THEN argv.command ELSE "worker"

Starting == outcome = "starting" /\ UNCHANGED <<argv, profilerVars>>

\* Connections that are not waited for go on behind a node that listens.
Alive == outcome \in {"starting", "listening"} /\ UNCHANGED <<argv, profilerVars>>

GoesTo(t, s) == step' = [step EXCEPT ![t] = s] /\ UNCHANGED <<outcome, reason>>

\* exitWithError on the main thread; the main thread waits for its workers
\* and fails with the first that does.
Exit(why) ==
  /\ outcome' = "exited"
  /\ reason' = why
  /\ UNCHANGED <<step, loading, endpoints, attempt, dictionary>>

------------------------------------------------------------------------------
(* The project and the context.                                            *)

\* validate(argv.port) ?? findAvailablePort: 0 is a port but not truthy, and
\* all ports may be taken.  The project is loading meanwhile.
PickPort ==
  /\ Starting
  /\ argv.command = "node" /\ step["main"] = "off"
  /\ \/ argv.port # "0" /\ GoesTo("main", "ready")
        /\ UNCHANGED <<loading, endpoints, attempt, dictionary>>
     \/ argv.port # "given" /\ Exit("port")

\* registerApp: every load reads a project of its own.  The one of the module
\* is what the services of the thread are given, so that the endpoint which
\* init pushes is pushed onto a list of the thread's own.
RegisterApp(t) ==
  /\ Starting
  /\ \E load \in loading[t] :
       \/ /\ loading' = [loading EXCEPT ![t] = @ \ {load}]
          /\ endpoints' = IF load = "module" THEN [endpoints EXCEPT ![t] = argv.endpoint]
                          ELSE endpoints
          /\ UNCHANGED <<step, attempt, dictionary, outcome, reason>>
       \/ Exit("project")

\* Mutant, all threads share one project.
ApiInitShared(t) ==
  /\ endpoints' = [u \in Threads |-> endpoints[t] \o argv.primary]
  /\ attempt' = [attempt EXCEPT ![t] = [e \in Endpoints |->
       IF \E i \in DOMAIN endpoints'[t] : endpoints'[t][i] = e THEN "pending" ELSE "none"]]
  /\ GoesTo(t, "connecting")
  /\ UNCHANGED <<loading, dictionary>>

\* The factory of ApiService: init pushes the primary endpoint onto the list
\* and createConnections connects to all of them at once.
ApiInit(t) ==
  /\ endpoints' = [endpoints EXCEPT ![t] = @ \o argv.primary]
  /\ attempt' = [attempt EXCEPT ![t] = [e \in Endpoints |->
       IF \E i \in DOMAIN endpoints'[t] : endpoints'[t][i] = e THEN "pending" ELSE "none"]]
  /\ GoesTo(t, "connecting")
  /\ UNCHANGED <<loading, dictionary>>

\* NestFactory.create waits for the modules: a dependency that is not provided
\* is an error, and reindex and forceClean have no API to be initialised.
CreateContext(t) ==
  /\ Starting
  /\ step[t] = "ready" /\ loading[t] = {}
  /\ IF ~Creatable(Command(t)) THEN Exit("dependency")
     ELSE IF argv.command \in {"node", "test"} THEN ApiInit(t)
     ELSE GoesTo(t, "created") /\ UNCHANGED <<loading, endpoints, attempt, dictionary>>

------------------------------------------------------------------------------
(* Connecting.                                                             *)

\* ConcordiumApi.init: the hash of the block at height 0.
GetChainId(e) == Serves[e]

\* ConcordiumApiConnection.create: new URL throws on a malformed endpoint;
\* node-core compares the chain id with the project's.
Connect(t, e) ==
  /\ Alive
  /\ attempt[t][e] = "pending"
  /\ Serves[e] # "malformed"
  /\ GetChainId(e) = ChainId
  /\ attempt' = [attempt EXCEPT ![t][e] = "connected"]
  /\ UNCHANGED <<step, loading, endpoints, dictionary, outcome, reason>>

\* Any endpoint may fail to answer.
ConnectFails(t, e) ==
  /\ Alive
  /\ attempt[t][e] = "pending"
  /\ attempt' = [attempt EXCEPT ![t][e] = "failed"]
  /\ UNCHANGED <<step, loading, endpoints, dictionary, outcome, reason>>

Connected(t) == \E e \in Endpoints : attempt[t][e] = "connected"

NoneConnects(t) == \A e \in Endpoints : attempt[t][e] \in {"none", "failed"}

\* Mutant, nobody waits for the connections.
ConnectionsUnawaited(t) ==
  /\ Starting
  /\ step[t] = "connecting"
  /\ GoesTo(t, "created") /\ UNCHANGED <<loading, endpoints, attempt, dictionary>>

\* Mutant, nothing tells that all endpoints have failed.
ConnectionsNoFailure(t) ==
  /\ Starting
  /\ step[t] = "connecting"
  /\ Connected(t)
  /\ GoesTo(t, "created") /\ UNCHANGED <<loading, endpoints, attempt, dictionary>>

\* createConnections goes on with the first connection.
Connections(t) ==
  /\ Starting
  /\ step[t] = "connecting"
  /\ \/ Connected(t) /\ GoesTo(t, "created")
        /\ UNCHANGED <<loading, endpoints, attempt, dictionary>>
     \/ NoneConnects(t) /\ Exit("endpoints")

------------------------------------------------------------------------------
(* Services.                                                               *)

\* app.init of node and worker, testContext.init: the interval is scheduled.
AppInit(t) ==
  /\ Starting
  /\ step[t] = "created"
  /\ Command(t) \in {"node", "worker", "test"}
  /\ GoesTo(t, "initialised")
  /\ UNCHANGED <<loading, endpoints, attempt, dictionary>>

\* reindex and forceClean do their work in node-core and exit.
RunSubcommand ==
  /\ Starting
  /\ step["main"] = "created"
  /\ argv.command \in {"reindex", "forceClean"}
  /\ \/ outcome' = "done"
        /\ UNCHANGED <<step, loading, endpoints, attempt, dictionary, reason>>
     \/ Exit("subcommand")

\* What each command asks the context for: the token of the node and of the
\* workers, but the class itself in getTestRunner.
ProjectServiceToken(command) == IF command = "test" THEN "ProjectService" ELSE "IProjectService"

\* projectService.init: node-core prepares the database and may fail.
ProjectServiceInit(t) ==
  /\ Starting
  /\ step[t] = "initialised"
  /\ Found(Command(t), ProjectServiceToken(Command(t)))
  /\ \/ GoesTo(t, "projectReady")
        /\ UNCHANGED <<loading, endpoints, attempt, dictionary>>
     \/ Exit("projectService")

\* app.get throws on a token that no module provides.
LookupFails(t) ==
  /\ Starting
  /\ step[t] = "initialised"
  /\ ~Found(Command(t), ProjectServiceToken(Command(t)))
  /\ Exit("lookup")

\* initDictionaries, part of fetchService.init: no project, or no list of the
\* endpoints, is an error.
GetDictionaryEndpoints ==
  /\ Starting
  /\ argv.command = "node" /\ step["main"] = "projectReady"
  /\ \/ GoesTo("main", "dictionaries")
        /\ UNCHANGED <<loading, endpoints, attempt, dictionary>>
     \/ Exit("dictionaries")

\* Of the endpoints on the list one that is no dictionary is skipped.
InitDictionary(d) ==
  /\ Starting
  /\ step["main"] = "dictionaries"
  /\ dictionary[d] = "unset"
  /\ \E s \in {"usable", "skipped"} : dictionary' = [dictionary EXCEPT ![d] = s]
  /\ UNCHANGED <<step, loading, endpoints, attempt, outcome, reason>>

\* initBlockDispatcher creates the workers, all at once; each imports its
\* module, which loads the project.
SpawnWorkers ==
  /\ Starting
  /\ step["main"] = "dictionaries"
  /\ \A d \in Dictionaries : dictionary[d] # "unset"
  /\ step' = [t \in Threads |-> IF t = "main" THEN "dispatcher"
                                ELSE IF t \in MyWorkers THEN "ready" ELSE "off"]
  /\ loading' = [t \in Threads |-> IF t \in MyWorkers THEN LoadsAtStart("worker") ELSE {}]
  /\ UNCHANGED <<endpoints, attempt, dictionary, outcome, reason>>

\* The dispatcher waits for initWorker of every worker to return.
WorkersReady == \A w \in MyWorkers : step[w] = "projectReady"

\* The fetch loop starts, and is not waited for.
StartFetching ==
  /\ Starting
  /\ step["main"] = "dispatcher"
  /\ WorkersReady
  /\ GoesTo("main", "fetching")
  /\ UNCHANGED <<loading, endpoints, attempt, dictionary>>

Listen ==
  /\ Starting
  /\ step["main"] = "fetching"
  /\ \/ outcome' = "listening"
        /\ UNCHANGED <<step, loading, endpoints, attempt, dictionary, reason>>
     \/ Exit("listen")

------------------------------------------------------------------------------

\* The profiler, on the main thread of a node started with it.
Profile ==
  /\ outcome # "exited"
  /\ argv.command = "node" /\ argv.profiler
  /\ \/ /\ step["main"] \in {"initialised", "projectReady", "dictionaries", "dispatcher",
                              "fetching"}
        /\ Interval
     \/ step["main"] = "fetching" /\ ProfilerEvent
  /\ UNCHANGED startUpVars

ThreadStep(t) ==
  \/ RegisterApp(t) \/ CreateContext(t)
  \/ \E e \in Endpoints : Connect(t, e) \/ ConnectFails(t, e)
  \/ Connections(t) \/ AppInit(t) \/ ProjectServiceInit(t) \/ LookupFails(t)

MainStep ==
  \/ PickPort \/ RunSubcommand \/ GetDictionaryEndpoints \/ SpawnWorkers
  \/ StartFetching \/ Listen
  \/ \E d \in Dictionaries : InitDictionary(d)

Next == (\E t \in Threads : ThreadStep(t)) \/ MainStep \/ Profile

Spec == Init /\ [][Next]_vars

\* Every thread that can go on does: requests are answered or fail, and the
\* operating system schedules all threads.
FairSpec == Spec /\ WF_vars(MainStep) /\ \A t \in Threads : WF_vars(ThreadStep(t))

------------------------------------------------------------------------------

Steps == {"off", "ready", "connecting", "created", "initialised", "projectReady",
          "dictionaries", "dispatcher", "fetching"}

\* Type invariant: every thread's endpoints are the project's, and the
\* primary one at most once more, however many threads push it.
TypeOK ==
  /\ ProfilerTypeOK
  /\ argv \in Inputs
  /\ step \in [Threads -> Steps]
  /\ loading \in [Threads -> SUBSET {"module", "instance"}]
  /\ \A t \in Threads : endpoints[t] \in {<<>>, argv.endpoint, argv.endpoint \o argv.primary}
  /\ attempt \in [Threads -> [Endpoints -> {"none", "pending", "connected", "failed"}]]
  /\ dictionary \in [Dictionaries -> {"unset", "usable", "skipped"}]
  /\ outcome \in {"starting", "listening", "done", "exited"}
  /\ outcome = "exited" <=> reason # "none"

\* When the fetch loop runs, every thread it hands blocks to has a connection
\* and a project service, and all dictionaries have been tried.
FetchingReady ==
  step["main"] = "fetching" =>
    /\ \A t \in {"main"} \cup MyWorkers : Connected(t)
    /\ \A w \in MyWorkers : step[w] = "projectReady"
    /\ \A d \in Dictionaries : dictionary[d] # "unset"

\* No start-up fails for want of a dependency: in every application, that of
\* a worker included, Nest finds what each provider asks for, and what the
\* node and its workers look up is there.  The test command's lookup is not:
\* testing.service.ts asks for the class of the project service, which its
\* module provides under a string alone.
DependenciesFound ==
  /\ reason # "dependency"
  /\ argv.command # "test" => reason # "lookup"

\* Start-up ends: the node listens, the sub-command is done or the process
\* exits.
StartUpEnds == <>(outcome # "starting")

==============================================================================
