------------------------------- MODULE Wiring --------------------------------
(***************************************************************************)
(* The dependency injection of packages/node/src: which module provides    *)
(* which token, what the constructors and factories ask for, and hence     *)
(* which application contexts Nest can create and which lookups succeed.   *)
(*                                                                         *)
(* A class stands for its own token.  A token that is a string has the     *)
(* same name here, in quotes where there is a class of that name.  What    *)
(* node-core's own classes ask for is not in this repository and taken to  *)
(* be met, and those of its providers nobody here asks for are left out.   *)
(***************************************************************************)
EXTENDS FiniteSets

\* What the global modules export to every module of an application: DbModule,
\* EventEmitterModule, ScheduleModule and ConfigureModule.
GlobalExports ==
  [DbModule |-> {"Sequelize"},
   EventEmitterModule |-> {"EventEmitter2"},
   ScheduleModule |-> {"SchedulerRegistry"},
   ConfigureModule |-> {"NodeConfig", "ISubqueryProject", "IProjectUpgradeService", "Null"}]

\* The module that each command creates its context from.
RootModules == [node |-> "AppModule", worker |-> "WorkerModule", test |-> "TestingModule",
                reindex |-> "ReindexModule", forceClean |-> "ForceCleanModule"]

\* The imports of each module.
AppImports == {"DbModule", "EventEmitterModule", "ConfigureModule", "ScheduleModule",
               "FetchModule", "MetaModule", "AdminModule"}
MetaImports == {"FetchModule"}
AdminImports == {"FetchModule"}
WorkerImports == {"DbModule", "EventEmitterModule", "ConfigureModule", "ScheduleModule",
                  "WorkerFetchModule"}
TestingImports == {"DbModule", "ConfigureModule", "EventEmitterModule", "ScheduleModule",
                   "TestingFeatureModule"}
ReindexImports == {"DbModule", "ConfigureModule", "ReindexFeatureModule",
                   "EventEmitterModule"}
ForceCleanImports == {"DbModule", "ConfigureModule", "ForceCleanFeatureModule"}

Imports == [AppModule |-> AppImports, MetaModule |-> MetaImports,
            AdminModule |-> AdminImports, WorkerModule |-> WorkerImports,
            TestingModule |-> TestingImports, ReindexModule |-> ReindexImports,
            ForceCleanModule |-> ForceCleanImports]

Exports == [FetchModule |-> {"StoreCacheService"}]

\* The providers of each module.
FetchProviders ==
  {"InMemoryCacheService", "StoreService", "StoreCacheService", "ApiService",
   "IndexerManager", "ConnectionPoolStateManager", "ConnectionPoolService",
   "PoiSyncService", "IBlockDispatcher", "FetchService", "DictionaryService",
   "SandboxService", "DsProcessorService", "DynamicDsService", "PoiService",
   "IProjectService", "UnfinalizedBlocksService", "MonitorService"}

\* Mutant, no proxy of the unfinalized blocks service.
WorkerFetchProvidersIncomplete ==
  {"IndexerManager", "ConnectionPoolStateManager", "ConnectionPoolService", "ApiService",
   "SandboxService", "DsProcessorService", "DynamicDsService", "IProjectService",
   "WorkerService"}

WorkerFetchProviders ==
  {"IndexerManager", "ConnectionPoolStateManager", "ConnectionPoolService", "ApiService",
   "SandboxService", "DsProcessorService", "DynamicDsService", "IProjectService",
   "WorkerService", "UnfinalizedBlocksService"}

TestingProviders ==
  {"StoreService", "StoreCacheService", "EventEmitter2", "PoiService", "PoiSyncService",
   "SandboxService", "DsProcessorService", "DynamicDsService", "UnfinalizedBlocksService",
   "ConnectionPoolService", "IProjectService", "ApiService", "SchedulerRegistry", "IApi",
   "IIndexerManager"}

ReindexProviders ==
  {"StoreCacheService", "'UnfinalizedBlocksService'", "'DynamicDsService'",
   "DsProcessorService", "ApiService"}

MetaProviders == {"MetaService", "MetaController"}

Providers ==
  [FetchModule |-> FetchProviders,
   MetaModule |-> MetaProviders,
   WorkerFetchModule |-> WorkerFetchProviders,
   TestingFeatureModule |-> TestingProviders,
   ReindexFeatureModule |-> ReindexProviders]

Lookup(table, key) == IF key \in DOMAIN table THEN table[key] ELSE {}

------------------------------------------------------------------------------

\* What the constructors of the classes here ask for.  ProjectService takes
\* 'Null' for what only the main thread has.
MainThreadOnly(command, tokens) == IF command = "worker" THEN {"Null"} ELSE tokens

IndexerManagerNeeds ==
  {"ApiService", "NodeConfig", "SandboxService", "DsProcessorService", "DynamicDsService",
   "UnfinalizedBlocksService", "IProjectService"}

FetchServiceNeeds ==
  {"ApiService", "NodeConfig", "IProjectService", "ISubqueryProject", "IBlockDispatcher",
   "DictionaryService", "UnfinalizedBlocksService", "EventEmitter2", "SchedulerRegistry"}

DictionaryServiceNeeds ==
  {"ISubqueryProject", "NodeConfig", "DsProcessorService", "EventEmitter2"}

DynamicDsServiceNeeds == {"DsProcessorService", "ISubqueryProject"}

UnfinalizedBlocksServiceNeeds == {"ApiService", "NodeConfig", "StoreCacheService"}

ProjectServiceNeeds(command) ==
  {"DsProcessorService", "ApiService", "ISubqueryProject", "IProjectUpgradeService",
   "NodeConfig", "DynamicDsService", "EventEmitter2", "UnfinalizedBlocksService"}
  \cup MainThreadOnly(command, {"PoiService", "PoiSyncService", "Sequelize", "StoreService"})

WorkerServiceNeeds ==
  {"ApiService", "IndexerManager", "IProjectService", "IProjectUpgradeService", "NodeConfig"}

ApiInject == {"ISubqueryProject", "ConnectionPoolService", "EventEmitter2", "NodeConfig"}

MetaServiceNeeds == {"NodeConfig", "StoreCacheService"}

ClassRequires(command) ==
  [IndexerManager |-> IndexerManagerNeeds,
   FetchService |-> FetchServiceNeeds,
   DictionaryService |-> DictionaryServiceNeeds,
   DynamicDsService |-> DynamicDsServiceNeeds,
   UnfinalizedBlocksService |-> UnfinalizedBlocksServiceNeeds,
   ProjectService |-> ProjectServiceNeeds(command),
   WorkerService |-> WorkerServiceNeeds,
   ConcordiumApiService |-> ApiInject,
   MetaService |-> MetaServiceNeeds,
   MetaController |-> {"MetaService"}]

\* useClass: the class behind a token.
ClassOf(token) ==
  CASE token = "IProjectService" -> "ProjectService"
    [] token = "IApi" -> "ConcordiumApiService"
    [] token = "IIndexerManager" -> "IndexerManager"
    [] token = "'UnfinalizedBlocksService'" -> "UnfinalizedBlocksService"
    [] token = "'DynamicDsService'" -> "DynamicDsService"
    [] OTHER -> token

DispatcherInject ==
  {"NodeConfig", "EventEmitter2", "IProjectService", "IProjectUpgradeService",
   "ApiService", "IndexerManager", "InMemoryCacheService", "StoreService",
   "StoreCacheService", "PoiSyncService", "ISubqueryProject", "DynamicDsService",
   "UnfinalizedBlocksService", "ConnectionPoolStateManager", "MonitorService"}

\* Factories in the place of classes, with what is injected into them.  In a
\* worker most services are proxies of those of the main thread.
WorkerFactories ==
  [ApiService |-> ApiInject, ConnectionPoolStateManager |-> {}, DynamicDsService |-> {},
   UnfinalizedBlocksService |-> {}]

Factories ==
  [FetchModule |-> [ApiService |-> ApiInject, IBlockDispatcher |-> DispatcherInject],
   WorkerFetchModule |-> WorkerFactories,
   TestingFeatureModule |-> [ApiService |-> ApiInject],
   ReindexFeatureModule |-> [ApiService |-> {}]]

Requires(command, module, token) ==
  IF module \in DOMAIN Factories /\ token \in DOMAIN Factories[module]
  THEN Factories[module][token]
  ELSE Lookup(ClassRequires(command), ClassOf(token))

------------------------------------------------------------------------------
(* What Nest does with the tables (external).                              *)

\* The modules of an application; imports are two levels deep at most.
ModulesOf(command) ==
  LET direct == Lookup(Imports, RootModules[command])
  IN {RootModules[command]} \cup direct \cup (UNION {Lookup(Imports, m) : m \in direct})

Visible(command, module) ==
  Lookup(Providers, module)
  \cup (UNION {Lookup(Exports, m) : m \in Lookup(Imports, module)})
  \cup (UNION {Lookup(GlobalExports, m) : m \in ModulesOf(command)})

\* NestFactory.create: every dependency of every provider is found.
Creatable(command) ==
  \A module \in ModulesOf(command) : \A token \in Lookup(Providers, module) :
    Requires(command, module, token) \subseteq Visible(command, module)

\* app.get finds a token that any module of the application provides.
Found(command, token) ==
  \E module \in ModulesOf(command) : token \in Lookup(Providers, module)

==============================================================================
