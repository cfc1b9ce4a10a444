------------------------------- MODULE Project -------------------------------
(***************************************************************************)
(* From the manifest to the project: SubqueryProject.create                *)
(* (packages/node/src/configure/SubqueryProject.ts) over the manifest      *)
(* classes of packages/common-concordium/src/project, and the data sources *)
(* that DynamicDsService later makes out of the project's templates.       *)
(*                                                                         *)
(* A manifest is untyped YAML: a field is abstracted to its shape ("absent"*)
(* when it is missing).  plainToClass turns the manifest into classes and  *)
(* may throw, the validators of the classes may reject it, and the files   *)
(* it names are read; what class-transformer, class-validator and node-core*)
(* do is external and modelled from the decorators and calls here.         *)
(***************************************************************************)
EXTENDS Naturals, Sequences

CONSTANTS
  ManifestInputs,   \* the manifests to be loaded, [raw, networkOverrides]
  HandlerProcessors \* the plug-in behind custom data sources: baseHandlerKind of its
                    \* handlerProcessors, by the kinds of handlers it knows

\* ConcordiumHandlerKind and ConcordiumDatasourceKind.
HandlerKinds == {"block", "transaction", "transactionEvent", "specialEvent"}
RuntimeKind == "concordium/Runtime"

\* Every field of a data source is there, Absent when the manifest lacks it.
DsFields == {"kind", "name", "mapping", "startBlock", "assets", "processor"}

ASSUME ProjectAssumption ==
  /\ \A kind \in DOMAIN HandlerProcessors : HandlerProcessors[kind] \in HandlerKinds
  /\ \A input \in ManifestInputs :
       /\ input.networkOverrides.shape \in {"absent", "list"}
       /\ input.raw.network.endpoint.shape \in {"absent", "string", "list"}
       /\ DOMAIN input.raw.network.endpoint = {"shape", "urls"}
       /\ \A i \in DOMAIN input.raw.templates : DOMAIN input.raw.templates[i] = DsFields

VARIABLES
  manifest,       \* rawManifest, then the manifest parsed from it
  overrides,      \* networkOverrides: the endpoints given on the command line
  stage,          \* how far create() has come
  network,        \* the network of the project
  dataSources,
  templates,
  dynamic         \* the last call of getDatasource: [outcome, ds]

projectVars == <<manifest, overrides, stage, network, dataSources, templates, dynamic>>

Absent == "absent"
NoDs == [kind |-> Absent]
NoNetwork == [chainId |-> Absent]
NoDynamic == [outcome |-> "none", ds |-> NoDs]

------------------------------------------------------------------------------
(* The validators.  @IsOptional lets a missing value pass; @ValidateNested *)
(* lets it pass too, wants an object or a list and validates what is in it. *)

Optional(shape, wanted) == shape \in {Absent, wanted}

\* values has @IsObject and no more: what is in it is not looked at, and Filters
\* has all that it may be.
ItemFilterValid(f) ==
  \/ f.shape \in {Absent, "list"}
  \/ /\ f.shape = "object"
     /\ Optional(f.type, "string")
     /\ Optional(f.values, "object")

\* Mutant, a missing @IsOptional: an item handler needs a filter.
HandlerValidWithFilter(h) ==
  /\ h.kind \in HandlerKinds
  /\ h.handler = "string"
  /\ IF h.kind = "block" THEN Optional(h.filter.shape, "object")
                         ELSE h.filter.shape # Absent /\ ItemFilterValid(h.filter)

\* The filter of a block handler has @IsObject but no @ValidateNested: what
\* is in it is not looked at.
HandlerValid(h) ==
  /\ h.kind \in HandlerKinds
  /\ h.handler = "string"
  /\ IF h.kind = "block" THEN Optional(h.filter.shape, "object")
                         ELSE ItemFilterValid(h.filter)

CustomHandlerValid(h) ==
  /\ h.kind # Absent
  /\ h.handler = "string"
  /\ Optional(h.filter.shape, "object")

HandlersOf(mapping) == {mapping.handlers[i] : i \in DOMAIN mapping.handlers}

\* The @Transform of ConcordiumMapping.handlers throws on any other kind.
MappingTransformable(mapping) ==
  mapping.shape = "object" => \A h \in HandlersOf(mapping) : h.kind \in HandlerKinds

ConcordiumMappingValid(mapping) ==
  /\ mapping.shape = "object"
  /\ \A h \in HandlersOf(mapping) : HandlerValid(h)
  /\ mapping.file = "string"

CustomMappingValid(mapping) ==
  /\ mapping.shape = "object"
  /\ \A h \in HandlersOf(mapping) : CustomHandlerValid(h)
  /\ mapping.file = "string"

RuntimeDsValid(ds) ==
  /\ ds.kind = RuntimeKind
  /\ ds.mapping.shape = Absent \/ ConcordiumMappingValid(ds.mapping)
  /\ Optional(ds.startBlock, "number")

\* Mutant, the processor is optional.
CustomDsValidWithoutProcessor(ds) ==
  /\ ds.kind # Absent
  /\ ds.mapping.shape = Absent \/ CustomMappingValid(ds.mapping)
  /\ Optional(ds.startBlock, "number")
  /\ Optional(ds.assets, "file")

CustomDsValid(ds) ==
  /\ ds.kind # Absent
  /\ ds.mapping.shape = Absent \/ CustomMappingValid(ds.mapping)
  /\ Optional(ds.startBlock, "number")
  /\ Optional(ds.assets, "file")
  /\ ds.processor = "object"

\* The classes a data source or a template is parsed to: the discriminator
\* knows 'concordium/Runtime' and leaves every other kind to the custom class.
DataSourceValid(ds) ==
  IF ds.kind = RuntimeKind THEN RuntimeDsValid(ds) ELSE CustomDsValid(ds)

TemplateValid(t) == DataSourceValid(t) /\ t.name = "string"

\* The node names and the query of the runner; the version is a semver range.  The
\* class names the node itself when the manifest does not.
RunnerValid(runner) ==
  /\ runner.name \in {Absent, "@subql/node-concordium", "@subql/node-flare"}
  /\ runner.version # Absent
  /\ runner.query = "object"

Truthy(id) == id \notin {Absent, ""}

\* String.prototype.trim on the identifiers of the inputs.
Trim(id) == IF id = " " THEN "" ELSE IF id = " id" THEN "id" ELSE id

\* The @Transform of DeploymentV1_0_0.network: genesisHash stands in for a
\* chainId that is missing or empty.
DeploymentChainId(net) ==
  IF Truthy(net.genesisHash) /\ ~Truthy(Trim(net.chainId))
  THEN Trim(net.genesisHash) ELSE Trim(net.chainId)

ListItems(s) == {s[i] : i \in DOMAIN s}

\* Mutant, no @ValidateNested on the templates.
DeploymentValidWithoutTemplates(m) ==
  /\ DeploymentChainId(m.network) \notin {"number", "", Absent}
  /\ RunnerValid(m.runner)
  /\ \A ds \in ListItems(m.dataSources) : DataSourceValid(ds)

\* Trimming a number throws, which ends validate() as an error does.
DeploymentValid(m) ==
  /\ DeploymentChainId(m.network) \notin {"number", "", Absent}
  /\ RunnerValid(m.runner)
  /\ \A ds \in ListItems(m.dataSources) : DataSourceValid(ds)
  /\ \A t \in ListItems(m.templates) : TemplateValid(t)

------------------------------------------------------------------------------
(* Telling data sources and handlers apart.                                *)

isRuntimeDs(ds) == ds.kind = RuntimeKind

isCustomDs(ds) == ds.kind # RuntimeKind /\ ds.processor # Absent

isBaseHandler(h) == h.kind \in HandlerKinds

\* isBlockHandlerProcessor and its siblings, by kind.
isHandlerProcessor(kind, baseHandlerKind) == baseHandlerKind = kind

\* The kinds of items that a handler of a data source is given: the plug-in has a
\* processor for a custom handler's kind, or IndexerManager fails on it.
RunsOn(ds, h) ==
  IF isCustomDs(ds) /\ h.kind \in DOMAIN HandlerProcessors
  THEN {k \in HandlerKinds : isHandlerProcessor(k, HandlerProcessors[h.kind])}
  ELSE IF isRuntimeDs(ds) /\ isBaseHandler(h) THEN {h.kind} ELSE {}

------------------------------------------------------------------------------
(* SubqueryProject.create.                                                 *)

ProjectInit ==
  /\ \E input \in ManifestInputs : manifest = input.raw /\ overrides = input.networkOverrides
  /\ stage = "raw"
  /\ network = NoNetwork
  /\ dataSources = <<>>
  /\ templates = <<>>
  /\ dynamic = NoDynamic

\* An error ends the load: create() rejects.
LoadFails ==
  /\ stage' = "failed"
  /\ UNCHANGED <<manifest, overrides, network, dataSources, templates, dynamic>>

\* ConcordiumProjectManifestVersioned: the version picks the class, and
\* plainToClass runs the transforms of every mapping and of the chain id.
Parsable(m) ==
  /\ m.given
  /\ m.specVersion = "1.0.0"
  /\ \A ds \in ListItems(m.dataSources) \cup ListItems(m.templates) :
       isRuntimeDs(ds) => MappingTransformable(ds.mapping)

Parse ==
  /\ stage = "raw"
  /\ \/ Parsable(manifest) /\ stage' = "parsed"
     \/ ~Parsable(manifest) /\ stage' = "failed"
  /\ UNCHANGED <<manifest, overrides, network, dataSources, templates, dynamic>>

\* validate() looks at the deployment that the manifest is turned into.
Validate ==
  /\ stage = "parsed"
  /\ \/ DeploymentValid(manifest) /\ stage' = "validated"
     \/ ~DeploymentValid(manifest) /\ stage' = "failed"
  /\ UNCHANGED <<manifest, overrides, network, dataSources, templates, dynamic>>

\* Mutant, a single endpoint stays as it is.
EndpointListAsGiven(m) ==
  IF overrides.shape # Absent THEN overrides ELSE m.network.endpoint

\* loadProjectFromManifestBase: a single endpoint becomes a list, and the
\* command line's endpoints replace the manifest's.
EndpointList(m) ==
  IF overrides.shape # Absent THEN overrides
  ELSE IF m.network.endpoint.shape = "string" THEN [m.network.endpoint EXCEPT !.shape = "list"]
  ELSE m.network.endpoint

\* processChainId, on the manifest's own network: both identifiers are an
\* error, and chainId takes the value of a genesisHash that stands alone.
BothGiven(net) == Truthy(net.chainId) /\ Truthy(net.genesisHash)

\* Mutant, genesisHash is deleted before it is copied.
processChainIdDeleted(net) == net.chainId

processChainId(net) ==
  IF Truthy(net.genesisHash) /\ ~Truthy(net.chainId) THEN net.genesisHash ELSE net.chainId

ResolveNetwork ==
  /\ stage = "validated"
  /\ ~BothGiven(manifest.network)
  /\ EndpointList(manifest).shape # Absent
  /\ network' = [chainId |-> processChainId(manifest.network),
                 endpoint |-> EndpointList(manifest)]
  /\ stage' = "network"
  /\ UNCHANGED <<manifest, overrides, dataSources, templates, dynamic>>

RejectNetwork ==
  /\ stage = "validated"
  /\ BothGiven(manifest.network) \/ EndpointList(manifest).shape = Absent
  /\ LoadFails

\* The schema is read through the reader; a manifest without one throws too.
ReadSchema ==
  /\ stage = "network"
  /\ manifest.schema # Absent
  /\ stage' = "schema"
  /\ UNCHANGED <<manifest, overrides, network, dataSources, templates, dynamic>>

\* node-core reads the mapping file of every data source, and then of every
\* template.
Readable(list) == \A ds \in ListItems(list) : ds.mapping.shape # Absent

UpdateDataSources ==
  /\ stage = "schema"
  /\ Readable(manifest.dataSources)
  /\ dataSources' = manifest.dataSources
  /\ stage' = "dataSources"
  /\ UNCHANGED <<manifest, overrides, network, templates, dynamic>>

LoadTemplates ==
  /\ stage = "dataSources"
  /\ Readable(manifest.templates)
  /\ templates' = manifest.templates
  /\ stage' = "templates"
  /\ UNCHANGED <<manifest, overrides, network, dataSources, dynamic>>

CheckRunner ==
  /\ stage = "templates"
  /\ \/ manifest.runner.version = "satisfied" /\ stage' = "loaded"
     \/ manifest.runner.version # "satisfied" /\ stage' = "failed"
  /\ UNCHANGED <<manifest, overrides, network, dataSources, templates, dynamic>>

\* Reading a file fails whenever the file or the store behind it does.
ReadingFails ==
  /\ stage \in {"network", "schema", "dataSources"}
  /\ LoadFails

Load == \/ Parse \/ Validate \/ ResolveNetwork \/ RejectNetwork \/ ReadSchema
        \/ UpdateDataSources \/ LoadTemplates \/ CheckRunner \/ ReadingFails

\* validateCustomDs of node-core: the plug-in knows the kind of every handler.
KindsKnown(ds) ==
  isCustomDs(ds) =>
    \A h \in HandlersOf(ds.mapping) : h.kind \in DOMAIN HandlerProcessors

\* ProjectService.init of node-core: the plug-ins look at the custom data sources
\* before anything is indexed, and may refuse them for reasons of their own.
ValidateCustomDatasources ==
  /\ stage = "loaded"
  /\ \/ (\A ds \in ListItems(dataSources) : KindsKnown(ds)) /\ stage' = "running"
     \/ (\E ds \in ListItems(dataSources) : isCustomDs(ds)) /\ stage' = "refused"
  /\ UNCHANGED <<manifest, overrides, network, dataSources, templates, dynamic>>

------------------------------------------------------------------------------
(* DynamicDsService.getDatasource, called while blocks are indexed.        *)

\* node-core's getTemplate: the template without its name, from a height on.
getTemplate(t) == [t EXCEPT !.name = Absent, !.startBlock = "number"]

\* A handler asks for a template that the project does not have.
UnknownTemplate ==
  /\ stage = "running"
  /\ dynamic' = [outcome |-> "unknown", ds |-> NoDs]
  /\ UNCHANGED <<manifest, overrides, stage, network, dataSources, templates>>

\* The plug-in of a custom template may refuse it or the arguments; a runtime
\* template is transformed and validated again; anything else passes.
getDatasource(ds, outcome) ==
  IF isCustomDs(ds) THEN outcome = "refused" \/ (outcome = "created" /\ KindsKnown(ds))
  ELSE IF isRuntimeDs(ds)
  THEN outcome = IF MappingTransformable(ds.mapping) /\ RuntimeDsValid(ds)
                 THEN "created" ELSE "invalid"
  ELSE outcome = "created"

CreateDynamicDs ==
  /\ stage = "running"
  /\ \E t \in ListItems(templates), outcome \in {"created", "refused", "invalid"} :
       /\ getDatasource(getTemplate(t), outcome)
       /\ dynamic' = [outcome |-> outcome, ds |-> getTemplate(t)]
  /\ UNCHANGED <<manifest, overrides, stage, network, dataSources, templates>>

ProjectNext == Load \/ ValidateCustomDatasources \/ UnknownTemplate \/ CreateDynamicDs

ProjectSpec == ProjectInit /\ [][ProjectNext]_projectVars

------------------------------------------------------------------------------

\* Type invariant.  ConcordiumApiService.init pushes the primary endpoint
\* onto the endpoints of the network, so they have to be a list.
ProjectTypeOK ==
  /\ overrides.shape \in {Absent, "list"}
  /\ stage \in {"raw", "parsed", "validated", "network", "schema", "dataSources",
                "templates", "loaded", "running", "failed", "refused"}
  /\ network # NoNetwork => network.endpoint.shape = "list"
  /\ dataSources \in {<<>>, manifest.dataSources}
  /\ templates \in {<<>>, manifest.templates}
  /\ dynamic.outcome \in {"none", "unknown", "created", "refused", "invalid"}

\* The chain id is resolved twice, by the deployment (which is validated and
\* identifies the project) and by processChainId (which the connections are
\* checked against).  Up to the blanks around it both come to the same.
ChainIdResolved ==
  network # NoNetwork => Trim(network.chainId) = DeploymentChainId(manifest.network)

\* IndexerManager runs a data source only if it is a runtime or a custom one,
\* and a handler only for one kind of item: what passed the validators and the
\* plug-ins has no data source and no handler that would be passed over or fail.
Runnable(ds) ==
  /\ isRuntimeDs(ds) # isCustomDs(ds)
  /\ \A h \in HandlersOf(ds.mapping) : \E kind \in HandlerKinds : RunsOn(ds, h) = {kind}

ProjectRunnable ==
  stage = "running" => \A ds \in ListItems(dataSources) : Runnable(ds)

\* A template accepted when the project was loaded does not fail later, in
\* the middle of a block, when getDatasource validates what is made of it, and a
\* data source that comes out can be run.
TemplatesInstantiable ==
  /\ dynamic.outcome # "invalid"
  /\ dynamic.outcome = "created" => Runnable(dynamic.ds)

\* The published types, packages/types/src/project.ts.
TypedHandler(ds, h) ==
  /\ h.handler = "string"
  /\ IF ds.kind # RuntimeKind THEN h.kind # Absent /\ h.filter.shape \in {Absent, "object"}
     ELSE /\ isBaseHandler(h)
          /\ \/ h.filter.shape = Absent
             \/ /\ h.filter.shape = "object"
                /\ h.filter.type \in {Absent, "string"}
                /\ h.filter.values \in {Absent, "object"}

TypedDs(ds) ==
  /\ ds.mapping.shape = "object" /\ ds.mapping.file = "string"
  /\ ds.startBlock \in {Absent, "number"}
  /\ \A h \in HandlersOf(ds.mapping) : TypedHandler(ds, h)
  /\ \/ ds.kind = RuntimeKind
     \/ ds.kind # Absent /\ ds.assets = "file" /\ ds.processor = "object"

TypedNetwork(net) ==
  net.chainId \in {"id", " id"} /\ net.genesisHash = Absent /\ net.endpoint.shape # Absent

TypedProject(m) ==
  /\ m.given /\ m.specVersion = "1.0.0"
  /\ m.runner.name = "@subql/node-concordium" /\ m.runner.version = "satisfied"
  /\ m.runner.query = "object"
  /\ m.schema = "file"
  /\ TypedNetwork(m.network)
  /\ \A ds \in ListItems(m.dataSources) : TypedDs(ds)
  /\ \A t \in ListItems(m.templates) : TypedDs(t) /\ t.name = "string"

\* A manifest that agrees with the published types is never turned down: only
\* a file that cannot be read ends its load.
AcceptsTyped ==
  stage = "failed" /\ TypedProject(manifest) =>
    network # NoNetwork /\ templates = <<>>

==============================================================================
