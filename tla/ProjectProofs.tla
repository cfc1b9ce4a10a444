---------------------------- MODULE ProjectProofs ----------------------------
(***************************************************************************)
(* What loading a project guarantees, for any manifest and any command     *)
(* line.                                                                   *)
(*                                                                         *)
(* None of the properties is inductive: that a loaded project has only     *)
(* what can be run rests on the validation of the deployment, four stages  *)
(* earlier.  ProjectInv carries the verdicts of parsing and validating     *)
(* along, and says which parts of the project each stage has filled in.    *)
(***************************************************************************)
EXTENDS Project, TLAPS

LoadedStages == {"loaded", "running", "refused"}
ReadStages == {"network", "schema", "dataSources", "templates"} \cup LoadedStages
ValidStages == ReadStages \cup {"validated"}

\* What has been decided about the manifest by each stage.
Decided ==
  /\ stage \in {"raw", "parsed", "failed"} \cup ValidStages
  /\ stage \in ValidStages \cup {"parsed"} => Parsable(manifest)
  /\ stage \in ValidStages => DeploymentValid(manifest)
  /\ stage \in ReadStages => network # NoNetwork

\* What each stage has filled in.
FilledIn ==
  /\ dataSources \in {<<>>, manifest.dataSources}
  /\ templates \in {<<>>, manifest.templates}
  /\ stage \in {"dataSources", "templates"} \cup LoadedStages => dataSources = manifest.dataSources
  /\ stage \in {"templates"} \cup LoadedStages => templates = manifest.templates
  /\ stage \in {"raw", "parsed", "validated", "network", "schema", "dataSources"} =>
       templates = <<>>
  /\ stage \in {"dataSources", "templates"} \cup LoadedStages => Readable(manifest.dataSources)
  /\ stage \in {"templates"} \cup LoadedStages => Readable(manifest.templates)

\* The manifest that is loaded is one that was given.
GivenManifest ==
  \E input \in ManifestInputs : manifest = input.raw /\ overrides = input.networkOverrides

\* An endpoint list is a list.
NetworkListed == network # NoNetwork => network.endpoint.shape = "list"

ProjectInv ==
  /\ Decided
  /\ FilledIn
  /\ GivenManifest
  /\ NetworkListed
  /\ ChainIdResolved
  /\ AcceptsTyped
  /\ ProjectRunnable
  /\ dynamic.outcome \in {"none", "unknown", "created", "refused"}
  /\ dynamic.outcome = "created" => Runnable(dynamic.ds)

------------------------------------------------------------------------------
(* Lemmas about the validators.                                            *)

\* What passes the validators and the plug-in can be run: a runtime handler on the
\* items of its kind, a custom one on those its processor asks for.
LEMMA ValidRunnable ==
  ASSUME NEW ds, DataSourceValid(ds), ds.mapping.shape # Absent, KindsKnown(ds)
  PROVE  Runnable(ds)
<1>1. CASE isRuntimeDs(ds)
  <2>1. ~isCustomDs(ds) /\ \A h \in HandlersOf(ds.mapping) : h.kind \in HandlerKinds
    BY <1>1 DEF isRuntimeDs, isCustomDs, DataSourceValid, RuntimeDsValid,
       ConcordiumMappingValid, HandlerValid
  <2>2. \A h \in HandlersOf(ds.mapping) : RunsOn(ds, h) = {h.kind}
    BY <1>1, <2>1 DEF RunsOn, isBaseHandler
  <2>. QED
    BY <1>1, <2>1, <2>2 DEF Runnable
<1>2. CASE ~isRuntimeDs(ds)
  <2>1. isCustomDs(ds)
    BY <1>2 DEF isRuntimeDs, isCustomDs, DataSourceValid, CustomDsValid, Absent
  <2>2. \A h \in HandlersOf(ds.mapping) : RunsOn(ds, h) = {HandlerProcessors[h.kind]}
    BY <2>1, ProjectAssumption DEF RunsOn, isHandlerProcessor, KindsKnown
  <2>. QED
    BY <1>2, <2>1, <2>2, ProjectAssumption DEF Runnable, KindsKnown
<1>. QED
  BY <1>1, <1>2

\* A valid template stays valid without its name and with a start height.
LEMMA TemplateInstantiates ==
  ASSUME NEW t, DOMAIN t = DsFields, TemplateValid(t), t.mapping.shape # Absent
  PROVE  /\ KindsKnown(getTemplate(t)) => Runnable(getTemplate(t))
         /\ isRuntimeDs(getTemplate(t)) =>
              MappingTransformable(getTemplate(t).mapping) /\ RuntimeDsValid(getTemplate(t))
<1> DEFINE ds == getTemplate(t)
<1>1. ds.kind = t.kind /\ ds.mapping = t.mapping /\ ds.processor = t.processor
      /\ ds.assets = t.assets /\ ds.startBlock = "number"
  BY DEF getTemplate, DsFields
<1>2. DataSourceValid(ds)
  BY <1>1 DEF TemplateValid, DataSourceValid, RuntimeDsValid, CustomDsValid, Optional
<1>3. KindsKnown(ds) => Runnable(ds)
  BY <1>1, <1>2, ValidRunnable
<1>4. ASSUME isRuntimeDs(ds) PROVE MappingTransformable(ds.mapping) /\ RuntimeDsValid(ds)
  <2>1. RuntimeDsValid(ds)
    BY <1>2, <1>4 DEF DataSourceValid, isRuntimeDs
  <2>2. \A h \in HandlersOf(ds.mapping) : h.kind \in HandlerKinds
    BY <1>1, <2>1 DEF RuntimeDsValid, ConcordiumMappingValid, HandlerValid
  <2>. QED
    BY <2>1, <2>2 DEF MappingTransformable
<1>. QED
  BY <1>3, <1>4

\* The two resolutions of the chain id agree unless both were given.
LEMMA ChainIdsAgree ==
  ASSUME NEW net, ~BothGiven(net)
  PROVE  Trim(processChainId(net)) = DeploymentChainId(net)
<1>1. CASE Truthy(net.genesisHash) /\ ~Truthy(net.chainId)
  <2>1. ~Truthy(Trim(net.chainId))
    BY <1>1 DEF Truthy, Trim, Absent
  <2>. QED
    BY <1>1, <2>1 DEF processChainId, DeploymentChainId, Trim
<1>2. CASE ~(Truthy(net.genesisHash) /\ ~Truthy(net.chainId))
  <2>1. ~Truthy(net.genesisHash)
    BY <1>2 DEF BothGiven
  <2>. QED
    BY <1>2, <2>1 DEF processChainId, DeploymentChainId, Trim
<1>. QED
  BY <1>1, <1>2

\* Nothing that the published types allow is turned down on the way.
LEMMA TypedPasses ==
  ASSUME NEW m, TypedProject(m)
  PROVE  /\ Parsable(m)
         /\ DeploymentValid(m)
         /\ ~BothGiven(m.network)
         /\ m.network.endpoint.shape # Absent
         /\ m.runner.version = "satisfied"
<1>1. /\ m.given /\ m.specVersion = "1.0.0" /\ m.runner.version = "satisfied"
      /\ RunnerValid(m.runner)
  BY DEF TypedProject, RunnerValid, Absent
<1>2. /\ m.network.chainId \in {"id", " id"} /\ m.network.genesisHash = Absent
      /\ m.network.endpoint.shape # Absent
  BY DEF TypedProject, TypedNetwork
<1>3. ~BothGiven(m.network) /\ DeploymentChainId(m.network) = "id"
  BY <1>2 DEF BothGiven, Truthy, DeploymentChainId, Trim, Absent
<1>4. ASSUME NEW ds, TypedDs(ds)
      PROVE  DataSourceValid(ds) /\ (isRuntimeDs(ds) => MappingTransformable(ds.mapping))
  <2>1. CASE ds.kind = RuntimeKind
    <3>1. \A h \in HandlersOf(ds.mapping) : HandlerValid(h)
      BY <1>4, <2>1 DEF TypedDs, TypedHandler, HandlerValid, isBaseHandler,
         ItemFilterValid, Optional
    <3>2. ConcordiumMappingValid(ds.mapping) /\ MappingTransformable(ds.mapping)
      BY <1>4, <3>1 DEF TypedDs, ConcordiumMappingValid, MappingTransformable, HandlerValid
    <3>. QED
      BY <1>4, <2>1, <3>2 DEF TypedDs, DataSourceValid, RuntimeDsValid, Optional
  <2>2. CASE ds.kind # RuntimeKind
    <3>1. \A h \in HandlersOf(ds.mapping) : CustomHandlerValid(h)
      BY <1>4, <2>2 DEF TypedDs, TypedHandler, CustomHandlerValid, Optional
    <3>2. CustomMappingValid(ds.mapping)
      BY <1>4, <3>1 DEF TypedDs, CustomMappingValid
    <3>3. CustomDsValid(ds)
      BY <1>4, <2>2, <3>2 DEF TypedDs, CustomDsValid, Optional
    <3>. QED
      BY <2>2, <3>3 DEF DataSourceValid, isRuntimeDs
  <2>. QED
    BY <2>1, <2>2
<1>5. Parsable(m)
  BY <1>1, <1>4 DEF TypedProject, Parsable
<1>6. DeploymentValid(m)
  BY <1>1, <1>3, <1>4 DEF TypedProject, DeploymentValid, TemplateValid, Absent
<1>. QED
  BY <1>1, <1>2, <1>3, <1>5, <1>6

------------------------------------------------------------------------------

LEMMA ProjectInitEstablishes == ProjectInit => ProjectInv
<1> SUFFICES ASSUME ProjectInit PROVE ProjectInv
  OBVIOUS
<1>1. stage = "raw" /\ network = NoNetwork /\ dataSources = <<>> /\ templates = <<>>
      /\ dynamic.outcome = "none"
  BY DEF ProjectInit, NoDynamic
<1>2. GivenManifest
  BY DEF ProjectInit, GivenManifest
<1>3. Decided /\ FilledIn /\ NetworkListed /\ ChainIdResolved /\ AcceptsTyped /\ ProjectRunnable
  BY <1>1 DEF Decided, FilledIn, NetworkListed, ChainIdResolved, AcceptsTyped,
     ValidStages, ReadStages, LoadedStages, ProjectRunnable
<1>. QED
  BY <1>1, <1>2, <1>3 DEF ProjectInv

\* Failing changes nothing but the stage.
LEMMA FailPreserves ==
  ASSUME ProjectInv, stage' = "failed", TypedProject(manifest) =>
                       network # NoNetwork /\ templates = <<>>,
         UNCHANGED <<manifest, overrides, network, dataSources, templates, dynamic>>
  PROVE  ProjectInv'
<1>1. Decided'
  BY DEF Decided, ValidStages, ReadStages, LoadedStages
<1>2. FilledIn'
  BY DEF ProjectInv, FilledIn, LoadedStages
<1>3. AcceptsTyped'
  BY DEF AcceptsTyped
<1>4. GivenManifest' /\ NetworkListed' /\ ChainIdResolved' /\ ProjectRunnable'
  BY DEF ProjectInv, GivenManifest, NetworkListed, ChainIdResolved, ProjectRunnable
<1>5. (dynamic.outcome \in {"none", "unknown", "created", "refused"})'
      /\ (dynamic.outcome = "created" => Runnable(dynamic.ds))'
  BY DEF ProjectInv
<1>. QED
  BY <1>1, <1>2, <1>3, <1>4, <1>5 DEF ProjectInv

\* A manifest that agrees with the types passes each check, so that the load
\* fails only while files are read.
LEMMA ParsePreserves ==
  ASSUME ProjectInv, Parse
  PROVE  ProjectInv'
<1>1. stage = "raw"
      /\ UNCHANGED <<manifest, overrides, network, dataSources, templates, dynamic>>
  BY DEF Parse
<1>2. CASE ~Parsable(manifest) /\ stage' = "failed"
  BY <1>1, <1>2, TypedPasses, FailPreserves
<1>3. CASE Parsable(manifest) /\ stage' = "parsed"
  BY <1>1, <1>3 DEF ProjectInv, Decided, FilledIn, ValidStages, ReadStages, LoadedStages,
     AcceptsTyped,
     GivenManifest, NetworkListed, ChainIdResolved, ProjectRunnable
<1>. QED
  BY <1>2, <1>3 DEF Parse

LEMMA ValidatePreserves ==
  ASSUME ProjectInv, Validate
  PROVE  ProjectInv'
<1>1. stage = "parsed"
      /\ UNCHANGED <<manifest, overrides, network, dataSources, templates, dynamic>>
  BY DEF Validate
<1>2. CASE ~DeploymentValid(manifest) /\ stage' = "failed"
  BY <1>1, <1>2, TypedPasses, FailPreserves
<1>3. CASE DeploymentValid(manifest) /\ stage' = "validated"
  BY <1>1, <1>3 DEF ProjectInv, Decided, FilledIn, ValidStages, ReadStages, LoadedStages,
     AcceptsTyped,
     GivenManifest, NetworkListed, ChainIdResolved, ProjectRunnable
<1>. QED
  BY <1>2, <1>3 DEF Validate

\* The endpoints of the manifest or of the command line have become a list.
LEMMA EndpointsListed ==
  ASSUME GivenManifest, EndpointList(manifest).shape # Absent
  PROVE  EndpointList(manifest).shape = "list"
<1>1. PICK input \in ManifestInputs : manifest = input.raw /\ overrides = input.networkOverrides
  BY DEF GivenManifest
<1>2. /\ overrides.shape \in {Absent, "list"}
      /\ manifest.network.endpoint.shape \in {Absent, "string", "list"}
      /\ DOMAIN manifest.network.endpoint = {"shape", "urls"}
  BY <1>1, ProjectAssumption DEF Absent
<1>3. [manifest.network.endpoint EXCEPT !.shape = "list"].shape = "list"
  BY <1>2
<1>. QED
  BY <1>2, <1>3 DEF EndpointList, Absent

LEMMA ResolveNetworkPreserves ==
  ASSUME ProjectInv, ResolveNetwork
  PROVE  ProjectInv'
<1>1. /\ stage = "validated" /\ stage' = "network"
      /\ ~BothGiven(manifest.network) /\ EndpointList(manifest).shape # Absent
      /\ network' = [chainId |-> processChainId(manifest.network),
                     endpoint |-> EndpointList(manifest)]
      /\ UNCHANGED <<manifest, overrides, dataSources, templates, dynamic>>
  BY DEF ResolveNetwork
<1>2. network' # NoNetwork
  <2>1. "endpoint" \in DOMAIN network' /\ "endpoint" \notin DOMAIN NoNetwork
    BY <1>1 DEF NoNetwork
  <2>. QED
    BY <2>1
<1>3. NetworkListed'
  BY <1>1, EndpointsListed DEF ProjectInv, NetworkListed
<1>4. ChainIdResolved'
  BY <1>1, ChainIdsAgree DEF ChainIdResolved
<1>5. Decided' /\ FilledIn' /\ AcceptsTyped' /\ GivenManifest' /\ ProjectRunnable'
  BY <1>1, <1>2 DEF ProjectInv, Decided, FilledIn, ValidStages, ReadStages, LoadedStages,
     AcceptsTyped, GivenManifest, ProjectRunnable
<1>. QED
  BY <1>1, <1>3, <1>4, <1>5 DEF ProjectInv

LEMMA RejectNetworkPreserves ==
  ASSUME ProjectInv, RejectNetwork
  PROVE  ProjectInv'
<1>1. stage' = "failed"
      /\ UNCHANGED <<manifest, overrides, network, dataSources, templates, dynamic>>
  BY DEF RejectNetwork, LoadFails
<1>2. ~TypedProject(manifest)
  <2>1. BothGiven(manifest.network) \/ manifest.network.endpoint.shape = Absent
    <3>1. CASE BothGiven(manifest.network)
      BY <3>1
    <3>2. CASE EndpointList(manifest).shape = Absent
      <4>1. PICK input \in ManifestInputs : manifest = input.raw
        BY DEF ProjectInv, GivenManifest
      <4>2. DOMAIN manifest.network.endpoint = {"shape", "urls"}
        BY <4>1, ProjectAssumption
      <4>3. [manifest.network.endpoint EXCEPT !.shape = "list"].shape # Absent
        BY <4>2 DEF Absent
      <4>. QED
        BY <3>2, <4>3 DEF EndpointList
    <3>. QED
      BY <3>1, <3>2 DEF RejectNetwork
  <2>. QED
    BY <2>1, TypedPasses
<1>. QED
  BY <1>1, <1>2, FailPreserves

LEMMA ReadingPreserves ==
  ASSUME ProjectInv, ReadSchema \/ UpdateDataSources \/ LoadTemplates \/ ReadingFails
  PROVE  ProjectInv'
<1>1. CASE ReadSchema
  BY <1>1 DEF ReadSchema, ProjectInv, Decided, FilledIn, ValidStages, ReadStages, LoadedStages,
     AcceptsTyped, GivenManifest, NetworkListed, ChainIdResolved, ProjectRunnable
<1>2. CASE UpdateDataSources
  BY <1>2 DEF UpdateDataSources, ProjectInv, Decided, FilledIn, ValidStages, ReadStages,
     LoadedStages,
     AcceptsTyped, GivenManifest, NetworkListed, ChainIdResolved, ProjectRunnable
<1>3. CASE LoadTemplates
  <2>1. stage = "dataSources" /\ stage' = "templates" /\ Readable(manifest.templates)
        /\ templates' = manifest.templates
        /\ UNCHANGED <<manifest, overrides, network, dataSources, dynamic>>
    BY <1>3 DEF LoadTemplates
  <2>2. dataSources = manifest.dataSources
    BY <2>1 DEF ProjectInv, FilledIn
  <2>. QED
    BY <2>1, <2>2 DEF ProjectInv, Decided, FilledIn, ValidStages, ReadStages, LoadedStages,
       AcceptsTyped, GivenManifest, NetworkListed, ChainIdResolved, ProjectRunnable
<1>4. CASE ReadingFails
  <2>1. network # NoNetwork /\ templates = <<>>
    BY <1>4 DEF ReadingFails, ProjectInv, Decided, FilledIn, ReadStages, LoadedStages
  <2>. QED
    BY <1>4, <2>1, FailPreserves DEF ReadingFails, LoadFails
<1>. QED
  BY <1>1, <1>2, <1>3, <1>4

LEMMA CheckRunnerPreserves ==
  ASSUME ProjectInv, CheckRunner
  PROVE  ProjectInv'
<1>1. stage = "templates"
      /\ UNCHANGED <<manifest, overrides, network, dataSources, templates, dynamic>>
  BY DEF CheckRunner
<1>2. CASE manifest.runner.version # "satisfied" /\ stage' = "failed"
  BY <1>1, <1>2, TypedPasses, FailPreserves
<1>3. CASE stage' = "loaded"
  BY <1>1, <1>3 DEF ProjectInv, Decided, FilledIn, ValidStages, ReadStages, LoadedStages,
     AcceptsTyped,
     GivenManifest, NetworkListed, ChainIdResolved, ProjectRunnable
<1>. QED
  BY <1>2, <1>3 DEF CheckRunner

\* What was valid as a template is valid as a data source.
LEMMA DynamicPreserves ==
  ASSUME ProjectInv, UnknownTemplate \/ CreateDynamicDs
  PROVE  ProjectInv'
<1>1. UNCHANGED <<manifest, overrides, stage, network, dataSources, templates>>
      /\ stage = "running"
  BY DEF UnknownTemplate, CreateDynamicDs
<1>2. /\ dynamic'.outcome \in {"none", "unknown", "created", "refused"}
      /\ dynamic'.outcome = "created" => Runnable(dynamic'.ds)
  <2>1. CASE UnknownTemplate
    BY <2>1 DEF UnknownTemplate
  <2>2. CASE CreateDynamicDs
    <3>1. PICK t \in ListItems(templates), o \in {"created", "refused", "invalid"} :
            /\ getDatasource(getTemplate(t), o)
            /\ dynamic' = [outcome |-> o, ds |-> getTemplate(t)]
      BY <2>2 DEF CreateDynamicDs
    <3>2. t \in ListItems(manifest.templates) /\ t.mapping.shape # Absent /\ TemplateValid(t)
      BY <1>1, <3>1 DEF ProjectInv, Decided, FilledIn, Readable, DeploymentValid,
         ValidStages, ReadStages, LoadedStages
    <3>3. DOMAIN t = DsFields
      <4>1. PICK input \in ManifestInputs : manifest = input.raw
        BY DEF ProjectInv, GivenManifest
      <4>. QED
        BY <3>2, <4>1, ProjectAssumption DEF ListItems
    <3>4. o # "invalid" /\ (o = "created" => Runnable(getTemplate(t)))
      BY <3>1, <3>2, <3>3, TemplateInstantiates DEF getDatasource, KindsKnown
    <3>. QED
      BY <3>1, <3>4
  <2>. QED
    BY <2>1, <2>2
<1>3. Decided' /\ FilledIn' /\ GivenManifest' /\ NetworkListed' /\ ChainIdResolved'
      /\ AcceptsTyped' /\ ProjectRunnable'
  BY <1>1 DEF ProjectInv, Decided, FilledIn, AcceptsTyped, GivenManifest, NetworkListed,
     ChainIdResolved, ProjectRunnable
<1>. QED
  BY <1>2, <1>3 DEF ProjectInv

\* The data sources are those of the manifest, which passed the validators, and the
\* plug-ins have looked at each.
LEMMA ValidateCustomPreserves ==
  ASSUME ProjectInv, ValidateCustomDatasources
  PROVE  ProjectInv'
<1>1. /\ stage = "loaded" /\ stage' \in {"running", "refused"}
      /\ UNCHANGED <<manifest, overrides, network, dataSources, templates, dynamic>>
  BY DEF ValidateCustomDatasources
<1>2. ProjectRunnable'
  <2>. SUFFICES ASSUME stage' = "running", NEW ds \in ListItems(dataSources)
                PROVE  Runnable(ds)
    BY <1>1 DEF ProjectRunnable
  <2>1. KindsKnown(ds)
    BY DEF ValidateCustomDatasources
  <2>2. ds \in ListItems(manifest.dataSources)
    BY <1>1 DEF ProjectInv, FilledIn, LoadedStages
  <2>3. DataSourceValid(ds) /\ ds.mapping.shape # Absent
    BY <1>1, <2>2 DEF ProjectInv, Decided, FilledIn, Readable, DeploymentValid,
       ValidStages, ReadStages, LoadedStages
  <2>. QED
    BY <2>1, <2>3, ValidRunnable
<1>3. Decided' /\ FilledIn'
  BY <1>1 DEF ProjectInv, Decided, FilledIn, ValidStages, ReadStages, LoadedStages
<1>. QED
  BY <1>1, <1>2, <1>3 DEF ProjectInv, GivenManifest, NetworkListed, ChainIdResolved, ProjectRunnable,
     AcceptsTyped

LEMMA ProjectInvariant == ProjectSpec => []ProjectInv
<1>1. ProjectInit => ProjectInv
  BY ProjectInitEstablishes
<1>2. ProjectInv /\ [ProjectNext]_projectVars => ProjectInv'
  <2> SUFFICES ASSUME ProjectInv, [ProjectNext]_projectVars PROVE ProjectInv'
    OBVIOUS
  <2>1. CASE Load
    BY <2>1, ParsePreserves, ValidatePreserves, ResolveNetworkPreserves,
       RejectNetworkPreserves, ReadingPreserves, CheckRunnerPreserves DEF Load
  <2>2. CASE UnknownTemplate \/ CreateDynamicDs
    BY <2>2, DynamicPreserves
  <2>4. CASE ValidateCustomDatasources
    BY <2>4, ValidateCustomPreserves
  <2>3. CASE UNCHANGED projectVars
    BY <2>3 DEF projectVars, ProjectInv, Decided, FilledIn, AcceptsTyped, GivenManifest,
       NetworkListed, ChainIdResolved, ProjectRunnable
  <2>. QED
    BY <2>1, <2>2, <2>3, <2>4 DEF ProjectNext
<1>. QED
  BY <1>1, <1>2, PTL DEF ProjectSpec

------------------------------------------------------------------------------

\* create() hands ConcordiumApiService.init a list of endpoints, and each part
\* of the project is the manifest's or not there yet.
THEOREM ProjectTypeCorrect == ProjectSpec => []ProjectTypeOK
<1>1. ProjectInv => ProjectTypeOK
  <2> SUFFICES ASSUME ProjectInv PROVE ProjectTypeOK
    OBVIOUS
  <2>1. overrides.shape \in {Absent, "list"}
    BY ProjectAssumption DEF ProjectInv, GivenManifest, Absent
  <2>. QED
    BY <2>1 DEF ProjectInv, Decided, FilledIn, NetworkListed, ValidStages, ReadStages,
     LoadedStages,
       ProjectTypeOK
<1>. QED
  BY <1>1, ProjectInvariant, PTL

\* processChainId and the deployment's @Transform come to the same chain id.
THEOREM ProjectChainIdResolved == ProjectSpec => []ChainIdResolved
<1>1. ProjectInv => ChainIdResolved
  BY DEF ProjectInv
<1>. QED
  BY <1>1, ProjectInvariant, PTL

\* A project that goes on to indexing has no data source and no handler that
\* IndexerManager would pass over or fail on.
THEOREM LoadedProjectRunnable == ProjectSpec => []ProjectRunnable
<1>1. ProjectInv => ProjectRunnable
  BY DEF ProjectInv
<1>. QED
  BY <1>1, ProjectInvariant, PTL

\* DynamicDsService.getDatasource never finds a template of a loaded project
\* invalid.
THEOREM LoadedTemplatesInstantiable == ProjectSpec => []TemplatesInstantiable
<1>1. ProjectInv => TemplatesInstantiable
  BY DEF ProjectInv, TemplatesInstantiable
<1>. QED
  BY <1>1, ProjectInvariant, PTL

\* Whatever manifest the published types allow, the validators allow.
THEOREM ProjectAcceptsTyped == ProjectSpec => []AcceptsTyped
<1>1. ProjectInv => AcceptsTyped
  BY DEF ProjectInv
<1>. QED
  BY <1>1, ProjectInvariant, PTL

==============================================================================
