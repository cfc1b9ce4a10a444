------------------------------ MODULE MCProject ------------------------------
(***************************************************************************)
(* Bounded inputs for Project: one data source or template in every shape  *)
(* beside a sound network, and every network beside a sound data source.   *)
(***************************************************************************)
EXTENDS Project

Filters == [shape : {Absent, "string", "list"}, type : {Absent}, values : {Absent}]
           \cup [shape : {"object"}, type : {Absent, "string", "number"},
                 values : {Absent, "object", "string"}]

Handlers == [kind : {"block", "transaction", "specialEvent", "custom"},
             handler : {"string"}, filter : Filters]
            \cup [kind : HandlerKinds \cup {Absent}, handler : {Absent, "string"},
                  filter : [shape : {Absent}, type : {Absent}, values : {Absent}]]

Mappings == [shape : {"object"}, file : {"string"}, handlers : {<<h>> : h \in Handlers}]
            \cup [shape : {Absent, "noHandlers", "object"}, file : {Absent, "string"},
                  handlers : {<<>>}]

DataSources == [kind : {RuntimeKind, "custom", Absent}, name : {Absent, "string"},
                mapping : Mappings, startBlock : {Absent, "string"},
                assets : {Absent, "file", "noFile"}, processor : {Absent, "object"}]

SoundHandler == [kind |-> "transactionEvent", handler |-> "string",
                 filter |-> [shape |-> Absent, type |-> Absent, values |-> Absent]]

SoundDs == [kind |-> RuntimeKind, name |-> "string", startBlock |-> "number",
            mapping |-> [shape |-> "object", file |-> "string", handlers |-> <<SoundHandler>>],
            assets |-> Absent, processor |-> Absent]

SoundRunner == [name |-> "@subql/node-concordium", version |-> "satisfied", query |-> "object"]

Endpoints(shapes) == [shape : shapes, urls : {<<"url">>}]

Networks == [chainId : {Absent, "", " ", "id", " id", "number"},
             genesisHash : {Absent, "", " ", "id", "other", "number"},
             endpoint : Endpoints({Absent, "string", "list"})]

SoundNetwork == [chainId |-> "id", genesisHash |-> Absent,
                 endpoint |-> [shape |-> "string", urls |-> <<"url">>]]

Manifest(m, n, d, t) ==
  [given |-> m.given, specVersion |-> m.specVersion, schema |-> m.schema, runner |-> m.runner,
   network |-> n, dataSources |-> d, templates |-> t]

Heads == [given : BOOLEAN, specVersion : {"0.2.0", "1.0.0"}, schema : {Absent, "file"},
          runner : [name : {Absent, "@subql/node-concordium", "@subql/node-flare", "other"},
                    version : {Absent, "satisfied", "tooNew"}, query : {Absent, "object"}]]

SoundHead == [given |-> TRUE, specVersion |-> "1.0.0", schema |-> "file",
              runner |-> SoundRunner]

\* The plug-in knows one kind of handler and runs it on transactions.
OneProcessor == [kind \in {"custom"} |-> "transaction"]

MCManifestInputs ==
  [raw : {Manifest(SoundHead, SoundNetwork, <<ds>>, <<>>) : ds \in DataSources}
         \cup {Manifest(SoundHead, SoundNetwork, <<SoundDs>>, <<ds>>) : ds \in DataSources}
         \cup {Manifest(head, SoundNetwork, <<SoundDs>>, <<SoundDs>>) : head \in Heads},
   networkOverrides : Endpoints({Absent})]
  \cup
  [raw : {Manifest(SoundHead, net, <<SoundDs>>, <<>>) : net \in Networks},
   networkOverrides : Endpoints({Absent, "list"})]

==============================================================================
