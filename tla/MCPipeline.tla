------------------------------ MODULE MCPipeline -----------------------------
(***************************************************************************)
(* A bounded instance of Pipeline: a data source of the project and two    *)
(* that handlers may create, each with heights of its own.                 *)
(***************************************************************************)
EXTENDS Pipeline

MCWants == [a |-> {1, 3}, b |-> {2, 4}, c |-> {3}]

==============================================================================
