------------------------------ MODULE MCStartUp ------------------------------
(***************************************************************************)
(* Bounded inputs for StartUp: endpoints of the project's chain, of        *)
(* another chain and malformed ones, in the project and as the primary     *)
(* endpoint.                                                               *)
(***************************************************************************)
EXTENDS StartUp

MCServes == [good |-> "chain", foreign |-> "other chain", broken |-> "malformed"]

Options(command, port, workers, profiler, endpoint, primary) ==
  [command : command, port : port, workers : workers, profiler : profiler,
   endpoint : endpoint, primary : primary]

MCInputs ==
  Options({"node"}, {"given"}, {TRUE}, {FALSE}, {<<"good">>}, {<<"foreign">>})
  \cup Options({"node"}, {"given"}, {FALSE}, {TRUE}, {<<"good">>}, {<<"broken">>})
  \cup Options({"node"}, {"none", "0"}, {FALSE}, {FALSE}, {<<"foreign">>, <<>>},
               {<<>>, <<"good">>})
  \cup Options({"test", "reindex", "forceClean"}, {"none"}, {FALSE}, {FALSE},
               {<<"good", "foreign">>}, {<<"broken">>, <<>>})

==============================================================================
