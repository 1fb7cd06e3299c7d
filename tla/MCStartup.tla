------------------------------ MODULE MCStartup ------------------------------
(***************************************************************************)
(* A host with two ports, listen values for each, and one with port 0.     *)
(***************************************************************************)
EXTENDS Startup

MCPorts == {"p", "q"}

Meaning(a) ==
    CASE a = "a" -> {"p"}
      [] a = "b" -> {"q"}
      [] a = "zero" -> MCPorts

MCMeans == [a \in Addresses |-> Meaning(a)]
=============================================================================
