------------------------------ MODULE MCAgent ------------------------------
(* One policy that users turn between blocking and logging, two addresses in *)
(* the country it forbids, two agents.                                       *)
EXTENDS Agent, TLC

CONSTANTS shop, ru, us

Base == [actions |-> <<"block-kill">>, namespaces |-> {shop},
         allowed |-> {}, disallowed |-> {ru}]

MCSpecs ==
  { Base, [Base EXCEPT !.actions = <<"log">>, !.namespaces = {Wildcard}] }

MCCountryOf == [ip \in IPs |-> ru]

MCSymmetry == Permutations(Agents) \cup Permutations(IPs)
=============================================================================
