------------------------- MODULE MCPolicyController -------------------------
(* Policies that users turn between killing, refusing and logging, and two   *)
(* addresses in the country they forbid.                                     *)
EXTENDS PolicyController

CONSTANTS shop, ru

Base == [actions |-> <<"block-kill">>, namespaces |-> {shop},
         allowed |-> {}, disallowed |-> {ru}]

MCSpecs ==
  { Base, [Base EXCEPT !.actions = <<"log", "block-noconn">>],
    [Base EXCEPT !.actions = <<"log">>] }

MCCountryOf == [ip \in IPs |-> ru]
=============================================================================
