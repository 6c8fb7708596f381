----------------------------- MODULE MCEvaluator -----------------------------
(* Two policies over one namespace and two countries: an outright denial, an *)
(* allow list for every namespace, a policy that only logs, an empty one.    *)
EXTENDS Evaluator

CONSTANTS shop, ru, us

MCSpecs ==
  { [actions |-> <<"block-kill">>, namespaces |-> {shop},
     allowed |-> {}, disallowed |-> {ru}],
    [actions |-> <<"log">>, namespaces |-> {Wildcard},
     allowed |-> {us}, disallowed |-> {}],
    [actions |-> <<"log", "block-noconn">>, namespaces |-> {shop},
     allowed |-> {ru}, disallowed |-> {ru}],
    [actions |-> << >>, namespaces |-> {},
     allowed |-> {us}, disallowed |-> {ru}] }
=============================================================================
