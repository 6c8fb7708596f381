--------------------------- MODULE MCAgentProcess ---------------------------
(* A policy that kills and one that logs, a foreign address that they forbid,  *)
(* the internal address next to it, and a destination that is no address.      *)
EXTENDS AgentProcess

CONSTANTS shop, lab, ru, us, foreign, internal, garbled

\* 172.32.0.1 and 172.31.0.1.
MCAddressOf ==
  [d \in Dests |-> CASE d = foreign  -> [v |-> 4, head |-> 172 * 256 + 32, rest |-> 1]
                     [] d = internal -> [v |-> 4, head |-> 172 * 256 + 31, rest |-> 1]
                     [] d = garbled  -> Absent]

MCIsoOf == [d \in Dests |-> IF d = foreign THEN ru ELSE NoIso]

MCTrueCountry == [d \in Dests |-> IF d = internal THEN NoCountry ELSE ru]

MCSpecs ==
  { [actions |-> <<"log", "block-kill", "block-noconn">>, namespaces |-> {shop},
     allowed |-> {}, disallowed |-> {ru}],
    [actions |-> <<"log">>, namespaces |-> {Wildcard}, allowed |-> {us}, disallowed |-> {}] }

MCPolicyOf == CHOOSE f \in [Names -> MCSpecs] : \A m, n \in Names : m # n => f[m] # f[n]

MCConnections == {[ns |-> shop, dest |-> d] : d \in Dests} \cup {[ns |-> lab, dest |-> foreign]}
=============================================================================
