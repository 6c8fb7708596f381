----------------------------- MODULE ControlLoop -----------------------------
(***************************************************************************)
(* The closed loop: connections judged by the node agents (Agent) become   *)
(* addresses in the policies' status, the controller (PolicyController)    *)
(* turns those into TracingPolicies, and Tetragon loads them into the      *)
(* kernel of each node, where they decide the next connections.  The two   *)
(* components share the policies in the API server and nothing else: the   *)
(* agents' part is EXTENDSed, and what their own Next assumed of the       *)
(* controller (MarkReady) is here what the controller does.                *)
(***************************************************************************)
EXTENDS Agent

CONSTANTS
  FaultKinds,
  Family,      \* per address: 4 or 6
  First32      \* per address: its first 32 bits, which is all there is of IPv4

ASSUME FamilyAssumption  == Family \in [IPs -> {4, 6}]
ASSUME First32Assumption ==
  \A ip, other \in IPs :
    Family[ip] = 4 /\ Family[other] = 4 /\ First32[ip] = First32[other] => ip = other

VARIABLES
  rule, cached, queue, task,   \* the controller
  loaded     \* per node and policy: the hook Tetragon has in the kernel, or Absent

C == INSTANCE PolicyController

ctrlVars == <<rule, cached, queue, task>>
loopVars == <<log, agentVars, ctrlVars, loaded>>

LoopInit ==
  /\ Init
  /\ C!Init
  /\ loaded = [a \in Agents |-> [p \in Names |-> Absent]]

\* Tetragon on the node follows the TracingPolicies of the cluster.
LoadRule(a, p) ==
  /\ loaded[a][p] # rule[p]
  /\ loaded' = [loaded EXCEPT ![a][p] = rule[p]]
  /\ UNCHANGED <<log, agentVars, ctrlVars>>

LoopNext ==
  \/ \E a \in Agents : AgentStep(a) /\ UNCHANGED <<ctrlVars, loaded>>
  \/ C!ControllerStep /\ UNCHANGED <<agentVars, loaded>>
  \/ \E p \in Names : C!CollectGarbage(p) /\ UNCHANGED <<agentVars, loaded>>
  \/ \E a \in Agents, p \in Names : LoadRule(a, p)
  \/ UserStep /\ UNCHANGED <<agentVars, ctrlVars, loaded>>

LoopSpec == LoopInit /\ [][LoopNext]_loopVars

LoopFairSpec ==
  /\ LoopSpec
  /\ Fairness
  /\ C!Fairness
  /\ \A a \in Agents, p \in Names : WF_loopVars(LoadRule(a, p))
-----------------------------------------------------------------------------
\* The network that buildTracingPolicy makes of an address, IPv6 or not, by
\* appending "/32".
Slash32(listed) ==
  {ip \in IPs : Family[ip] = Family[listed] /\ First32[ip] = First32[listed]}

\* A connection from ns to ip on node a ends in the kernel.  The hook compares
\* the destination with its networks, and has no selector for the namespace.
Blocked(a, ns, ip) ==
  \E p \in Names :
    loaded[a][p] # Absent /\ \E listed \in loaded[a][p].ips : ip \in Slash32(listed)

\* Neither component sees the other do anything that its own specification does
\* not expect of its environment, so what is shown of each alone holds here.
AgentsAsAlone     == Spec
ControllerAsAlone == C!Spec

\* What a kernel refuses can be traced to one version of a policy that blocks and
\* lists a violator: the destination, or an IPv6 address with the same first 32
\* bits.  No stale copy, retry or restart makes a hook for anyone else.
BlockedWithCause ==
  \A a \in Agents, ns \in Namespaces, ip \in IPs :
    Blocked(a, ns, ip) =>
      \E p \in Names : \E i \in 1..Latest(p) :
        /\ log[p][i] # Absent
        /\ Blocks(log[p][i].spec)
        /\ \E violator \in log[p][i].ips :
             /\ CondemnedBy(p, i, violator)
             /\ ip = violator \/ (Family[ip] = 6 /\ ip \in Slash32(violator))

MustBlock(p, ns, ip) ==
  Exists(p) /\ Blocks(Current(p).spec) /\ Violates(Current(p).spec, ns, CountryOf[ip])

\* Nobody has withdrawn the policy or cleared its list: what an agent has once
\* reported is still there.
Undisturbed(p) ==
  /\ \A i \in 1..Latest(p) : log[p][i] # Absent
  /\ \A i, j \in 1..Latest(p) : i < j => log[p][i].ips \subseteq log[p][j].ips

\* Once users leave the policies alone, a connection that violates a blocking
\* policy is refused by the kernel of every node.
EventuallyBlocked ==
  \A p \in Names, a \in Agents, ns \in Namespaces, ip \in IPs :
    <>[](MustBlock(p, ns, ip) /\ Undisturbed(p) => Blocked(a, ns, ip))

\* Once users leave the policies alone, no hook of a withdrawn policy, or of one
\* that no longer blocks, stays in any kernel.
EventuallyReleased ==
  \A p \in Names, a \in Agents :
    <>[](~(Exists(p) /\ Blocks(Current(p).spec)) => loaded[a][p] = Absent)

\* docs/index.md: spec.namespaces is the "List of target namespaces to enforce":
\* a blocked connection comes from a namespace some version of a policy names.
BlocksTargetedNamespaces ==
  \A a \in Agents, ns \in Namespaces, ip \in IPs :
    Blocked(a, ns, ip) =>
      \E p \in Names : \E i \in 1..Latest(p) : log[p][i] # Absent /\ Covers(log[p][i].spec, ns)
=============================================================================
