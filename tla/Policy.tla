------------------------------- MODULE Policy -------------------------------
(***************************************************************************)
(* The data of a SovereigntyPolicy and the questions the agent and the     *)
(* controller ask of it: api/v1alpha1/sovereigntypolicy_types.go, the two  *)
(* deny rules of internal/policy/evaluator.go, the namespace test of       *)
(* internal/policy/policy.go, and the choice of kernel action of           *)
(* internal/controller/sovereigntypolicy_controller.go.                    *)
(***************************************************************************)
EXTENDS Naturals, Sequences, FiniteSets

CONSTANTS
  Names,          \* names of SovereigntyPolicy objects (cluster-scoped)
  Namespaces,     \* Kubernetes namespaces workloads run in
  Countries,      \* ISO country codes the GeoIP database answers with
  NoNamespace,    \* the empty namespace of a host process
  NoCountry,      \* the empty country of a private or unresolved address
  Wildcard,       \* "*" in a policy's namespace list
  Specs,          \* the policy specs that users write
  Absent          \* no object, no entry

Actions == {"allow", "log", "block-kill", "block-noconn"}

PolicySpec ==
  [ actions    : Seq(Actions),
    namespaces : SUBSET (Namespaces \cup {Wildcard}),
    allowed    : SUBSET Countries,
    disallowed : SUBSET Countries ]

ASSUME NamesFinite        == IsFiniteSet(Names)
ASSUME SpecsAssumption    == Specs \subseteq PolicySpec
ASSUME AbsentAssumption   == Absent \notin Specs
ASSUME SentinelAssumption == NoCountry \notin Countries /\ NoNamespace \notin Namespaces

HasAction(spec, action) == \E i \in DOMAIN spec.actions : spec.actions[i] = action

\* The policy asks for a kernel block, and therefore for its violators.
Blocks(spec) == HasAction(spec, "block-kill") \/ HasAction(spec, "block-noconn")

Covers(spec, ns) == Wildcard \in spec.namespaces \/ ns \in spec.namespaces

\* Explicit deny, or implicit deny by an allow list that omits the country.
Forbids(spec, country) ==
  \/ country \in spec.disallowed
  \/ spec.allowed # {} /\ country \notin spec.allowed

\* A connection from ns to country violates the policy.
Violates(spec, ns, country) ==
  /\ ns # NoNamespace
  /\ country # NoCountry
  /\ Covers(spec, ns)
  /\ Forbids(spec, country)

\* Of the granular actions, kill outranks refuse in the kernel hook.
KernelAction(spec) ==
  IF HasAction(spec, "block-kill") THEN "Sigkill" ELSE "Override"
=============================================================================
