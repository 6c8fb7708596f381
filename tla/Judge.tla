-------------------------------- MODULE Judge --------------------------------
(***************************************************************************)
(* What the policy evaluator promises its caller: a question is answered   *)
(* once, from the set of policies the matcher holds at one instant between *)
(* the question and the answer, although other goroutines keep upserting   *)
(* and removing policies.  Which of several violated policies is named is  *)
(* left open.                                                              *)
(***************************************************************************)
EXTENDS Policy

VARIABLES
  policies,   \* the matcher's map: name -> spec, or Absent
  phase,      \* "idle", "asked" or "answered"
  event,      \* the connection in question
  verdict     \* the answer, meaningful once answered

vars == <<policies, phase, event, verdict>>

NoPolicy == "none"
Multiple == "multiple"

Events == [ns : Namespaces \cup {NoNamespace}, country : Countries \cup {NoCountry}]

Permit(who)     == [violated |-> FALSE, policy |-> who, actions |-> <<"allow">>]
Deny(who, spec) == [violated |-> TRUE, policy |-> who, actions |-> spec.actions]

Matching(pols, ev) == {n \in Names : pols[n] # Absent /\ Covers(pols[n], ev.ns)}

\* Every verdict that the policies of one instant justify.
Verdicts(pols, ev) ==
  LET violated == {n \in Names :
                     pols[n] # Absent /\ Violates(pols[n], ev.ns, ev.country)}
      exempt   == ev.country = NoCountry \/ ev.ns = NoNamespace
  IN  IF violated # {} THEN {Deny(n, pols[n]) : n \in violated}
      ELSE IF exempt \/ Matching(pols, ev) = {} THEN {Permit(NoPolicy)}
      ELSE {Permit(Multiple)}

Init ==
  /\ policies = [n \in Names |-> Absent]
  /\ phase = "idle"
  /\ event \in Events
  /\ verdict = Permit(NoPolicy)

\* The informer's goroutine replaces or drops one policy at any moment.
SetPolicy(n, spec) ==
  /\ policies' = [policies EXCEPT ![n] = spec]
  /\ UNCHANGED <<phase, event, verdict>>

Ask(ev) ==
  /\ phase = "idle"
  /\ phase' = "asked"
  /\ event' = ev
  /\ UNCHANGED <<policies, verdict>>

Answer ==
  /\ phase = "asked"
  /\ phase' = "answered"
  /\ verdict' \in Verdicts(policies, event)
  /\ UNCHANGED <<policies, event>>

Finish ==
  /\ phase = "answered"
  /\ phase' = "idle"
  /\ verdict' = Permit(NoPolicy)
  /\ UNCHANGED <<policies, event>>

Next ==
  \/ \E n \in Names, spec \in Specs \cup {Absent} : SetPolicy(n, spec)
  \/ \E ev \in Events : Ask(ev)
  \/ Answer
  \/ Finish

Spec == Init /\ [][Next]_vars
=============================================================================
