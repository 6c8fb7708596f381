------------------------------ MODULE Evaluator ------------------------------
(***************************************************************************)
(* internal/policy: Evaluator.Evaluate over Matcher, called by the agent's *)
(* main loop while the informer's goroutine upserts and removes policies.  *)
(* Match builds its slice under the read lock, so it is one step, in the   *)
(* arbitrary order of Go's map iteration; the chain then walks the slice   *)
(* without the lock, one policy per step, over the objects the slice holds.*)
(***************************************************************************)
EXTENDS Policy, Functions

VARIABLES
  policies,   \* Matcher.policies
  pc,         \* "idle", "called", "chain" or "returned"
  event,      \* the SovereignEvent being evaluated
  matches,    \* the slice Match returned: names with the specs they had
  pos,        \* the chain's position in it
  verdict     \* the Verdict returned

vars == <<policies, pc, event, matches, pos, verdict>>

NoPolicy == "none"
Multiple == "multiple"

Events == [ns : Namespaces \cup {NoNamespace}, country : Countries \cup {NoCountry}]

Permit(who)     == [violated |-> FALSE, policy |-> who, actions |-> <<"allow">>]
Deny(who, spec) == [violated |-> TRUE, policy |-> who, actions |-> spec.actions]

Matching(pols, ev) == {n \in Names : pols[n] # Absent /\ Covers(pols[n], ev.ns)}

\* The slices that Match may return: the matching policies in any order.
Slices(pols, ev) ==
  LET M == Matching(pols, ev)
  IN  {[i \in 1..Cardinality(M) |-> [name |-> order[i], spec |-> pols[order[i]]]] :
         order \in Surjection(1..Cardinality(M), M)}

Init ==
  /\ policies = [n \in Names |-> Absent]
  /\ pc = "idle"
  /\ event \in Events
  /\ matches = << >>
  /\ pos = 1
  /\ verdict = Permit(NoPolicy)

UpsertPolicy(n, spec) ==
  /\ policies' = [policies EXCEPT ![n] = spec]
  /\ UNCHANGED <<pc, event, matches, pos, verdict>>

RemovePolicy(n) ==
  /\ policies' = [policies EXCEPT ![n] = Absent]
  /\ UNCHANGED <<pc, event, matches, pos, verdict>>

Call(ev) ==
  /\ pc = "idle"
  /\ pc' = "called"
  /\ event' = ev
  /\ UNCHANGED <<policies, matches, pos, verdict>>

Return(v) ==
  /\ pc' = "returned"
  /\ verdict' = v

\* A private address or a host process is allowed without a lookup.
Exempt ==
  /\ pc = "called"
  /\ event.country = NoCountry \/ event.ns = NoNamespace
  /\ Return(Permit(NoPolicy))
  /\ UNCHANGED <<policies, event, matches, pos>>

\* Faulty: the chain starts past the end of an empty slice.
MatchFromTwo ==
  /\ pc = "called"
  /\ event.country # NoCountry
  /\ event.ns # NoNamespace
  /\ matches' \in Slices(policies, event)
  /\ pos' = 2
  /\ pc' = "chain"
  /\ UNCHANGED <<policies, event, verdict>>

\* Faulty: a host process is matched like a workload.
MatchHostProcess ==
  /\ pc = "called"
  /\ event.country # NoCountry
  /\ matches' \in Slices(policies, event)
  /\ pos' = 1
  /\ IF matches' = << >> THEN Return(Permit(NoPolicy))
                         ELSE pc' = "chain" /\ UNCHANGED verdict
  /\ UNCHANGED <<policies, event>>

Match ==
  /\ pc = "called"
  /\ event.country # NoCountry
  /\ event.ns # NoNamespace
  /\ matches' \in Slices(policies, event)
  /\ pos' = 1
  /\ IF matches' = << >> THEN Return(Permit(NoPolicy))
                         ELSE pc' = "chain" /\ UNCHANGED verdict
  /\ UNCHANGED <<policies, event>>

\* Faulty: the first policy that permits the country ends the chain.
ChainStopsAtFirst ==
  /\ pc = "chain"
  /\ IF Forbids(matches[pos].spec, event.country)
     THEN Return(Deny(matches[pos].name, matches[pos].spec))
     ELSE Return(Permit(Multiple))
  /\ UNCHANGED <<policies, event, matches, pos>>

\* Faulty: an allow list that omits the country restarts the chain.
ChainRestarts ==
  /\ pc = "chain"
  /\ \/ /\ pos <= Len(matches)
        /\ event.country \in matches[pos].spec.disallowed
        /\ Return(Deny(matches[pos].name, matches[pos].spec))
        /\ UNCHANGED pos
     \/ /\ pos <= Len(matches)
        /\ event.country \notin matches[pos].spec.disallowed
        /\ pos' = IF Forbids(matches[pos].spec, event.country) THEN 1 ELSE pos + 1
        /\ UNCHANGED <<pc, verdict>>
     \/ /\ pos > Len(matches)
        /\ Return(Permit(Multiple))
        /\ UNCHANGED pos
  /\ UNCHANGED <<policies, event, matches>>

\* One turn of the evaluation chain, or its end.
Chain ==
  /\ pc = "chain"
  /\ \/ /\ pos <= Len(matches)
        /\ Forbids(matches[pos].spec, event.country)
        /\ Return(Deny(matches[pos].name, matches[pos].spec))
        /\ UNCHANGED pos
     \/ /\ pos <= Len(matches)
        /\ ~Forbids(matches[pos].spec, event.country)
        /\ pos' = pos + 1
        /\ UNCHANGED <<pc, verdict>>
     \/ /\ pos > Len(matches)
        /\ Return(Permit(Multiple))
        /\ UNCHANGED pos
  /\ UNCHANGED <<policies, event, matches>>

\* The main loop goes on to its next event; the call's locals are gone.
Resume ==
  /\ pc = "returned"
  /\ pc' = "idle"
  /\ matches' = << >>
  /\ pos' = 1
  /\ verdict' = Permit(NoPolicy)
  /\ UNCHANGED <<policies, event>>

Evaluate == Exempt \/ Match \/ Chain

Next ==
  \/ \E n \in Names, spec \in Specs : UpsertPolicy(n, spec)
  \/ \E n \in Names : RemovePolicy(n)
  \/ \E ev \in Events : Call(ev)
  \/ Evaluate
  \/ Resume

Spec == Init /\ [][Next]_vars

\* The main loop keeps calling and the chain keeps running.
FairSpec == Spec /\ WF_vars(Evaluate)
-----------------------------------------------------------------------------
TypeOK ==
  /\ policies \in [Names -> Specs \cup {Absent}]
  /\ pc \in {"idle", "called", "chain", "returned"}
  /\ event \in Events
  /\ matches \in Seq([name : Names, spec : Specs])
  /\ pos \in 1..Len(matches) + 1
  /\ verdict \in [violated : BOOLEAN, policy : Names \cup {NoPolicy, Multiple},
                  actions : Seq(Actions)]

\* What the chain is bound to answer from position i on.
Hits(i)  == {j \in i..Len(matches) : Forbids(matches[j].spec, event.country)}
First(S) == CHOOSE j \in S : \A k \in S : j <= k

Judgement(i) ==
  IF Hits(i) = {} THEN Permit(Multiple)
  ELSE Deny(matches[First(Hits(i))].name, matches[First(Hits(i))].spec)

\* The chain answers at the instant Match took its slice.
Phase   == IF pc = "idle" THEN "idle" ELSE IF pc = "called" THEN "asked" ELSE "answered"
Decided == IF pc = "chain" THEN Judgement(pos) ELSE verdict

J == INSTANCE Judge WITH phase <- Phase, verdict <- Decided

\* Evaluate is linearizable: however the informer interleaves, each verdict is
\* one that the policies held at a single instant of the call justify.
ImplementsJudge == J!Spec

\* Nothing the chain has passed forbids the country, and a connection is
\* permitted only when no policy of the slice forbids it.
ChainSkipsNothing ==
  /\ pc = "chain" =>
       \A i \in 1..pos - 1 : ~Forbids(matches[i].spec, event.country)
  /\ pc = "returned" /\ ~verdict.violated =>
       \A i \in 1..Len(matches) : ~Forbids(matches[i].spec, event.country)

\* Every call is answered, however often the policies change meanwhile.
CallsReturn == pc = "called" ~> pc = "returned"
=============================================================================
