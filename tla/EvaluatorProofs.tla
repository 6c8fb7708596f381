--------------------------- MODULE EvaluatorProofs ---------------------------
(***************************************************************************)
(* The evaluator, for every set of policies, namespaces and countries: its *)
(* type invariant, that the chain skips nothing, and that Evaluate is a    *)
(* linearizable implementation of Judge.                                   *)
(***************************************************************************)
EXTENDS Evaluator, FiniteSetTheorems, WellFoundedInduction, TLAPS

-----------------------------------------------------------------------------
(* Sequences *)

LEMMA FunctionIsSeq ==
  ASSUME NEW R, NEW C \in Nat, NEW s \in [1..C -> R]
  PROVE  s \in Seq(R) /\ Len(s) = C
  OBVIOUS

LEMMA ElementOfSeq ==
  ASSUME NEW R, NEW s \in Seq(R), NEW i \in 1..Len(s)
  PROVE  s[i] \in R
  OBVIOUS

LEMMA LeastElement ==
  ASSUME NEW S, S \subseteq Nat, S # {}
  PROVE  \E j \in S : \A k \in S : j <= k
<1>1. PICK j \in S : \A k \in S : ~(<<k, j>> \in OpToRel(<, Nat))
  BY NatLessThanWellFounded, WFMin
<1>2. \A k \in S : ~(k < j)
  BY <1>1 DEF OpToRel
<1> QED
  BY <1>2

-----------------------------------------------------------------------------
(* Match *)

\* A slice lists exactly the matching policies, with the specs they had.
LEMMA SliceContents ==
  ASSUME policies \in [Names -> Specs \cup {Absent}],
         NEW s \in Slices(policies, event)
  PROVE  /\ s \in Seq([name : Names, spec : Specs])
         /\ \A i \in 1..Len(s) : /\ s[i].name \in Matching(policies, event)
                                 /\ s[i].spec = policies[s[i].name]
         /\ \A n \in Matching(policies, event) :
              \E i \in 1..Len(s) : s[i].name = n
<1> DEFINE M == Matching(policies, event)
           C == Cardinality(M)
<1>1. M \subseteq Names /\ \A n \in M : policies[n] \in Specs
  BY DEF Matching
<1>2. C \in Nat
  BY <1>1, NamesFinite, FS_Subset, FS_CardinalityType
<1>3. PICK order \in Surjection(1..C, M) :
        s = [i \in 1..C |-> [name |-> order[i], spec |-> policies[order[i]]]]
  BY DEF Slices
<1>4. order \in [1..C -> M] /\ \A n \in M : \E i \in 1..C : order[i] = n
  BY <1>3 DEF Surjection
<1>5. s \in [1..C -> [name : Names, spec : Specs]]
  BY <1>1, <1>3, <1>4
<1>6. s \in Seq([name : Names, spec : Specs]) /\ Len(s) = C
  BY <1>2, <1>5, FunctionIsSeq
<1>7. \A i \in 1..Len(s) : s[i].name = order[i] /\ s[i].spec = policies[order[i]]
  BY <1>3, <1>6
<1>8. \A i \in 1..Len(s) : s[i].name \in M /\ s[i].spec = policies[s[i].name]
  BY <1>4, <1>6, <1>7
<1>9. \A n \in M : \E i \in 1..Len(s) : s[i].name = n
  BY <1>4, <1>6, <1>7
<1> HIDE DEF M
<1> QED
  BY <1>6, <1>8, <1>9 DEF M

\* An empty slice means that no policy covers the namespace.
LEMMA EmptySlice ==
  ASSUME policies \in [Names -> Specs \cup {Absent}],
         << >> \in Slices(policies, event)
  PROVE  Matching(policies, event) = {}
<1>1. \A n \in Matching(policies, event) : \E i \in 1..Len(<< >>) : << >>[i].name = n
  BY SliceContents
<1> QED
  BY <1>1

-----------------------------------------------------------------------------
(* Type correctness *)

LEMMA VerdictTypes ==
  /\ \A who \in {NoPolicy, Multiple} :
       Permit(who) \in [violated : BOOLEAN, policy : Names \cup {NoPolicy, Multiple},
                        actions : Seq(Actions)]
  /\ \A n \in Names, spec \in Specs :
       Deny(n, spec) \in [violated : BOOLEAN, policy : Names \cup {NoPolicy, Multiple},
                          actions : Seq(Actions)]
<1>1. <<"allow">> \in Seq(Actions)
  BY DEF Actions
<1>2. \A spec \in Specs : spec.actions \in Seq(Actions)
  BY SpecsAssumption DEF PolicySpec
<1> QED
  BY <1>1, <1>2 DEF Permit, Deny

LEMMA TypeInit == Init => TypeOK
  BY VerdictTypes DEF Init, TypeOK

LEMMA TypeStep == TypeOK /\ [Next]_vars => TypeOK'
<1> SUFFICES ASSUME TypeOK, [Next]_vars PROVE TypeOK'
  OBVIOUS
<1> USE DEF TypeOK
<1>1. ASSUME NEW n \in Names, NEW spec \in Specs, UpsertPolicy(n, spec) PROVE TypeOK'
  BY <1>1 DEF UpsertPolicy
<1>2. ASSUME NEW n \in Names, RemovePolicy(n) PROVE TypeOK'
  BY <1>2 DEF RemovePolicy
<1>3. ASSUME NEW ev \in Events, Call(ev) PROVE TypeOK'
  BY <1>3 DEF Call
<1>4. CASE Exempt
  BY <1>4, VerdictTypes DEF Exempt, Return
<1>5. CASE Match
  <2>1. matches' \in Seq([name : Names, spec : Specs])
    BY <1>5, SliceContents DEF Match
  <2>2. pos' \in 1..Len(matches') + 1
    BY <1>5, <2>1 DEF Match
  <2>3. verdict' \in [violated : BOOLEAN, policy : Names \cup {NoPolicy, Multiple},
                      actions : Seq(Actions)]
    BY <1>5, VerdictTypes DEF Match, Return
  <2> QED
    BY <1>5, <2>1, <2>2, <2>3 DEF Match, Return
<1>6. CASE Chain
  <2>1. CASE pos <= Len(matches) /\ Forbids(matches[pos].spec, event.country)
    <3>1. /\ pos \in 1..Len(matches)
          /\ matches \in Seq([name : Names, spec : Specs])
      BY <2>1
    <3>2. matches[pos] \in [name : Names, spec : Specs]
      BY <3>1, ElementOfSeq
    <3>3. matches[pos].name \in Names /\ matches[pos].spec \in Specs
      BY <3>2
    <3> QED
      BY <1>6, <2>1, <3>3, VerdictTypes DEF Chain, Return
  <2>2. CASE pos <= Len(matches) /\ ~Forbids(matches[pos].spec, event.country)
    BY <1>6, <2>2 DEF Chain
  <2>3. CASE pos > Len(matches)
    BY <1>6, <2>3, VerdictTypes DEF Chain, Return
  <2> QED
    BY <2>1, <2>2, <2>3
<1>7. CASE Resume
  BY <1>7, VerdictTypes DEF Resume
<1>8. CASE UNCHANGED vars
  BY <1>8 DEF vars
<1> QED
  BY <1>1, <1>2, <1>3, <1>4, <1>5, <1>6, <1>7, <1>8 DEF Next, Evaluate

\* The evaluator's variables keep their types: Matcher's map, the slice, the
\* position in it and the verdict handed to the main loop.
THEOREM TypeCorrect == Spec => []TypeOK
  BY TypeInit, TypeStep, PTL DEF Spec

-----------------------------------------------------------------------------
(* The chain *)

\* Outside a call there is no slice left over from an earlier one.
NoStaleSlice == pc \in {"idle", "called"} => matches = << >>

ChainInv == TypeOK /\ NoStaleSlice /\ ChainSkipsNothing

LEMMA ChainInit == Init => ChainInv
  BY TypeInit DEF Init, ChainInv, NoStaleSlice, ChainSkipsNothing

LEMMA ChainStep == ChainInv /\ [Next]_vars => ChainInv'
<1> SUFFICES ASSUME ChainInv, [Next]_vars PROVE (NoStaleSlice /\ ChainSkipsNothing)'
  BY TypeStep DEF ChainInv
<1> USE DEF ChainInv, NoStaleSlice, ChainSkipsNothing
<1>1. ASSUME NEW n \in Names, NEW spec \in Specs, UpsertPolicy(n, spec)
      PROVE (NoStaleSlice /\ ChainSkipsNothing)'
  BY <1>1 DEF UpsertPolicy
<1>2. ASSUME NEW n \in Names, RemovePolicy(n) PROVE (NoStaleSlice /\ ChainSkipsNothing)'
  BY <1>2 DEF RemovePolicy
<1>3. ASSUME NEW ev \in Events, Call(ev) PROVE (NoStaleSlice /\ ChainSkipsNothing)'
  BY <1>3 DEF Call
<1>4. CASE Exempt
  <2>1. matches = << >> /\ pc' = "returned" /\ UNCHANGED <<event, matches>>
    BY <1>4 DEF Exempt, Return
  <2> QED
    BY <2>1
<1>5. CASE Match
  <2>1. CASE matches' = << >>
    BY <1>5, <2>1 DEF Match, Return
  <2>2. CASE matches' # << >>
    BY <1>5, <2>2 DEF Match
  <2> QED
    BY <2>1, <2>2
<1>6. CASE Chain
  <2>1. pos \in Nat /\ Len(matches) \in Nat /\ pos <= Len(matches) + 1
    BY DEF TypeOK
  <2>2. CASE pos <= Len(matches) /\ Forbids(matches[pos].spec, event.country)
    <3>1. /\ pc' = "returned"
          /\ verdict' = Deny(matches[pos].name, matches[pos].spec)
      BY <1>6, <2>1, <2>2 DEF Chain, Return
    <3>2. verdict'.violated
      BY <3>1 DEF Deny
    <3> QED
      BY <3>1, <3>2
  <2>3. CASE pos <= Len(matches) /\ ~Forbids(matches[pos].spec, event.country)
    <3>1. pos' = pos + 1 /\ UNCHANGED <<pc, event, matches>> /\ pc = "chain"
      BY <1>6, <2>1, <2>3 DEF Chain
    <3>2. \A i \in 1..pos : ~Forbids(matches[i].spec, event.country)
      <4> SUFFICES ASSUME NEW i \in 1..pos
                   PROVE  ~Forbids(matches[i].spec, event.country)
        OBVIOUS
      <4>1. pos \in Nat
        BY DEF TypeOK
      <4>2. i = pos \/ i \in 1..pos - 1
        BY <4>1
      <4> QED
        BY <3>1, <4>2, <2>3
    <3>3. pos' - 1 = pos
      BY <3>1 DEF TypeOK
    <3> QED
      BY <3>1, <3>2, <3>3
  <2>4. CASE pos > Len(matches)
    <3>1. pos - 1 = Len(matches)
      BY <2>1, <2>4 DEF TypeOK
    <3>2. /\ pc = "chain" /\ pc' = "returned"
          /\ UNCHANGED <<event, matches>>
      BY <1>6, <2>1, <2>4 DEF Chain, Return
    <3> QED
      BY <3>1, <3>2
  <2> QED
    BY <2>1, <2>2, <2>3, <2>4
<1>7. CASE Resume
  BY <1>7 DEF Resume
<1>8. CASE UNCHANGED vars
  BY <1>8 DEF vars
<1> QED
  BY <1>1, <1>2, <1>3, <1>4, <1>5, <1>6, <1>7, <1>8 DEF Next, Evaluate

\* The chain of Evaluate permits a connection only if no policy of the slice
\* that Match returned forbids its country.
THEOREM ChainCorrect == Spec => []ChainSkipsNothing
<1>1. ChainInv => ChainSkipsNothing
  BY DEF ChainInv
<1> QED
  BY ChainInit, ChainStep, <1>1, PTL DEF Spec

-----------------------------------------------------------------------------
(* Refinement: Evaluate answers as Judge does *)

LEMMA JudgeNames ==
  /\ J!NoPolicy = NoPolicy /\ J!Multiple = Multiple
  /\ J!Events = Events
  /\ \A who : J!Permit(who) = Permit(who)
  /\ \A n, spec : J!Deny(n, spec) = Deny(n, spec)
  /\ \A pols, ev : J!Matching(pols, ev) = Matching(pols, ev)
  /\ \A spec, ns, c : J!Violates(spec, ns, c) <=> Violates(spec, ns, c)
  BY DEF J!NoPolicy, J!Multiple, J!Events, J!Permit, J!Deny, J!Matching, J!Violates,
         J!Covers, J!Forbids, NoPolicy, Multiple, Events, Permit, Deny, Matching,
         Violates, Covers, Forbids

LEMMA FirstIsLeast ==
  ASSUME NEW S, S \subseteq Nat, S # {}
  PROVE  First(S) \in S /\ \A k \in S : First(S) <= k
<1>1. \E j \in S : \A k \in S : j <= k
  BY LeastElement
<1> QED
  BY <1>1 DEF First

\* The chain's answer from i on does not change while it passes a policy that
\* permits the country.
LEMMA JudgementPasses ==
  ASSUME NEW i \in 1..Len(matches), ~Forbids(matches[i].spec, event.country),
         Len(matches) \in Nat
  PROVE  Judgement(i + 1) = Judgement(i)
<1>1. \A j \in i..Len(matches) : j = i \/ j \in i + 1..Len(matches)
  OBVIOUS
<1>2. \A j \in i + 1..Len(matches) : j \in i..Len(matches)
  OBVIOUS
<1>3. Hits(i + 1) = Hits(i)
  BY <1>1, <1>2 DEF Hits
<1> QED
  BY <1>3 DEF Judgement

LEMMA JudgementStops ==
  ASSUME NEW i \in 1..Len(matches), Forbids(matches[i].spec, event.country),
         Len(matches) \in Nat
  PROVE  Judgement(i) = Deny(matches[i].name, matches[i].spec)
<1>1. i \in Hits(i) /\ Hits(i) \subseteq Nat /\ \A k \in Hits(i) : i <= k
  BY DEF Hits
<1>2. First(Hits(i)) \in Hits(i) /\ First(Hits(i)) <= i
  BY <1>1, FirstIsLeast
<1>3. First(Hits(i)) = i
  BY <1>1, <1>2
<1> QED
  BY <1>1, <1>3 DEF Judgement

LEMMA JudgementEnds ==
  ASSUME Len(matches) \in Nat, NEW i \in Nat, i > Len(matches)
  PROVE  Judgement(i) = Permit(Multiple)
<1>1. Hits(i) = {}
  BY DEF Hits
<1> QED
  BY <1>1 DEF Judgement

LEMMA RefineInit == Init => J!Init
  BY JudgeNames DEF Init, J!Init, Phase, Decided

\* The slice carries exactly the verdicts that the matcher's policies justify.
LEMMA MatchAnswers ==
  ASSUME TypeOK, Match
  PROVE  Decided' \in J!Verdicts(policies, event)
<1> USE DEF TypeOK
<1> DEFINE violated == {n \in Names : policies[n] # Absent
                                       /\ Violates(policies[n], event.ns, event.country)}
<1>1. J!Verdicts(policies, event)
        = IF violated # {} THEN {Deny(n, policies[n]) : n \in violated}
          ELSE IF event.country = NoCountry \/ event.ns = NoNamespace
                  \/ Matching(policies, event) = {} THEN {Permit(NoPolicy)}
          ELSE {Permit(Multiple)}
  BY JudgeNames DEF J!Verdicts
<1>2. violated = {n \in Matching(policies, event) : Forbids(policies[n], event.country)}
  BY DEF Match, Matching, Violates
<1>3. /\ matches' \in Seq([name : Names, spec : Specs])
      /\ \A i \in 1..Len(matches') : /\ matches'[i].name \in Matching(policies, event)
                                     /\ matches'[i].spec = policies[matches'[i].name]
      /\ \A n \in Matching(policies, event) : \E i \in 1..Len(matches') : matches'[i].name = n
  BY SliceContents DEF Match
<1> HIDE DEF violated
<1>4. CASE matches' = << >>
  <2>1. Matching(policies, event) = {}
    BY <1>4, EmptySlice DEF Match
  <2>2. Decided' = Permit(NoPolicy)
    BY <1>4 DEF Match, Return, Decided
  <2> QED
    BY <1>1, <1>2, <2>1, <2>2
<1>5. CASE matches' # << >>
  <2>1. pc' = "chain" /\ pos' = 1 /\ event' = event
    BY <1>5 DEF Match
  <2>2. Decided' = Judgement(1)'
    BY <2>1 DEF Decided, Judgement
  <2>3. Len(matches') \in Nat \ {0}
    BY <1>3, <1>5
  <2>4. Hits(1)' = {j \in 1..Len(matches') : Forbids(matches'[j].spec, event.country)}
    BY <2>1 DEF Hits
  <2>5. CASE Hits(1)' = {}
    <3>1. \A n \in Matching(policies, event) : ~Forbids(policies[n], event.country)
      BY <1>3, <2>4, <2>5
    <3>2. violated = {}
      BY <1>2, <3>1
    <3>3. 1 \in 1..Len(matches')
      BY <2>3
    <3>4. Matching(policies, event) # {}
      BY <1>3, <3>3
    <3>5. Judgement(1)' = Permit(Multiple)
      BY <2>5 DEF Judgement, Permit, Multiple
    <3> QED
      BY <1>1, <2>2, <3>2, <3>4, <3>5 DEF Match
  <2>6. CASE Hits(1)' # {}
    <3> DEFINE first == First(Hits(1)')
    <3>1. Judgement(1)' = Deny(matches'[first].name, matches'[first].spec)
      BY <2>6 DEF Judgement, First, Deny
    <3>2. Hits(1)' \subseteq Nat
      BY <2>3, <2>4
    <3>3. first \in Hits(1)'
      BY <2>6, <3>2, FirstIsLeast
    <3>4. /\ matches'[first].name \in violated
          /\ matches'[first].spec = policies[matches'[first].name]
      BY <1>2, <1>3, <2>4, <3>3
    <3> QED
      BY <1>1, <2>2, <3>1, <3>4
  <2> QED
    BY <2>5, <2>6
<1> QED
  BY <1>4, <1>5

\* Each step of the evaluator is a step of Judge, or changes nothing it sees.
LEMMA RefineStep == TypeOK /\ [Next]_vars => [J!Next]_(J!vars)
<1> SUFFICES ASSUME TypeOK, [Next]_vars PROVE [J!Next]_(J!vars)
  OBVIOUS
<1> DEFINE kept == UNCHANGED <<pc, event, matches, pos, verdict>>
<1>1. kept => UNCHANGED <<Phase, event, Decided>>
  BY DEF Phase, Decided, Judgement, Hits
<1>2. ASSUME NEW n \in Names, NEW spec \in Specs, UpsertPolicy(n, spec)
      PROVE [J!Next]_(J!vars)
  BY <1>1, <1>2 DEF UpsertPolicy, J!Next, J!SetPolicy
<1>3. ASSUME NEW n \in Names, RemovePolicy(n) PROVE [J!Next]_(J!vars)
  BY <1>1, <1>3 DEF RemovePolicy, J!Next, J!SetPolicy
<1>4. ASSUME NEW ev \in Events, Call(ev) PROVE [J!Next]_(J!vars)
  <2>1. J!Ask(ev)
    BY <1>4 DEF Call, J!Ask, Phase, Decided
  <2> QED
    BY <2>1, JudgeNames DEF J!Next
<1>5. CASE Exempt
  <2>1. J!Verdicts(policies, event) = {Permit(NoPolicy)}
    BY <1>5, JudgeNames, SentinelAssumption DEF Exempt, J!Verdicts, Violates
  <2>2. Phase = "asked" /\ Phase' = "answered" /\ Decided' = Permit(NoPolicy)
    BY <1>5 DEF Exempt, Return, Phase, Decided
  <2>3. UNCHANGED <<policies, event>>
    BY <1>5 DEF Exempt
  <2> QED
    BY <2>1, <2>2, <2>3 DEF J!Next, J!Answer
<1>6. CASE Match
  <2>1. Decided' \in J!Verdicts(policies, event)
    BY <1>6, MatchAnswers
  <2>2. Phase = "asked" /\ Phase' = "answered" /\ UNCHANGED <<policies, event>>
    BY <1>6 DEF Match, Return, Phase
  <2> QED
    BY <2>1, <2>2 DEF J!Next, J!Answer
<1>7. CASE Chain
  <2>1. /\ pos \in Nat \ {0} /\ Len(matches) \in Nat
        /\ pc = "chain" /\ Decided = Judgement(pos)
        /\ UNCHANGED <<policies, event, matches>>
    BY <1>7 DEF TypeOK, Chain, Decided
  <2>2. CASE pos <= Len(matches) /\ Forbids(matches[pos].spec, event.country)
    <3>1. Judgement(pos) = Deny(matches[pos].name, matches[pos].spec)
      BY <2>1, <2>2, JudgementStops
    <3>2. /\ pc' = "returned"
          /\ verdict' = Deny(matches[pos].name, matches[pos].spec)
      BY <1>7, <2>1, <2>2 DEF Chain, Return
    <3> QED
      BY <2>1, <3>1, <3>2 DEF J!vars, Phase, Decided
  <2>3. CASE pos <= Len(matches) /\ ~Forbids(matches[pos].spec, event.country)
    <3>1. Judgement(pos + 1) = Judgement(pos)
      BY <2>1, <2>3, JudgementPasses
    <3>2. pc' = "chain" /\ pos' = pos + 1
      BY <1>7, <2>1, <2>3 DEF Chain
    <3>3. Decided' = Judgement(pos + 1)
      BY <2>1, <3>2 DEF Decided, Judgement, Hits
    <3> QED
      BY <2>1, <3>1, <3>2, <3>3 DEF J!vars, Phase
  <2>4. CASE pos > Len(matches)
    <3>1. Judgement(pos) = Permit(Multiple)
      BY <2>1, <2>4, JudgementEnds
    <3>2. pc' = "returned" /\ verdict' = Permit(Multiple)
      BY <1>7, <2>1, <2>4 DEF Chain, Return
    <3> QED
      BY <2>1, <3>1, <3>2 DEF J!vars, Phase, Decided
  <2> QED
    BY <2>1, <2>2, <2>3, <2>4
<1>8. CASE Resume
  BY <1>8, JudgeNames DEF Resume, J!Next, J!Finish, Phase, Decided
<1>9. CASE UNCHANGED vars
  BY <1>1, <1>9 DEF vars, J!vars
<1> QED
  BY <1>2, <1>3, <1>4, <1>5, <1>6, <1>7, <1>8, <1>9 DEF Next, Evaluate

\* Evaluate is linearizable with respect to the informer's upserts and removals:
\* each verdict is one the policies of a single instant of the call justify.
THEOREM Linearizable == Spec => ImplementsJudge
  BY RefineInit, RefineStep, TypeCorrect, PTL DEF Spec, J!Spec, ImplementsJudge
=============================================================================
