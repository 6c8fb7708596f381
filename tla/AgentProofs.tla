----------------------------- MODULE AgentProofs -----------------------------
(***************************************************************************)
(* The node agents, for every set of nodes, policies, addresses and specs, *)
(* any number of retries and any schedule of faults: the list of addresses *)
(* of a policy is an atomic ledger of addresses that some spec of that     *)
(* policy condemned, and an agent remembers as reported only what was.     *)
(***************************************************************************)
EXTENDS Agent, PolicyStoreProofs

\* What the call under way on node a has established: a spec of the policy has
\* condemned the address, and the version that the update is computed from was
\* live and did not list it.
ReportSound(a) ==
  report[a] # Absent =>
    /\ CondemnedBy(report[a].policy, Latest(report[a].policy), report[a].ip)
    /\ report[a].pc = "update" =>
         /\ At(report[a].policy, report[a].rv) # Absent
         /\ report[a].ip \notin At(report[a].policy, report[a].rv).ips
         /\ report[a].rv <= Latest(report[a].policy)

ReportsSound == \A a \in Agents : ReportSound(a)

\* A matcher holds, for each policy, the spec of the version last delivered.
MatcherFaithful ==
  \A a \in Agents, p \in Names :
    matcher[a][p] = IF At(p, delivered[a][p]) = Absent
                    THEN Absent ELSE At(p, delivered[a][p]).spec

AgentInv == TypeOK /\ MatcherFaithful /\ Justified /\ MarksEarned /\ ReportsSound

\* What earns a mark that no call in progress holds.
Earned(p, ip) ==
  \E i \in 1..Latest(p) : log[p][i] = Absent \/ ip \in log[p][i].ips

-----------------------------------------------------------------------------
(* Each part of the invariant under steps that do not concern it *)

LEMMA MatcherKept ==
  ASSUME TypeOK, MatcherFaithful, OnlyGrows, UNCHANGED <<delivered, matcher>>
  PROVE  /\ MatcherFaithful'
         /\ \A a \in Agents, p \in Names : delivered[a][p] <= Latest(p)'
<1>1. ASSUME NEW a \in Agents, NEW p \in Names
      PROVE  /\ At(p, delivered[a][p])' = At(p, delivered[a][p])
             /\ delivered[a][p] <= Latest(p)'
  <2>1. delivered[a][p] \in 0..Latest(p) /\ StoreOK /\ Latest(p) \in Nat
    BY LogTypes DEF TypeOK
  <2>2. \A i \in 0..Latest(p) : At(p, i)' = At(p, i)
    BY <2>1, AtKept
  <2>3. At(p, delivered[a][p])' = At(p, delivered[a][p])
    BY <2>1, <2>2 DEF At
  <2> QED
    BY <2>1, <2>3 DEF OnlyGrows
<1> QED
  BY <1>1 DEF MatcherFaithful

LEMMA EarnedKept ==
  ASSUME StoreOK, OnlyGrows, NEW p \in Names, NEW ip, Earned(p, ip)
  PROVE  Earned(p, ip)'
<1>1. PICK i \in 1..Latest(p) : log[p][i] = Absent \/ ip \in log[p][i].ips
  BY DEF Earned
<1>2. Latest(p) \in Nat /\ Latest(p) <= Latest(p)' /\ log'[p][i] = log[p][i]
  BY LogTypes DEF OnlyGrows
<1>3. i \in 1..Latest(p)'
  BY <1>2 DEF Latest
<1> QED
  BY <1>1, <1>2, <1>3 DEF Earned

\* A step of one agent's call: the marks it leaves are as well earned as before,
\* if the one that the call held is still held, earned by now, or gone.
LEMMA MarksKept ==
  ASSUME TypeOK, MarksEarned, OnlyGrows, NEW a \in Agents,
         \A b \in Agents : reported'[b] \subseteq reported[b],
         \A b \in Agents : b # a => report'[b] = report[b],
         \A p \in Names, ip \in IPs :
           InFlight(a, p, ip) /\ <<p, ip>> \in reported'[a] =>
             InFlight(a, p, ip)' \/ Earned(p, ip) \/ Earned(p, ip)'
  PROVE  MarksEarned'
<1> SUFFICES ASSUME NEW b \in Agents, NEW mark \in reported'[b]
             PROVE  InFlight(b, mark[1], mark[2])' \/ Earned(mark[1], mark[2])'
  BY DEF MarksEarned, Earned
<1>1. mark \in reported[b] /\ StoreOK
  BY DEF TypeOK
<1>2. mark[1] \in Names /\ mark[2] \in IPs /\ mark = <<mark[1], mark[2]>>
  BY <1>1 DEF TypeOK
<1>3. InFlight(b, mark[1], mark[2]) \/ Earned(mark[1], mark[2])
  BY <1>1 DEF MarksEarned, Earned
<1>4. CASE Earned(mark[1], mark[2])
  BY <1>1, <1>2, <1>4, EarnedKept
<1>5. CASE InFlight(b, mark[1], mark[2]) /\ b # a
  BY <1>5 DEF InFlight
<1>6. CASE InFlight(b, mark[1], mark[2]) /\ b = a
  BY <1>1, <1>2, <1>4, <1>6, EarnedKept
<1> QED
  BY <1>3, <1>4, <1>5, <1>6

LEMMA ReportType ==
  ASSUME TypeOK, NEW a \in Agents, report[a] # Absent
  PROVE  /\ report[a] \in Report
         /\ report[a].policy \in Names
         /\ report[a].ip \in IPs
         /\ report[a].rv \in Nat
         /\ report[a].tries \in 1..MaxTries
         /\ Latest(report[a].policy) \in Nat
<1>1. report[a] \in Report
  BY DEF TypeOK
<1>2. report[a].policy \in Names
  BY <1>1 DEF Report
<1> QED
  BY <1>1, <1>2, LogTypes DEF Report, TypeOK

LEMMA ReportKept ==
  ASSUME TypeOK, OnlyGrows, NEW a \in Agents, ReportSound(a), report'[a] = report[a]
  PROVE  ReportSound(a)'
<1> SUFFICES ASSUME report[a] # Absent PROVE ReportSound(a)'
  BY DEF ReportSound
<1> DEFINE p == report[a].policy  ip == report[a].ip  rv == report[a].rv
<1>1. StoreOK /\ p \in Names /\ rv \in Nat /\ Latest(p) \in Nat /\ CondemnedBy(p, Latest(p), ip)
  BY ReportType DEF ReportSound, TypeOK
<1>2. CondemnedBy(p, Latest(p), ip)'
  BY <1>1, CondemnedKept
<1>3. ASSUME report[a].pc = "update"
      PROVE  At(p, rv)' = At(p, rv) /\ rv <= Latest(p) /\ rv <= Latest(p)'
  <2>1. rv \in 0..Latest(p)
    BY <1>1, <1>3 DEF ReportSound
  <2>2. Latest(p) <= Latest(p)'
    BY <1>1 DEF OnlyGrows
  <2>3. At(p, rv)' = At(p, rv)
    BY <1>1, <2>1, AtKept
  <2> QED
    BY <1>1, <2>1, <2>2, <2>3 DEF Latest, OnlyGrows
<1> QED
  BY <1>2, <1>3 DEF ReportSound, At, Latest

\* The addresses of a new version are those of the version before, or condemned.
LEMMA JustifiedKept ==
  ASSUME StoreOK, Justified, NEW p \in Names, NEW v, Fits(p, v), Put(p, v),
         v # Absent => \A ip \in v.ips : CondemnedBy(p, Latest(p), ip)
  PROVE  Justified'
<1>1. OnlyGrows
  BY PutGrows
<1> SUFFICES ASSUME NEW q \in Names, NEW i \in 1..Latest(q)', log'[q][i] # Absent,
                    NEW ip \in log'[q][i].ips
             PROVE  CondemnedBy(q, i, ip)'
  BY DEF Justified
<1>2. /\ Latest(q) \in Nat
      /\ Latest(p)' = Latest(p) + 1
      /\ log'[p][Latest(p) + 1] = v
      /\ q # p => Latest(q)' = Latest(q)
  BY LogTypes, PutAppends DEF Latest
<1>3. CASE i \in 1..Latest(q)
  <2>1. log[q][i] # Absent /\ ip \in log[q][i].ips
    BY <1>1, <1>3 DEF OnlyGrows
  <2>2. CondemnedBy(q, i, ip) /\ i \in 0..Latest(q)
    BY <1>2, <1>3, <2>1 DEF Justified
  <2> QED
    BY <1>1, <2>2, CondemnedKept
<1>4. CASE i \notin 1..Latest(q)
  <2>1. q = p /\ i = Latest(p) + 1
    BY <1>2, <1>4
  <2>2. v # Absent /\ ip \in v.ips
    BY <1>2, <2>1
  <2>3. CondemnedBy(p, Latest(p), ip)'
    <3>1. Latest(p) \in 0..Latest(p)
      BY <1>2, <2>1
    <3> QED
      BY <1>1, <2>2, <3>1, CondemnedKept
  <2> QED
    BY <1>2, <2>1, <2>3
<1> QED
  BY <1>3, <1>4

LEMMA JustifiedSame ==
  ASSUME Justified, UNCHANGED log
  PROVE  Justified'
  BY DEF Justified, CondemnedBy, Condemns, Latest
\* The rest of the typing, when no version is taken back.
LEMMA TypesKept ==
  ASSUME TypeOK, MatcherFaithful, StoreOK', OnlyGrows, UNCHANGED <<delivered, matcher>>,
         reported' \in [Agents -> SUBSET (Names \X IPs)],
         report' \in [Agents -> Report \cup {Absent}],
         faults' \in 0..MaxFaults
  PROVE  TypeOK' /\ MatcherFaithful'
<1>1. MatcherFaithful' /\ \A a \in Agents, p \in Names : delivered[a][p] <= Latest(p)'
  BY MatcherKept
<1> QED
  BY <1>1 DEF TypeOK, Latest

LEMMA FaultCounted == ASSUME TypeOK, Fault PROVE faults' \in 0..MaxFaults
  BY MaxFaultsAssumption DEF TypeOK, Fault

-----------------------------------------------------------------------------
(* The informer and the main loop *)

LEMMA DeliverKeeps ==
  ASSUME AgentInv, NEW a \in Agents, NEW p \in Names, DeliverPolicy(a, p)
  PROVE  AgentInv'
<1> USE DEF AgentInv
<1>1. PICK i \in delivered[a][p] + 1..Latest(p) :
        /\ delivered' = [delivered EXCEPT ![a][p] = i]
        /\ matcher' = [matcher EXCEPT ![a][p] =
                         IF log[p][i] = Absent THEN Absent ELSE log[p][i].spec]
        /\ UNCHANGED <<log, reported, report, faults>>
  BY DEF DeliverPolicy
<1>2. /\ delivered \in [Agents -> [Names -> Nat]]
      /\ matcher \in [Agents -> [Names -> Specs \cup {Absent}]]
      /\ StoreOK /\ Latest(p) \in Nat
  BY LogTypes DEF TypeOK
<1>3. i \in Nat /\ i # 0 /\ i \in 1..Latest(p)
  BY <1>2
<1>4. log[p][i] \in Version \cup {Absent}
  BY <1>2, <1>3, LogTypes
<1> DEFINE spec == IF log[p][i] = Absent THEN Absent ELSE log[p][i].spec
<1>5. spec \in Specs \cup {Absent}
  BY <1>4 DEF Version
<1>6. /\ delivered' \in [Agents -> [Names -> Nat]]
      /\ matcher' \in [Agents -> [Names -> Specs \cup {Absent}]]
  BY <1>1, <1>2, <1>3, <1>5
<1>7. ASSUME NEW b \in Agents, NEW q \in Names
      PROVE  \/ b = a /\ q = p /\ delivered'[b][q] = i /\ matcher'[b][q] = spec
             \/ delivered'[b][q] = delivered[b][q] /\ matcher'[b][q] = matcher[b][q]
  BY <1>1, <1>2
<1>8. TypeOK'
  <2>1. \A b \in Agents, q \in Names : delivered'[b][q] <= Latest(q)
    BY <1>3, <1>7 DEF TypeOK
  <2> QED
    BY <1>1, <1>2, <1>6, <2>1 DEF TypeOK, StoreOK, Latest
<1>9. MatcherFaithful'
  <2> SUFFICES ASSUME NEW b \in Agents, NEW q \in Names
               PROVE  matcher'[b][q] = IF At(q, delivered'[b][q]) = Absent
                                       THEN Absent ELSE At(q, delivered'[b][q]).spec
    BY <1>1 DEF MatcherFaithful, At
  <2> QED
    BY <1>3, <1>7 DEF MatcherFaithful, At
<1> QED
  BY <1>1, <1>8, <1>9
     DEF Justified, MarksEarned, InFlight, ReportsSound, ReportSound, CondemnedBy, Condemns,
         Latest, At

LEMMA HandleEventKeeps ==
  ASSUME AgentInv, NEW a \in Agents, NEW ns \in Namespaces, NEW ip \in IPs,
         HandleEvent(a, ns, ip)
  PROVE  AgentInv'
<1> USE DEF AgentInv
<1>1. PICK p \in Names :
        /\ report[a] = Absent
        /\ matcher[a][p] # Absent
        /\ Violates(matcher[a][p], ns, CountryOf[ip])
        /\ Blocks(matcher[a][p])
        /\ reported' = [reported EXCEPT ![a] = @ \cup {<<p, ip>>}]
        /\ report' = [report EXCEPT ![a] =
                        [pc |-> "get", policy |-> p, ip |-> ip, rv |-> 0, tries |-> 1]]
        /\ UNCHANGED <<log, delivered, matcher, faults>>
  BY DEF HandleEvent
<1> DEFINE call == [pc |-> "get", policy |-> p, ip |-> ip, rv |-> 0, tries |-> 1]
<1>2. call \in Report /\ call # Absent
  BY MaxTriesAssumption, NoReportAssumption DEF Report
<1>3. /\ reported \in [Agents -> SUBSET (Names \X IPs)]
      /\ report \in [Agents -> Report \cup {Absent}]
      /\ StoreOK
  BY DEF TypeOK
<1> HIDE DEF call
<1>4. /\ reported' \in [Agents -> SUBSET (Names \X IPs)]
      /\ report' \in [Agents -> Report \cup {Absent}]
      /\ report'[a] = call
      /\ \A b \in Agents : b # a => report'[b] = report[b] /\ reported'[b] = reported[b]
      /\ reported'[a] = reported[a] \cup {<<p, ip>>}
  BY <1>1, <1>2, <1>3 DEF call
<1>5. OnlyGrows /\ StoreOK' /\ faults' \in 0..MaxFaults
  BY <1>1, <1>3, SameGrows DEF StoreOK, Latest, TypeOK
<1>6. TypeOK' /\ MatcherFaithful'
  BY <1>1, <1>4, <1>5, TypesKept
<1>7. Justified'
  BY <1>1, JustifiedSame
<1>8. CondemnedBy(p, Latest(p), ip)
  <2> DEFINE i == delivered[a][p]
  <2>1. i \in 0..Latest(p) /\ Latest(p) \in Nat
    BY <1>3, LogTypes DEF TypeOK
  <2>2. At(p, i) # Absent /\ matcher[a][p] = At(p, i).spec
    BY <1>1 DEF MatcherFaithful
  <2>3. i \in 1..Latest(p) /\ log[p][i] # Absent /\ log[p][i].spec = matcher[a][p]
    BY <1>3, <2>1, <2>2, VersionAt
  <2> QED
    BY <1>1, <2>3 DEF CondemnedBy, Condemns
<1>9. MarksEarned'
  <2> SUFFICES ASSUME NEW b \in Agents, NEW mark \in reported'[b]
               PROVE  InFlight(b, mark[1], mark[2])' \/ Earned(mark[1], mark[2])'
    BY DEF MarksEarned, Earned
  <2>1. CASE b = a /\ mark = <<p, ip>>
    BY <1>2, <1>4, <2>1 DEF InFlight, call
  <2>2. CASE ~(b = a /\ mark = <<p, ip>>)
    <3>1. mark \in reported[b]
      BY <1>4, <2>2
    <3>2. InFlight(b, mark[1], mark[2]) \/ Earned(mark[1], mark[2])
      BY <3>1 DEF MarksEarned, Earned
    <3> QED
      BY <1>1, <1>4, <3>2 DEF InFlight, Earned, Latest
  <2> QED
    BY <2>1, <2>2
<1>10. ReportsSound'
  <2> SUFFICES ASSUME NEW b \in Agents PROVE ReportSound(b)'
    BY DEF ReportsSound
  <2>1. CASE b # a
    BY <1>4, <1>5, <2>1, ReportKept DEF ReportsSound
  <2>2. CASE b = a
    BY <1>1, <1>4, <1>8, <2>2 DEF ReportSound, call, CondemnedBy, Condemns, Latest
  <2> QED
    BY <2>1, <2>2
<1> QED
  BY <1>6, <1>7, <1>9, <1>10

\* The steps of a report that write nothing to the cluster: the call goes on
\* (next) or ends (next is Absent), and its mark stays or is taken back.
LEMMA CallStep ==
  ASSUME AgentInv, NEW a \in Agents, report[a] # Absent,
         NEW next \in Report \cup {Absent},
         UNCHANGED <<log, delivered, matcher>>,
         faults' \in 0..MaxFaults,
         report' = [report EXCEPT ![a] = next],
         \/ UNCHANGED reported
         \/ reported' = [reported EXCEPT ![a] = @ \ {<<report[a].policy, report[a].ip>>}],
         \/ next # Absent
         \/ <<report[a].policy, report[a].ip>> \notin reported'[a]
         \/ Earned(report[a].policy, report[a].ip),
         next # Absent /\ next.pc = "update" =>
           /\ At(next.policy, next.rv) # Absent
           /\ next.ip \notin At(next.policy, next.rv).ips
           /\ next.rv <= Latest(next.policy),
         next # Absent => next.policy = report[a].policy /\ next.ip = report[a].ip
  PROVE  AgentInv'
<1> USE DEF AgentInv
<1>1. /\ reported \in [Agents -> SUBSET (Names \X IPs)]
      /\ report \in [Agents -> Report \cup {Absent}]
      /\ StoreOK
  BY DEF TypeOK
<1>2. /\ reported' \in [Agents -> SUBSET (Names \X IPs)]
      /\ report' \in [Agents -> Report \cup {Absent}]
      /\ report'[a] = next
      /\ \A b \in Agents : b # a => report'[b] = report[b]
      /\ \A b \in Agents : reported'[b] \subseteq reported[b]
  BY <1>1
<1>3. OnlyGrows /\ StoreOK'
  BY <1>1, SameGrows DEF StoreOK, Latest
<1>4. TypeOK' /\ MatcherFaithful'
  BY <1>2, <1>3, TypesKept
<1>5. Justified'
  BY JustifiedSame
<1>6. MarksEarned'
  <2>1. ASSUME NEW p \in Names, NEW ip \in IPs, InFlight(a, p, ip), <<p, ip>> \in reported'[a]
        PROVE  InFlight(a, p, ip)' \/ Earned(p, ip)
    BY <1>2, <2>1 DEF InFlight
  <2> QED
    BY <1>2, <1>3, <2>1, MarksKept
<1>7. ReportsSound'
  <2> SUFFICES ASSUME NEW b \in Agents PROVE ReportSound(b)'
    BY DEF ReportsSound
  <2>1. CASE b # a
    BY <1>2, <1>3, <2>1, ReportKept DEF ReportsSound
  <2>2. CASE b = a
    BY <1>2, <2>2 DEF ReportsSound, ReportSound, CondemnedBy, Condemns, Latest, At
  <2> QED
    BY <2>1, <2>2
<1> QED
  BY <1>4, <1>5, <1>6, <1>7
LEMMA GetKeeps ==
  ASSUME AgentInv, NEW a \in Agents, GetPolicy(a)
  PROVE  AgentInv'
<1> DEFINE p    == report[a].policy
           ip   == report[a].ip
           next == IF ~Exists(p) \/ ip \in Current(p).ips THEN Absent
                   ELSE [report[a] EXCEPT !.pc = "update", !.rv = Latest(p)]
<1>1. /\ report[a] \in Report /\ p \in Names /\ ip \in IPs /\ Latest(p) \in Nat
      /\ report[a] # Absent /\ StoreOK
      /\ CondemnedBy(p, Latest(p), ip)
      /\ faults' \in 0..MaxFaults
  BY ReportType DEF GetPolicy, AgentInv, ReportsSound, ReportSound, TypeOK
<1>2. next \in Report \cup {Absent}
  BY <1>1 DEF Report
<1>3. report' = [report EXCEPT ![a] = next] /\ UNCHANGED <<log, delivered, matcher, reported, faults>>
  BY <1>1 DEF GetPolicy, Finish, AgentInv, TypeOK
<1>4. Latest(p) \in 1..Latest(p)
  BY <1>1 DEF CondemnedBy
<1>5. Current(p) = log[p][Latest(p)]
  BY <1>4 DEF Current, At
<1>6. CASE ~Exists(p) \/ ip \in Current(p).ips
  <2>1. Earned(p, ip)
    BY <1>4, <1>5, <1>6 DEF Earned, Exists
  <2> QED
    BY <1>1, <1>2, <1>3, <1>6, <2>1, CallStep
<1>7. CASE ~(~Exists(p) \/ ip \in Current(p).ips)
  <2>1. /\ next # Absent /\ next.policy = p /\ next.ip = ip /\ next.rv = Latest(p)
    BY <1>1, <1>7, NoReportAssumption DEF Report
  <2>2. At(p, Latest(p)) # Absent /\ ip \notin At(p, Latest(p)).ips
    BY <1>7 DEF Exists, Current
  <2>3. PICK call \in Report : call = next
    BY <1>2, <2>1
  <2>4. report' = [report EXCEPT ![a] = call]
    BY <1>3, <2>3
  <2> HIDE DEF next
  <2>5. call # Absent /\ call.policy = p /\ call.ip = ip /\ call.rv = Latest(p)
    BY <2>1, <2>3
  <2>6. /\ At(call.policy, call.rv) # Absent
        /\ call.ip \notin At(call.policy, call.rv).ips
        /\ call.rv <= Latest(call.policy)
    BY <1>1, <2>2, <2>5
  <2>7. UNCHANGED <<log, delivered, matcher>> /\ UNCHANGED reported
    BY <1>3
  <2> HIDE DEF p, ip
  <2> QED
    BY <1>1, <2>4, <2>5, <2>6, <2>7, CallStep DEF p, ip
<1> QED
  BY <1>6, <1>7

\* A refused update is tried again, or given up with its mark.
LEMMA ConflictsKeep ==
  ASSUME AgentInv, NEW a \in Agents, UpdateConflicts(a)
  PROVE  AgentInv'
<1>1. /\ report[a] \in Report /\ report[a].tries \in 1..MaxTries /\ report[a] # Absent
      /\ faults' \in 0..MaxFaults /\ reported \in [Agents -> SUBSET (Names \X IPs)]
  BY ReportType DEF UpdateConflicts, AgentInv, TypeOK
<1>2. CASE report[a].tries < MaxTries
  <2> DEFINE next == [report[a] EXCEPT !.pc = "get", !.tries = @ + 1]
  <2>1. next \in Report /\ next.pc = "get" /\ next.policy = report[a].policy /\ next.ip = report[a].ip
    <3>1. PICK call \in Report : call = report[a]
      BY <1>1
    <3>2. call.tries \in 1..MaxTries /\ call.tries < MaxTries
      BY <1>1, <1>2, <3>1
    <3>3. call.tries + 1 \in 1..MaxTries
      BY <3>2, MaxTriesAssumption
    <3>4. next = [pc |-> "get", policy |-> call.policy, ip |-> call.ip, rv |-> call.rv,
                  tries |-> call.tries + 1]
      <4>1. next = [[call EXCEPT !.pc = "get"] EXCEPT !.tries = call.tries + 1]
        BY <3>1
      <4>2. call = [pc |-> call.pc, policy |-> call.policy, ip |-> call.ip, rv |-> call.rv,
                    tries |-> call.tries]
        BY DEF Report
      <4> HIDE DEF next
      <4> QED
        BY <4>1, <4>2
    <3>5. call.policy \in Names /\ call.ip \in IPs /\ call.rv \in Nat
      BY DEF Report
    <3> QED
      BY <3>1, <3>3, <3>4, <3>5 DEF Report
  <2>2. report' = [report EXCEPT ![a] = next] /\ UNCHANGED <<log, delivered, matcher, reported>>
    <3>1. /\ report' = [report EXCEPT ![a].pc = "get", ![a].tries = @ + 1]
          /\ UNCHANGED <<log, delivered, matcher, reported>>
      BY <1>2 DEF UpdateConflicts
    <3>2. report \in [Agents -> Report \cup {Absent}]
      BY DEF AgentInv, TypeOK
    <3> QED
      BY <1>1, <3>1, <3>2 DEF Report
  <2>3. next # Absent
    BY <2>1, NoReportAssumption
  <2> HIDE DEF next
  <2> QED
    BY <1>1, <2>1, <2>2, <2>3, CallStep
<1>3. CASE ~(report[a].tries < MaxTries)
  <2>1. <<report[a].policy, report[a].ip>> \notin reported'[a]
    BY <1>1, <1>3 DEF UpdateConflicts, Rollback
  <2> QED
    BY <1>1, <1>3, <2>1, CallStep DEF UpdateConflicts, Finish, Rollback
<1> QED
  BY <1>2, <1>3

LEMMA NotFoundKeeps ==
  ASSUME AgentInv, NEW a \in Agents, UpdateNotFound(a)
  PROVE  AgentInv'
<1> DEFINE p == report[a].policy
<1>1. /\ report[a] # Absent /\ faults' \in 0..MaxFaults /\ Latest(p) \in Nat
      /\ CondemnedBy(p, Latest(p), report[a].ip)
  BY ReportType DEF UpdateNotFound, AgentInv, TypeOK, ReportsSound, ReportSound
<1>2. Latest(p) \in 1..Latest(p)
  BY <1>1 DEF CondemnedBy
<1>3. log[p][Latest(p)] = Absent
  BY <1>2 DEF UpdateNotFound, Exists, Current, At
<1>4. Earned(p, report[a].ip)
  BY <1>2, <1>3 DEF Earned
<1> QED
  BY <1>1, <1>4, CallStep DEF UpdateNotFound, Finish

\* A report that fails takes its mark back.
LEMMA FailuresKeep ==
  ASSUME AgentInv, NEW a \in Agents, UpdateTooLarge(a) \/ ApiError(a)
  PROVE  AgentInv'
<1>1. /\ report[a] # Absent /\ Finish(a) /\ Rollback(a) /\ UNCHANGED <<log, delivered, matcher>>
  BY DEF UpdateTooLarge, ApiError
<1>2. faults' \in 0..MaxFaults
  BY FaultCounted DEF UpdateTooLarge, ApiError, AgentInv, TypeOK
<1>3. <<report[a].policy, report[a].ip>> \notin reported'[a]
  BY <1>1 DEF Rollback, AgentInv, TypeOK
<1> QED
  BY <1>1, <1>2, <1>3, CallStep DEF Finish, Rollback

-----------------------------------------------------------------------------
(* Writes to the policies *)

\* What an update that is accepted writes.
LEMMA AppendedFits ==
  ASSUME AgentInv, NEW a \in Agents, report[a] # Absent, report[a].pc = "update",
         report[a].rv = Latest(report[a].policy)
  PROVE  /\ Exists(report[a].policy)
         /\ report[a].ip \notin Current(report[a].policy).ips
         /\ Appended(a) = [Current(report[a].policy) EXCEPT !.ips = @ \cup {report[a].ip}]
         /\ Appended(a) \in Version
         /\ Appended(a).ips = Current(report[a].policy).ips \cup {report[a].ip}
         /\ Appended(a).spec = Current(report[a].policy).spec
         /\ Fits(report[a].policy, Appended(a))
<1> DEFINE p == report[a].policy
<1>1. /\ p \in Names /\ report[a].ip \in IPs /\ StoreOK
      /\ At(p, Latest(p)) # Absent /\ report[a].ip \notin At(p, Latest(p)).ips
  BY ReportType DEF AgentInv, TypeOK, ReportsSound, ReportSound
<1>2. /\ Exists(p) /\ report[a].ip \notin Current(p).ips
      /\ Appended(a) = [Current(p) EXCEPT !.ips = @ \cup {report[a].ip}]
  BY <1>1 DEF Exists, Current, Appended
<1>3. /\ Current(p) \in Version /\ Current(p).uid \in 1..Latest(p) /\ Latest(p) \in Nat
  BY <1>1, <1>2, CurrentVersion
<1>4. /\ Appended(a) \in Version /\ Appended(a).uid = Current(p).uid
      /\ Appended(a).ips = Current(p).ips \cup {report[a].ip}
      /\ Appended(a).spec = Current(p).spec
  BY <1>1, <1>2, <1>3 DEF Version
<1> QED
  BY <1>2, <1>3, <1>4 DEF Fits

LEMMA UpdateKeeps ==
  ASSUME AgentInv, NEW a \in Agents, UpdateStatus(a) \/ ReplyLost(a)
  PROVE  AgentInv'
<1> USE DEF AgentInv
<1>0. PICK p \in Names, ip \in IPs : p = report[a].policy /\ ip = report[a].ip
  BY ReportType DEF UpdateStatus, ReplyLost
<1>1. /\ report[a] # Absent /\ report[a].pc = "update" /\ report[a].rv = Latest(p)
      /\ Put(p, Appended(a)) /\ Finish(a)
      /\ UNCHANGED reported \/ Rollback(a)
      /\ UNCHANGED <<delivered, matcher>>
      /\ faults' \in 0..MaxFaults
  BY <1>0, FaultCounted DEF UpdateStatus, ReplyLost, TypeOK
<1>2. /\ StoreOK /\ Latest(p) \in Nat
      /\ CondemnedBy(p, Latest(p), ip)
      /\ reported \in [Agents -> SUBSET (Names \X IPs)]
      /\ report \in [Agents -> Report \cup {Absent}]
  BY <1>0, <1>1, ReportType DEF TypeOK, ReportsSound, ReportSound
<1>3. /\ Fits(p, Appended(a)) /\ Exists(p)
      /\ Appended(a).ips = Current(p).ips \cup {ip}
      /\ Appended(a) \in Version
  BY <1>0, <1>1, AppendedFits
<1>4. OnlyGrows /\ StoreOK'
  BY <1>1, <1>2, <1>3, PutGrows, PutAppends
<1>5. /\ reported' \in [Agents -> SUBSET (Names \X IPs)]
      /\ report' \in [Agents -> Report \cup {Absent}]
      /\ report'[a] = Absent
      /\ \A b \in Agents : b # a => report'[b] = report[b]
      /\ \A b \in Agents : reported'[b] \subseteq reported[b]
  BY <1>1, <1>2 DEF Finish, Rollback
<1>6. TypeOK' /\ MatcherFaithful'
  BY <1>1, <1>4, <1>5, TypesKept
<1>7. Justified'
  <2> SUFFICES ASSUME NEW x \in Current(p).ips PROVE CondemnedBy(p, Latest(p), x)
    BY <1>1, <1>2, <1>3, JustifiedKept
  <2>1. Current(p) = log[p][Latest(p)] /\ Latest(p) \in 1..Latest(p)
    BY <1>2, <1>3, CurrentVersion
  <2> QED
    BY <1>2, <1>3, <2>1 DEF Justified, Exists
<1>8. Earned(p, ip)'
  <2>1. /\ Latest(p)' = Latest(p) + 1 /\ log'[p][Latest(p) + 1] = Appended(a)
    BY <1>1, <1>2, <1>3, PutAppends
  <2>2. ip \in log'[p][Latest(p)'].ips /\ Latest(p)' \in 1..Latest(p)'
    BY <1>2, <1>3, <2>1
  <2> QED
    BY <2>2 DEF Earned
<1>9. MarksEarned'
  <2>1. ASSUME NEW q \in Names, NEW x \in IPs, InFlight(a, q, x)
        PROVE  Earned(q, x)'
    BY <1>0, <1>8, <2>1 DEF InFlight
  <2> QED
    BY <1>4, <1>5, <2>1, MarksKept
<1>10. ReportsSound'
  <2> SUFFICES ASSUME NEW b \in Agents PROVE ReportSound(b)'
    BY DEF ReportsSound
  <2>1. CASE b # a
    BY <1>4, <1>5, <2>1, ReportKept DEF ReportsSound
  <2>2. CASE b = a
    BY <1>5, <2>2 DEF ReportSound
  <2> QED
    BY <2>1, <2>2
<1> QED
  BY <1>6, <1>7, <1>9, <1>10

\* A policy's writer other than an agent appends a version whose addresses are
\* condemned already, and leaves the agents' memory alone.
LEMMA OtherWriteKeeps ==
  ASSUME AgentInv, NEW p \in Names, NEW v, Fits(p, v), Put(p, v), UNCHANGED agentVars,
         v # Absent => \A ip \in v.ips : CondemnedBy(p, Latest(p), ip)
  PROVE  AgentInv'
<1>1. StoreOK /\ TypeOK /\ MatcherFaithful /\ Justified /\ MarksEarned /\ ReportsSound
  BY DEF AgentInv, TypeOK
<1>2. OnlyGrows /\ StoreOK'
  BY <1>1, PutGrows, PutAppends
<1>3. UNCHANGED <<delivered, matcher>> /\ reported' = reported /\ report' = report /\ faults' = faults
  BY DEF agentVars
<1>4. TypeOK' /\ MatcherFaithful'
  <2>1. /\ reported \in [Agents -> SUBSET (Names \X IPs)]
        /\ report \in [Agents -> Report \cup {Absent}]
        /\ faults \in 0..MaxFaults
    BY <1>1 DEF TypeOK
  <2> QED
    BY <1>1, <1>2, <1>3, <2>1, TypesKept
<1>5. Justified'
  BY <1>1, JustifiedKept
<1>6. MarksEarned'
  <2> SUFFICES ASSUME NEW b \in Agents, NEW mark \in reported[b]
               PROVE  InFlight(b, mark[1], mark[2])' \/ Earned(mark[1], mark[2])'
    BY <1>3 DEF MarksEarned, Earned
  <2>1. mark[1] \in Names
    BY <1>1 DEF TypeOK
  <2>2. InFlight(b, mark[1], mark[2]) \/ Earned(mark[1], mark[2])
    BY <1>1 DEF MarksEarned, Earned
  <2> QED
    BY <1>1, <1>2, <1>3, <2>1, <2>2, EarnedKept DEF InFlight
<1>7. ReportsSound'
  BY <1>1, <1>2, <1>3, ReportKept DEF ReportsSound
<1> QED
  BY <1>4, <1>5, <1>6, <1>7 DEF AgentInv

\* The addresses on a policy were condemned by one of its specs.
LEMMA ListedCondemned ==
  ASSUME AgentInv, NEW p \in Names, Exists(p), NEW ip \in Current(p).ips
  PROVE  CondemnedBy(p, Latest(p), ip)
<1>1. Current(p) = log[p][Latest(p)] /\ Latest(p) \in 1..Latest(p)
  BY CurrentVersion DEF AgentInv, TypeOK
<1> QED
  BY <1>1 DEF Justified, Exists, AgentInv

LEMMA MarkReadyKeeps ==
  ASSUME AgentInv, NEW p \in Names, MarkReady(p)
  PROVE  AgentInv'
<1> DEFINE v == [Current(p) EXCEPT !.ready = TRUE]
<1>1. Exists(p) /\ Put(p, v) /\ UNCHANGED agentVars
  BY DEF MarkReady
<1>2. Current(p) \in Version /\ Current(p).uid \in 1..Latest(p) /\ Latest(p) \in Nat
  BY <1>1, CurrentVersion DEF AgentInv, TypeOK
<1>3. Fits(p, v) /\ v.ips = Current(p).ips
  <2>1. v \in Version /\ v.uid = Current(p).uid /\ v.ips = Current(p).ips
    BY <1>2 DEF Version
  <2> QED
    BY <1>2, <2>1 DEF Fits
<1>4. \A ip \in v.ips : CondemnedBy(p, Latest(p), ip)
  BY <1>1, <1>3, ListedCondemned
<1> QED
  BY <1>1, <1>3, <1>4, OtherWriteKeeps

LEMMA UsersKeep ==
  ASSUME AgentInv, Users
  PROVE  AgentInv'
<1>1. StoreOK /\ UserStep /\ UNCHANGED agentVars
  BY DEF AgentInv, TypeOK, Users
<1>2. PICK p \in Names, v \in Version \cup {Absent} :
        /\ Put(p, v) /\ Fits(p, v)
        /\ v # Absent /\ v.ips # {} => Exists(p) /\ v.ips = Current(p).ips
  BY <1>1, UserAppends
<1>3. ASSUME v # Absent, NEW ip \in v.ips PROVE CondemnedBy(p, Latest(p), ip)
  BY <1>2, <1>3, ListedCondemned
<1> QED
  BY <1>1, <1>2, <1>3, OtherWriteKeeps

-----------------------------------------------------------------------------
(* The whole agent *)

LEMMA CrashKeeps ==
  ASSUME AgentInv, NEW a \in Agents, Crash(a)
  PROVE  AgentInv'
<1>1. /\ delivered' = [delivered EXCEPT ![a] = [p \in Names |-> 0]]
      /\ matcher' = [matcher EXCEPT ![a] = [p \in Names |-> Absent]]
      /\ reported' = [reported EXCEPT ![a] = {}]
      /\ report' = [report EXCEPT ![a] = Absent]
      /\ UNCHANGED log
  BY DEF Crash, Finish
<1>2. /\ StoreOK /\ \A p \in Names : Latest(p) \in Nat
      /\ delivered \in [Agents -> [Names -> Nat]]
      /\ matcher \in [Agents -> [Names -> Specs \cup {Absent}]]
      /\ reported \in [Agents -> SUBSET (Names \X IPs)]
      /\ report \in [Agents -> Report \cup {Absent}]
  BY LogTypes DEF AgentInv, TypeOK
<1>3. \A b \in Agents :
        \/ /\ b = a /\ reported'[b] = {} /\ report'[b] = Absent
           /\ \A p \in Names : delivered'[b][p] = 0 /\ matcher'[b][p] = Absent
        \/ /\ reported'[b] = reported[b] /\ report'[b] = report[b]
           /\ \A p \in Names : delivered'[b][p] = delivered[b][p]
                                 /\ matcher'[b][p] = matcher[b][p]
  BY <1>1, <1>2
<1>4. TypeOK'
  <2>1. \A b \in Agents, p \in Names : delivered'[b][p] <= Latest(p)'
    BY <1>1, <1>2, <1>3 DEF AgentInv, TypeOK, Latest
  <2>2. faults' \in 0..MaxFaults
    BY FaultCounted DEF Crash, AgentInv
  <2>3. StoreOK'
    BY <1>1, <1>2 DEF StoreOK, Latest
  <2>4. delivered' \in [Agents -> [Names -> Nat]]
    BY <1>1, <1>2
  <2>5. matcher' \in [Agents -> [Names -> Specs \cup {Absent}]]
    BY <1>1, <1>2
  <2>6. reported' \in [Agents -> SUBSET (Names \X IPs)]
    BY <1>1, <1>2
  <2>7. report' \in [Agents -> Report \cup {Absent}]
    BY <1>1, <1>2
  <2> QED
    BY <2>1, <2>2, <2>3, <2>4, <2>5, <2>6, <2>7 DEF TypeOK
<1>5. MatcherFaithful'
  BY <1>1, <1>3 DEF AgentInv, MatcherFaithful, At
<1>6. Justified'
  BY <1>1, JustifiedSame DEF AgentInv
<1>7. MarksEarned'
  BY <1>1, <1>3 DEF AgentInv, MarksEarned, InFlight, Latest
<1>8. ReportsSound'
  BY <1>1, <1>3 DEF AgentInv, ReportsSound, ReportSound, CondemnedBy, Condemns, Latest, At
<1> QED
  BY <1>4, <1>5, <1>6, <1>7, <1>8 DEF AgentInv

LEMMA AgentInit == Init => AgentInv
<1> SUFFICES ASSUME Init PROVE AgentInv
  OBVIOUS
<1>1. log = [p \in Names |-> << >>] /\ StoreOK
  BY StoreInitOK DEF Init, StoreInit
<1>2. \A p \in Names : Latest(p) = 0
  BY <1>1 DEF Latest
<1>3. TypeOK
  BY <1>1, <1>2, MaxFaultsAssumption DEF Init, TypeOK
<1> QED
  BY <1>2, <1>3 DEF Init, AgentInv, MatcherFaithful, Justified, MarksEarned, ReportsSound,
                    ReportSound, At

LEMMA AgentStepKeeps ==
  ASSUME AgentInv, NEW a \in Agents, AgentStep(a)
  PROVE  AgentInv'
  BY DeliverKeeps, HandleEventKeeps, GetKeeps, UpdateKeeps, ConflictsKeep, NotFoundKeeps,
     FailuresKeep, CrashKeeps
     DEF AgentStep

LEMMA AgentStutter ==
  ASSUME AgentInv, UNCHANGED vars
  PROVE  AgentInv'
  BY DEF vars, agentVars, AgentInv, TypeOK, StoreOK, MatcherFaithful, Justified, MarksEarned,
         InFlight, ReportsSound, ReportSound, CondemnedBy, Condemns, Latest, At

LEMMA AgentNext == AgentInv /\ [Next]_vars => AgentInv'
  BY AgentStepKeeps, MarkReadyKeeps, UsersKeep, AgentStutter DEF Next

LEMMA AgentInvariant == Spec => []AgentInv
  BY AgentInit, AgentNext, PTL DEF Spec

\* The agents' state stays well-formed: every version of every policy keeps a UID
\* of its own past, no agent has been handed a version that does not exist, and no
\* report is tried more often than retry.DefaultRetry allows.
THEOREM AgentTypes == Spec => []TypeOK
<1>1. AgentInv => TypeOK
  BY DEF AgentInv
<1> QED
  BY <1>1, AgentInvariant, PTL

\* No address is ever in status.discoveredViolatorIPs that no spec of that policy,
\* current or earlier, condemned: however stale the matcher that reported it,
\* whoever else wrote in between, and whatever was retried (reporter.go).
THEOREM ListedIsJustified == Spec => []Justified
<1>1. AgentInv => Justified
  BY DEF AgentInv
<1> QED
  BY <1>1, AgentInvariant, PTL

\* An agent that has marked an address as reported, and is not reporting it at the
\* moment, is right to stay silent: the address was listed, or the policy was gone
\* (reportedIPs, its rollback and the deletions that keep the mark).
THEOREM MarksAreEarned == Spec => []MarksEarned
<1>1. AgentInv => MarksEarned
  BY DEF AgentInv
<1> QED
  BY <1>1, AgentInvariant, PTL

-----------------------------------------------------------------------------
(* The ledger *)

\* The addresses that a version's spec condemns.
Judged(v) == {ip \in IPs : v # Absent /\ Condemns(v.spec, ip)}

\* What the ledger sees of a write: the new list, and what the new spec condemns.
LEMMA WriteSeen ==
  ASSUME StoreOK, NEW p \in Names, NEW v, Fits(p, v), Put(p, v)
  PROVE  /\ Ledger' = [Ledger EXCEPT ![p] = IF v = Absent THEN Absent ELSE v.ips]
         /\ Condemned' = Condemned \cup {<<p, ip>> : ip \in Judged(v)}
<1>1. /\ Latest(p) \in Nat /\ Latest(p)' = Latest(p) + 1
      /\ log'[p][Latest(p) + 1] = v
      /\ \A i \in 1..Latest(p) : log'[p][i] = log[p][i]
      /\ \A q \in Names : q # p => log'[q] = log[q]
  BY LogTypes, PutAppends
<1>2. Current(p)' = v
  BY <1>1 DEF Current, At
<1>3. \A q \in Names : q # p => Current(q)' = Current(q) /\ Latest(q)' = Latest(q)
  BY <1>1 DEF Current, At, Latest
<1>4. Ledger' = [Ledger EXCEPT ![p] = IF v = Absent THEN Absent ELSE v.ips]
  BY <1>2, <1>3 DEF Ledger, Exists
<1>5. ASSUME NEW q \in Names, NEW ip \in IPs
      PROVE  CondemnedBy(q, Latest(q), ip)' <=>
               CondemnedBy(q, Latest(q), ip) \/ (q = p /\ ip \in Judged(v))
  <2>1. CASE q # p
    BY <1>1, <1>3, <2>1 DEF CondemnedBy, Condemns
  <2>2. CASE q = p
    <3>1. 1..Latest(p)' = 1..Latest(p) \cup {Latest(p) + 1}
      BY <1>1
    <3> QED
      BY <1>1, <2>2, <3>1 DEF CondemnedBy, Condemns, Judged
  <2> QED
    BY <2>1, <2>2
<1>6. Condemned' = Condemned \cup {<<p, ip>> : ip \in Judged(v)}
  <2>1. \A pair \in Names \X IPs :
          pair \in Condemned' <=> pair \in Condemned \/ (pair[1] = p /\ pair[2] \in Judged(v))
    BY <1>5 DEF Condemned
  <2>2. \A pair : pair \in {<<p, ip>> : ip \in Judged(v)} <=>
                    pair \in Names \X IPs /\ pair[1] = p /\ pair[2] \in Judged(v)
    BY DEF Judged
  <2> QED
    BY <2>1, <2>2 DEF Condemned
<1> QED
  BY <1>4, <1>6

\* A version with the spec of the one before condemns nothing new.
LEMMA SameSpecSeen ==
  ASSUME StoreOK, NEW p \in Names, Exists(p), NEW v, v # Absent, v.spec = Current(p).spec
  PROVE  {<<p, ip>> : ip \in Judged(v)} \subseteq Condemned
<1>1. Latest(p) \in 1..Latest(p) /\ log[p][Latest(p)] = Current(p)
  BY CurrentVersion
<1> QED
  BY <1>1 DEF Judged, Condemned, CondemnedBy, Exists

LEMMA UnseenSteps ==
  ASSUME UNCHANGED log
  PROVE  UNCHANGED L!vars
  BY DEF L!vars, Ledger, Condemned, CondemnedBy, Condemns, Exists, Current, At, Latest

LEMMA ReportsSeen ==
  ASSUME AgentInv, NEW a \in Agents, UpdateStatus(a) \/ ReplyLost(a)
  PROVE  L!Next
<1>1. PICK p \in Names, ip \in IPs, v \in Version :
        p = report[a].policy /\ ip = report[a].ip /\ v = Appended(a)
  BY ReportType, AppendedFits DEF UpdateStatus, ReplyLost, AgentInv
<1>2. /\ Exists(p) /\ ip \notin Current(p).ips
      /\ v.ips = Current(p).ips \cup {ip} /\ v.spec = Current(p).spec
      /\ Fits(p, v) /\ Put(p, v) /\ CondemnedBy(p, Latest(p), ip)
      /\ StoreOK /\ v # Absent
  BY <1>1, AppendedFits, NoVersionAssumption
     DEF UpdateStatus, ReplyLost, AgentInv, TypeOK, ReportsSound, ReportSound
<1>3. /\ Ledger' = [Ledger EXCEPT ![p] = v.ips]
      /\ Condemned' = Condemned \cup {<<p, x>> : x \in Judged(v)}
  BY <1>2, WriteSeen
<1>4. Condemned' = Condemned
  BY <1>2, <1>3, SameSpecSeen
<1>5. Current(p) \in Version
  BY <1>2, CurrentVersion
<1>6. Ledger[p] = Current(p).ips /\ Ledger[p] # Absent /\ <<p, ip>> \in Condemned
  BY <1>2, <1>5, NoVersionAssumption DEF Ledger, Condemned, Version
<1>7. L!Report(p, ip)
  BY <1>2, <1>3, <1>4, <1>6 DEF L!Report
<1> QED
  BY <1>7 DEF L!Next

\* Setting the Ready condition is invisible.
LEMMA ReadyUnseen ==
  ASSUME AgentInv, NEW p \in Names, MarkReady(p)
  PROVE  UNCHANGED L!vars
<1> DEFINE v == [Current(p) EXCEPT !.ready = TRUE]
<1>1. StoreOK /\ Exists(p) /\ Put(p, v)
  BY DEF MarkReady, AgentInv, TypeOK
<1>2. Current(p) \in Version /\ Current(p).uid \in 1..Latest(p) /\ Latest(p) \in Nat
  BY <1>1, CurrentVersion
<1>3. v \in Version /\ v # Absent /\ v.uid = Current(p).uid /\ v.ips = Current(p).ips
      /\ v.spec = Current(p).spec
  BY <1>2, NoVersionAssumption DEF Version
<1>4. Fits(p, v)
  BY <1>2, <1>3 DEF Fits
<1> HIDE DEF v
<1>5. Ledger' = [Ledger EXCEPT ![p] = v.ips] /\ Condemned' = Condemned
  BY <1>1, <1>3, <1>4, WriteSeen, SameSpecSeen
<1>6. Ledger' = Ledger
  BY <1>1, <1>3, <1>5 DEF Ledger
<1> QED
  BY <1>5, <1>6 DEF L!vars

LEMMA UsersSeen ==
  ASSUME StoreOK, UserStep
  PROVE  L!Next
<1>1. PICK p \in Names :
        \/ \E spec \in Specs : CreatePolicy(p, spec) \/ EditPolicy(p, spec)
        \/ DeletePolicy(p)
        \/ ClearAddresses(p)
  BY DEF UserStep
<1>0. Latest(p) \in Nat
  BY LogTypes
<1>2. Latest(p) \in Nat /\ Absent \notin Version /\ \A S \in SUBSET IPs : S # Absent
  BY LogTypes, NoVersionAssumption
<1>3. /\ ~Exists(p) => Ledger[p] = Absent
      /\ Exists(p) => Ledger[p] = Current(p).ips /\ Ledger[p] # Absent
  BY <1>2, CurrentVersion DEF Ledger, Version
<1>4. ASSUME NEW spec \in Specs, CreatePolicy(p, spec) PROVE L!Next
  <2> DEFINE v == [uid |-> Latest(p) + 1, spec |-> spec, ips |-> {}, ready |-> FALSE]
  <2>1. v \in Version /\ Fits(p, v) /\ v # Absent /\ v.ips = {}
    <3>1. v \in Version /\ v.uid \in 1..Latest(p) + 1
      BY <1>0 DEF Version
    <3>2. v.ips = {}
      OBVIOUS
    <3> QED
      BY <1>2, <3>1, <3>2 DEF Fits
  <2>2. Put(p, v) /\ ~Exists(p)
    BY <1>4 DEF CreatePolicy
  <2> HIDE DEF v
  <2>3. /\ Ledger' = [Ledger EXCEPT ![p] = {}]
        /\ Condemned' = Condemned \cup {<<p, ip>> : ip \in Judged(v)}
    BY <2>1, <2>2, WriteSeen
  <2>4. L!Publish(p, Judged(v)) /\ Judged(v) \in SUBSET IPs
    BY <1>3, <2>2, <2>3 DEF L!Publish, L!Judge, Judged
  <2> QED
    BY <2>4 DEF L!Next
<1>5. ASSUME NEW spec \in Specs, EditPolicy(p, spec) PROVE L!Next
  <2> DEFINE v == [Current(p) EXCEPT !.spec = spec]
  <2>1. Current(p) \in Version /\ Current(p).uid \in 1..Latest(p) /\ Exists(p) /\ Put(p, v)
    BY <1>5, CurrentVersion DEF EditPolicy
  <2>2. v \in Version /\ v # Absent /\ v.ips = Current(p).ips /\ v.uid = Current(p).uid
    BY <1>2, <2>1 DEF Version
  <2>3. Fits(p, v)
    BY <1>2, <2>1, <2>2 DEF Fits
  <2> HIDE DEF v
  <2>4. /\ Ledger' = [Ledger EXCEPT ![p] = Current(p).ips]
        /\ Condemned' = Condemned \cup {<<p, ip>> : ip \in Judged(v)}
    BY <2>1, <2>2, <2>3, WriteSeen
  <2>5. Ledger' = Ledger
    BY <1>3, <2>1, <2>4 DEF Ledger
  <2>6. L!Revise(p, Judged(v)) /\ Judged(v) \in SUBSET IPs
    BY <1>3, <2>1, <2>4, <2>5 DEF L!Revise, L!Judge, Judged
  <2> QED
    BY <2>6 DEF L!Next
<1>6. CASE DeletePolicy(p)
  <2>1. Exists(p) /\ Put(p, Absent) /\ Fits(p, Absent) /\ Judged(Absent) = {}
    BY <1>6 DEF DeletePolicy, Fits, Judged
  <2>2. Ledger' = [Ledger EXCEPT ![p] = Absent] /\ Condemned' = Condemned
    BY <2>1, WriteSeen
  <2> QED
    BY <1>3, <2>1, <2>2 DEF L!Next, L!Withdraw
<1>7. CASE ClearAddresses(p)
  <2> DEFINE v == [Current(p) EXCEPT !.ips = {}]
  <2>1. Current(p) \in Version /\ Current(p).uid \in 1..Latest(p) /\ Exists(p) /\ Put(p, v)
    BY <1>7, CurrentVersion DEF ClearAddresses
  <2>2. v \in Version /\ v # Absent /\ v.ips = {} /\ v.uid = Current(p).uid
        /\ v.spec = Current(p).spec
    BY <1>2, <2>1 DEF Version
  <2>3. Fits(p, v)
    BY <1>2, <2>1, <2>2 DEF Fits
  <2> HIDE DEF v
  <2>4. Ledger' = [Ledger EXCEPT ![p] = {}] /\ Condemned' = Condemned
    BY <2>1, <2>2, <2>3, WriteSeen, SameSpecSeen
  <2> QED
    BY <1>3, <2>1, <2>4 DEF L!Next, L!Clear
<1> QED
  BY <1>1, <1>4, <1>5, <1>6, <1>7

LEMMA AgentsSeen == AgentInv /\ [Next]_vars => [L!Next]_L!vars
<1> SUFFICES ASSUME AgentInv, [Next]_vars PROVE [L!Next]_L!vars
  OBVIOUS
<1>1. StoreOK
  BY DEF AgentInv, TypeOK
<1>2. ASSUME NEW a \in Agents, AgentStep(a), ~(UpdateStatus(a) \/ ReplyLost(a))
      PROVE  UNCHANGED log
  BY <1>2 DEF AgentStep, DeliverPolicy, HandleEvent, GetPolicy, UpdateConflicts, UpdateNotFound,
              UpdateTooLarge, ApiError, Crash
<1>3. ASSUME NEW a \in Agents, AgentStep(a) PROVE [L!Next]_L!vars
  BY <1>2, <1>3, UnseenSteps, ReportsSeen
<1>4. CASE \E p \in Names : MarkReady(p)
  BY <1>4, ReadyUnseen
<1>5. CASE Users
  BY <1>1, <1>5, UsersSeen DEF Users
<1>6. CASE UNCHANGED vars
  BY <1>6, UnseenSteps DEF vars
<1> QED
  BY <1>3, <1>4, <1>5, <1>6 DEF Next

\* The agents together implement the ledger: seen through the list of addresses of
\* each policy, their retried read-modify-writes, the controller's status writes
\* and the users' edits are atomic steps, none of which drops an address that
\* another writer has added (reporter.go, status().Update and its conflicts).
THEOREM AgentsImplementLedger == Spec => ImplementsLedger
<1>1. Init => L!Init
  <2> SUFFICES ASSUME Init PROVE L!Init
    OBVIOUS
  <2>1. \A p \in Names : Latest(p) = 0
    BY DEF Init, StoreInit, Latest
  <2> QED
    BY <2>1 DEF L!Init, Ledger, Condemned, CondemnedBy, Exists, Current, At
<1> QED
  BY <1>1, AgentsSeen, AgentInvariant, PTL DEF Spec, ImplementsLedger, L!Spec
=============================================================================
