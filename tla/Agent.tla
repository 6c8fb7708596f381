-------------------------------- MODULE Agent --------------------------------
(***************************************************************************)
(* The node agents (cmd/agent/main.go): each keeps a Matcher fed by its    *)
(* informer (internal/k8s/watcher.go), judges connection events one by one *)
(* (internal/policy/evaluator.go) and reports the violators of blocking    *)
(* policies into status.discoveredViolatorIPs (internal/policy/reporter.go)*)
(* by a read-modify-write that the API server refuses when the policy has  *)
(* changed in between.  Users and the policy controller write to the same  *)
(* objects at any moment, API calls fail, and agents crash and restart.    *)
(***************************************************************************)
EXTENDS PolicyStore

CONSTANTS
  Agents,
  MaxTries,    \* retry.DefaultRetry.Steps
  MaxListed,   \* addresses beyond which the object may be too large to store
  MaxFaults    \* crashes and failed API calls that may still come

ASSUME MaxTriesAssumption  == MaxTries \in Nat \ {0}
ASSUME MaxListedAssumption == MaxListed \in Nat
ASSUME MaxFaultsAssumption == MaxFaults \in Nat

VARIABLES
  delivered,   \* per agent and policy: the version the informer last handed on
  matcher,     \* per agent: Matcher.policies
  reported,    \* per agent: PolicyReporter.reportedIPs
  report,      \* per agent: the ReportViolator call in progress, or Absent
  faults       \* faults so far

agentVars == <<delivered, matcher, reported, report, faults>>
vars      == <<log, agentVars>>

Report ==
  [pc : {"get", "update"}, policy : Names, ip : IPs, rv : Nat, tries : 1..MaxTries]

ASSUME NoReportAssumption == Absent \notin Report

Init ==
  /\ StoreInit
  /\ delivered = [a \in Agents |-> [p \in Names |-> 0]]
  /\ matcher = [a \in Agents |-> [p \in Names |-> Absent]]
  /\ reported = [a \in Agents |-> {}]
  /\ report = [a \in Agents |-> Absent]
  /\ faults = 0
-----------------------------------------------------------------------------
(* The informer's goroutine *)

\* Faulty: the delete handler drops the tombstone of a missed deletion.
DeliverWithoutRemove(a, p) ==
  \E i \in delivered[a][p] + 1..Latest(p) :
    /\ delivered' = [delivered EXCEPT ![a][p] = i]
    /\ matcher' = IF log[p][i] = Absent THEN matcher
                  ELSE [matcher EXCEPT ![a][p] = log[p][i].spec]
    /\ UNCHANGED <<log, reported, report, faults>>

\* Add and Update upsert, Delete (also one seen only by a relist) removes.
\* Versions in between are skipped when the watch was down.
DeliverPolicy(a, p) ==
  \E i \in delivered[a][p] + 1..Latest(p) :
    /\ delivered' = [delivered EXCEPT ![a][p] = i]
    /\ matcher' = [matcher EXCEPT ![a][p] =
                     IF log[p][i] = Absent THEN Absent ELSE log[p][i].spec]
    /\ UNCHANGED <<log, reported, report, faults>>
-----------------------------------------------------------------------------
(* The main loop *)

\* Faulty: violators of policies that only log are reported too.
HandleEventUnfiltered(a, ns, ip) ==
  \E p \in Names :
    /\ report[a] = Absent
    /\ matcher[a][p] # Absent
    /\ Violates(matcher[a][p], ns, CountryOf[ip])
    /\ <<p, ip>> \notin reported[a]
    /\ reported' = [reported EXCEPT ![a] = @ \cup {<<p, ip>>}]
    /\ report' = [report EXCEPT ![a] =
                    [pc |-> "get", policy |-> p, ip |-> ip, rv |-> 0, tries |-> 1]]
    /\ UNCHANGED <<log, delivered, matcher, faults>>

\* Faulty: every destination of a covered workload is reported.
HandleEventUnjudged(a, ns, ip) ==
  \E p \in Names :
    /\ report[a] = Absent
    /\ matcher[a][p] # Absent
    /\ Covers(matcher[a][p], ns)
    /\ Blocks(matcher[a][p])
    /\ <<p, ip>> \notin reported[a]
    /\ reported' = [reported EXCEPT ![a] = @ \cup {<<p, ip>>}]
    /\ report' = [report EXCEPT ![a] =
                    [pc |-> "get", policy |-> p, ip |-> ip, rv |-> 0, tries |-> 1]]
    /\ UNCHANGED <<log, delivered, matcher, faults>>

\* A connection from ns to ip.  Of several violated policies the evaluator
\* names any one (Evaluator); a blocking one is reported unless this agent has
\* already marked the address.  Every other outcome changes no state.
HandleEvent(a, ns, ip) ==
  \E p \in Names :
    /\ report[a] = Absent
    /\ matcher[a][p] # Absent
    /\ Violates(matcher[a][p], ns, CountryOf[ip])
    /\ Blocks(matcher[a][p])
    /\ <<p, ip>> \notin reported[a]
    /\ reported' = [reported EXCEPT ![a] = @ \cup {<<p, ip>>}]
    /\ report' = [report EXCEPT ![a] =
                    [pc |-> "get", policy |-> p, ip |-> ip, rv |-> 0, tries |-> 1]]
    /\ UNCHANGED <<log, delivered, matcher, faults>>

Finish(a)   == report' = [report EXCEPT ![a] = Absent]
Rollback(a) == reported' = [reported EXCEPT ![a] = @ \ {<<report[a].policy, report[a].ip>>}]

\* The live read of ReportViolator: done if the policy is gone or another agent
\* was first, otherwise the append is computed from the version read.
GetPolicy(a) ==
  /\ report[a] # Absent
  /\ report[a].pc = "get"
  /\ LET p == report[a].policy
     IN  IF ~Exists(p) \/ report[a].ip \in Current(p).ips
         THEN Finish(a)
         ELSE report' = [report EXCEPT ![a].pc = "update", ![a].rv = Latest(p)]
  /\ UNCHANGED <<log, delivered, matcher, reported, faults>>

Appended(a) == [At(report[a].policy, report[a].rv) EXCEPT !.ips = @ \cup {report[a].ip}]

\* Faulty: the update carries no resourceVersion, the last writer wins.
UpdateUnchecked(a) ==
  /\ report[a] # Absent
  /\ report[a].pc = "update"
  /\ Exists(report[a].policy)
  /\ Put(report[a].policy, Appended(a))
  /\ Finish(a)
  /\ UNCHANGED <<delivered, matcher, reported, faults>>

\* Status().Update accepted.
UpdateStatus(a) ==
  /\ report[a] # Absent
  /\ report[a].pc = "update"
  /\ report[a].rv = Latest(report[a].policy)
  /\ Put(report[a].policy, Appended(a))
  /\ Finish(a)
  /\ UNCHANGED <<delivered, matcher, reported, faults>>

\* Faulty: one retry more than there are tries.
ConflictsOffByOne(a) ==
  /\ report[a] # Absent
  /\ report[a].pc = "update"
  /\ report[a].rv # Latest(report[a].policy)
  /\ IF report[a].tries <= MaxTries
     THEN /\ report' = [report EXCEPT ![a].pc = "get", ![a].tries = @ + 1]
          /\ UNCHANGED reported
     ELSE Finish(a) /\ Rollback(a)
  /\ UNCHANGED <<log, delivered, matcher, faults>>

\* Faulty: the mark survives the last conflict.
ConflictsKeepMark(a) ==
  /\ report[a] # Absent
  /\ report[a].pc = "update"
  /\ report[a].rv # Latest(report[a].policy)
  /\ report' = [report EXCEPT ![a] =
                  IF @.tries < MaxTries THEN [@ EXCEPT !.pc = "get", !.tries = @ + 1]
                  ELSE Absent]
  /\ UNCHANGED <<log, delivered, matcher, reported, faults>>

\* Status().Update refused: the policy has changed since it was read.  The
\* last conflict is returned as an error and the mark is taken back.
UpdateConflicts(a) ==
  /\ report[a] # Absent
  /\ report[a].pc = "update"
  /\ report[a].rv # Latest(report[a].policy)
  /\ IF report[a].tries < MaxTries
     THEN /\ report' = [report EXCEPT ![a].pc = "get", ![a].tries = @ + 1]
          /\ UNCHANGED reported
     ELSE Finish(a) /\ Rollback(a)
  /\ UNCHANGED <<log, delivered, matcher, faults>>

\* Status().Update of a policy deleted since: NotFound keeps the mark.
UpdateNotFound(a) ==
  /\ report[a] # Absent
  /\ report[a].pc = "update"
  /\ ~Exists(report[a].policy)
  /\ Finish(a)
  /\ UNCHANGED <<log, delivered, matcher, reported, faults>>

\* Status().Update of a list that has grown until the server refuses the object
\* for its size: an error like any other, so the mark is taken back.
UpdateTooLarge(a) ==
  /\ report[a] # Absent
  /\ report[a].pc = "update"
  /\ report[a].rv = Latest(report[a].policy)
  /\ Cardinality(Current(report[a].policy).ips) >= MaxListed
  /\ Finish(a)
  /\ Rollback(a)
  /\ UNCHANGED <<log, delivered, matcher, faults>>
-----------------------------------------------------------------------------
(* Faults *)

Fault == faults < MaxFaults /\ faults' = faults + 1

\* A get or an update fails for a reason of its own.
ApiError(a) ==
  /\ Fault
  /\ report[a] # Absent
  /\ Finish(a)
  /\ Rollback(a)
  /\ UNCHANGED <<log, delivered, matcher>>

\* The update was applied but its answer was lost.
ReplyLost(a) ==
  /\ Fault
  /\ report[a] # Absent
  /\ report[a].pc = "update"
  /\ report[a].rv = Latest(report[a].policy)
  /\ Put(report[a].policy, Appended(a))
  /\ Finish(a)
  /\ Rollback(a)
  /\ UNCHANGED <<delivered, matcher>>

\* The agent's memory is lost; its next informer lists from scratch.
Crash(a) ==
  /\ Fault
  /\ delivered' = [delivered EXCEPT ![a] = [p \in Names |-> 0]]
  /\ matcher' = [matcher EXCEPT ![a] = [p \in Names |-> Absent]]
  /\ reported' = [reported EXCEPT ![a] = {}]
  /\ Finish(a)
  /\ UNCHANGED log
-----------------------------------------------------------------------------
(* The other writers of the same objects *)

\* The policy controller sets the Ready condition (PolicyController).
MarkReady(p) ==
  /\ Exists(p)
  /\ ~Current(p).ready
  /\ Put(p, [Current(p) EXCEPT !.ready = TRUE])
  /\ UNCHANGED agentVars

Users == UserStep /\ UNCHANGED agentVars

AgentStep(a) ==
  \/ \E p \in Names : DeliverPolicy(a, p)
  \/ \E ns \in Namespaces, ip \in IPs : HandleEvent(a, ns, ip)
  \/ GetPolicy(a)
  \/ UpdateStatus(a)
  \/ UpdateConflicts(a)
  \/ UpdateNotFound(a)
  \/ UpdateTooLarge(a)
  \/ ApiError(a)
  \/ ReplyLost(a)
  \/ Crash(a)

Next ==
  \/ \E a \in Agents : AgentStep(a)
  \/ \E p \in Names : MarkReady(p)
  \/ Users

Spec == Init /\ [][Next]_vars

\* The informer and the main loop run, and each connection keeps recurring on
\* every node.
Fairness ==
  \A a \in Agents :
    /\ \A p \in Names : WF_vars(DeliverPolicy(a, p))
    /\ \A ip \in IPs : WF_vars(\E ns \in Namespaces : HandleEvent(a, ns, ip))
    /\ WF_vars(GetPolicy(a) \/ UpdateStatus(a) \/ UpdateConflicts(a))

FairSpec == Spec /\ Fairness
-----------------------------------------------------------------------------
TypeOK ==
  /\ StoreOK
  /\ delivered \in [Agents -> [Names -> Nat]]
  /\ \A a \in Agents, p \in Names : delivered[a][p] <= Latest(p)
  /\ matcher \in [Agents -> [Names -> Specs \cup {Absent}]]
  /\ reported \in [Agents -> SUBSET (Names \X IPs)]
  /\ report \in [Agents -> Report \cup {Absent}]
  /\ faults \in 0..MaxFaults

\* No address is ever listed that no spec of that policy, current or earlier,
\* condemned: a stale matcher, a policy recreated under the name while a report
\* was on its way, or a retry cannot list a stranger.
Justified ==
  \A p \in Names : \A i \in 1..Latest(p) :
    log[p][i] # Absent => \A ip \in log[p][i].ips : CondemnedBy(p, i, ip)

InFlight(a, p, ip) ==
  report[a] # Absent /\ report[a].policy = p /\ report[a].ip = ip

\* A mark that no call in progress holds was earned: the address was listed at
\* some version, or the policy was gone at some version.
MarksEarned ==
  \A a \in Agents : \A mark \in reported[a] :
    \/ InFlight(a, mark[1], mark[2])
    \/ \E i \in 1..Latest(mark[1]) :
         \/ log[mark[1]][i] = Absent
         \/ mark[2] \in log[mark[1]][i].ips

\* The agents' retried read-modify-writes are atomic reports to one ledger.
Ledger    == [p \in Names |-> IF Exists(p) THEN Current(p).ips ELSE Absent]
Condemned == {pair \in Names \X IPs : CondemnedBy(pair[1], Latest(pair[1]), pair[2])}

L == INSTANCE ViolatorLedger WITH ledger <- Ledger, condemned <- Condemned

ImplementsLedger == L!Spec

\* Once users leave the policies alone, every matcher judges by the specs in the
\* store and by no policy that is gone, whatever its watch has skipped and
\* whatever a crash made it forget.
MatchersCatchUp ==
  \A a \in Agents, p \in Names :
    <>[](matcher[a][p] = IF Exists(p) THEN Current(p).spec ELSE Absent)

\* "If the policy was simply deleted, we don't need to roll back": whatever users
\* have done before they leave a policy alone, every violator it condemns is listed.
ViolatorsListed ==
  \A p \in Names, ip \in IPs :
    <>[](Exists(p) /\ Condemns(Current(p).spec, ip) => ip \in Current(p).ips)
=============================================================================
