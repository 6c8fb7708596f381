-------------------------- MODULE PolicyController --------------------------
(***************************************************************************)
(* internal/controller/sovereigntypolicy_controller.go: the reconciler     *)
(* that turns the addresses discovered for a policy into a Tetragon        *)
(* TracingPolicy, the kernel hook that blocks them.  It is woken by events *)
(* of SovereigntyPolicies only, reads them from a cache that lags, reads   *)
(* TracingPolicies live, and finishes with a status write that the server  *)
(* refuses when the policy has changed meanwhile.  Users and agents write  *)
(* to the policies at any moment; calls fail; the process restarts.        *)
(***************************************************************************)
EXTENDS PolicyStore

CONSTANTS
  FaultKinds   \* which of "error", "lost", "swallowed", "restart", "stray" occur

VARIABLES
  rule,      \* per policy: its TracingPolicy in the cluster, or Absent
  cached,    \* per policy: the version in the manager's cache
  queue,     \* names waiting in the workqueue
  task       \* the Reconcile call in progress, or Absent

ctrlVars == <<rule, cached, queue, task>>
vars     == <<log, ctrlVars>>

\* A TracingPolicy: the policy that owns it, its action and the addresses it
\* matches.  A hook without addresses would match every connection.
Rule == [owner : Nat, action : {"Sigkill", "Override"}, ips : (SUBSET IPs) \ {{}}]

ASSUME NoRuleAssumption == Absent \notin Rule

\* A Reconcile call: the next call it makes and the version its copy is from.
Task == [pc : {"read", "apply", "create", "update", "remove", "delete", "status"},
         policy : Names, rv : Nat]

ASSUME NoTaskAssumption == Absent \notin Task

\* Faulty: a hook is built before any address is known.
DesiredRuleTooEarly(version) ==
  IF version = Absent \/ ~Blocks(version.spec) THEN Absent
  ELSE [owner |-> version.uid, action |-> KernelAction(version.spec), ips |-> version.ips]

\* buildTracingPolicy: no hook unless the spec blocks and an address is known.
DesiredRule(version) ==
  IF version = Absent \/ ~Blocks(version.spec) \/ version.ips = {} THEN Absent
  ELSE [owner |-> version.uid, action |-> KernelAction(version.spec), ips |-> version.ips]

Init ==
  /\ StoreInit
  /\ rule = [p \in Names |-> Absent]
  /\ cached = [p \in Names |-> 0]
  /\ queue = {}
  /\ task = Absent
-----------------------------------------------------------------------------
(* The manager: cache, event source and workqueue *)

\* Faulty: only spec changes are worth an event, as with a generation predicate.
CacheFiltersStatus(p) ==
  \E i \in cached[p] + 1..Latest(p) :
    /\ cached' = [cached EXCEPT ![p] = i]
    /\ queue' = LET old == At(p, cached[p])
                IN  IF log[p][i] = Absent THEN queue
                    ELSE IF old = Absent THEN queue \cup {p}
                    ELSE IF old.spec = log[p][i].spec THEN queue
                    ELSE queue \cup {p}
    /\ UNCHANGED <<log, rule, task>>

\* The cache moves on to a later version.  An event goes to the queue unless
\* the object was and is unknown, when it came and went between two lists.
CacheAdvances(p) ==
  \E i \in cached[p] + 1..Latest(p) :
    /\ cached' = [cached EXCEPT ![p] = i]
    /\ queue' = IF At(p, cached[p]) = Absent /\ log[p][i] = Absent
                THEN queue ELSE queue \cup {p}
    /\ UNCHANGED <<log, rule, task>>

\* Every ten hours the cache hands all its objects to the queue again.
Resync(p) ==
  /\ At(p, cached[p]) # Absent
  /\ queue' = queue \cup {p}
  /\ UNCHANGED <<log, rule, cached, task>>

\* One worker; a name queued while it is being reconciled stays queued.
Dequeue(p) ==
  /\ task = Absent
  /\ p \in queue
  /\ queue' = queue \ {p}
  /\ task' = [pc |-> "read", policy |-> p, rv |-> 0]
  /\ UNCHANGED <<log, rule, cached>>
-----------------------------------------------------------------------------
(* Reconcile *)

Doing(pc) == task # Absent /\ task.pc = pc

Copy == At(task.policy, task.rv)

GoTo(pc) == task' = [task EXCEPT !.pc = pc]

\* Faulty: a failed reconcile is forgotten.
NoRetry == task' = Absent /\ UNCHANGED queue

Done  == task' = Absent /\ UNCHANGED queue
Retry == task' = Absent /\ queue' = queue \cup {task.policy}

\* Faulty: a policy that asks for no hook goes straight to its status.
ReadSkipsRemoval ==
  /\ Doing("read")
  /\ LET v == At(task.policy, cached[task.policy])
     IN  IF v = Absent THEN Done
         ELSE /\ task' = [task EXCEPT !.rv = cached[task.policy],
                                      !.pc = IF DesiredRule(v) # Absent
                                             THEN "apply" ELSE "status"]
              /\ UNCHANGED queue
  /\ UNCHANGED <<log, rule, cached>>

\* Faulty: a policy that is already Ready is not looked at again.
ReadSkipsReady ==
  /\ Doing("read")
  /\ LET v == At(task.policy, cached[task.policy])
     IN  IF v = Absent \/ v.ready THEN Done
         ELSE /\ task' = [task EXCEPT !.rv = cached[task.policy],
                                      !.pc = IF DesiredRule(v) # Absent
                                             THEN "apply" ELSE "remove"]
              /\ UNCHANGED queue
  /\ UNCHANGED <<log, rule, cached>>

\* The policy is read from the cache; a deleted one is left to the garbage
\* collector.
ReadPolicy ==
  /\ Doing("read")
  /\ LET v == At(task.policy, cached[task.policy])
     IN  IF v = Absent THEN Done
         ELSE /\ task' = [task EXCEPT !.rv = cached[task.policy],
                                      !.pc = IF DesiredRule(v) # Absent
                                             THEN "apply" ELSE "remove"]
              /\ UNCHANGED queue
  /\ UNCHANGED <<log, rule, cached>>

\* The live read that precedes a create or an update.
GetForApply ==
  /\ Doing("apply")
  /\ GoTo(IF rule[task.policy] = Absent THEN "create" ELSE "update")
  /\ UNCHANGED <<log, rule, cached, queue>>

InstallRule ==
  /\ rule' = [rule EXCEPT ![task.policy] = DesiredRule(Copy)]
  /\ UNCHANGED <<log, cached>>

\* Create succeeds when there is no rule yet, Update when there still is one:
\* nothing but this worker and the garbage collector writes rules.
Applicable ==
  \/ Doing("create") /\ rule[task.policy] = Absent
  \/ Doing("update") /\ rule[task.policy] # Absent

ApplyRule ==
  /\ Applicable
  /\ InstallRule
  /\ GoTo("status")
  /\ UNCHANGED queue

\* Faulty: a refused write is logged and passed over.
ApplyRefusalIgnored ==
  /\ Doing("create") \/ Doing("update")
  /\ ~Applicable
  /\ GoTo("status")
  /\ UNCHANGED <<log, rule, cached, queue>>

\* AlreadyExists, or NotFound since the garbage collector came first.
ApplyRefused ==
  /\ Doing("create") \/ Doing("update")
  /\ ~Applicable
  /\ Retry
  /\ UNCHANGED <<log, rule, cached>>

\* The live read that precedes a delete; without a rule there is nothing to do.
GetForRemove ==
  /\ Doing("remove")
  /\ GoTo(IF rule[task.policy] = Absent THEN "status" ELSE "delete")
  /\ UNCHANGED <<log, rule, cached, queue>>

\* Delete by name, whatever version; NotFound is returned as an error.
DeleteRule ==
  /\ Doing("delete")
  /\ IF rule[task.policy] # Absent
     THEN /\ rule' = [rule EXCEPT ![task.policy] = Absent]
          /\ GoTo("status")
          /\ UNCHANGED queue
     ELSE Retry /\ UNCHANGED rule
  /\ UNCHANGED <<log, cached>>

Fresh == task.rv = Latest(task.policy)

\* Faulty: the update carries no resourceVersion, the last writer wins.
WriteStatusUnchecked ==
  /\ Doing("status")
  /\ Exists(task.policy)
  /\ Put(task.policy, [Copy EXCEPT !.ready = TRUE])
  /\ Done
  /\ UNCHANGED <<rule, cached>>

\* Status().Update with the Ready condition; unchanged content is no new version.
WriteStatus ==
  /\ Doing("status")
  /\ Fresh
  /\ IF Copy.ready THEN UNCHANGED log
                   ELSE Put(task.policy, [Copy EXCEPT !.ready = TRUE])
  /\ Done
  /\ UNCHANGED <<rule, cached>>

\* The policy has changed or gone since the cache held the copy.
StatusConflicts ==
  /\ Doing("status")
  /\ ~Fresh
  /\ Retry
  /\ UNCHANGED <<log, rule, cached>>
-----------------------------------------------------------------------------
(* Faults *)

\* Any call but one fails and its error is returned, so the name is requeued.
ApiError ==
  /\ "error" \in FaultKinds
  /\ task # Absent
  /\ ~Doing("remove")
  /\ Retry
  /\ UNCHANGED <<log, rule, cached>>

\* The exception: an error of the live read that precedes a delete is dropped.
ErrorSwallowed ==
  /\ "swallowed" \in FaultKinds
  /\ Doing("remove")
  /\ GoTo("status")
  /\ UNCHANGED <<log, rule, cached, queue>>

\* A write to the cluster took effect but its answer was lost.
ReplyLost ==
  /\ "lost" \in FaultKinds
  /\ \/ Applicable /\ InstallRule
     \/ /\ Doing("delete")
        /\ rule' = [rule EXCEPT ![task.policy] = Absent]
        /\ UNCHANGED <<log, cached>>
     \/ /\ Doing("status") /\ Fresh /\ ~Copy.ready
        /\ Put(task.policy, [Copy EXCEPT !.ready = TRUE])
        /\ UNCHANGED <<rule, cached>>
  /\ Retry

\* The controller's process is replaced; rules stay in the cluster.
Restart ==
  /\ "restart" \in FaultKinds
  /\ cached' = [p \in Names |-> 0]
  /\ queue' = {}
  /\ task' = Absent
  /\ UNCHANGED <<log, rule>>

\* Somebody deletes a TracingPolicy by hand; no watch tells the controller.
StrayDelete(p) ==
  /\ "stray" \in FaultKinds
  /\ rule[p] # Absent
  /\ rule' = [rule EXCEPT ![p] = Absent]
  /\ UNCHANGED <<log, cached, queue, task>>
-----------------------------------------------------------------------------
(* The rest of the cluster *)

\* The garbage collector removes a rule whose owner is gone.
Orphaned(p) == rule[p] # Absent /\ (Exists(p) => Current(p).uid # rule[p].owner)

CollectGarbage(p) ==
  /\ Orphaned(p)
  /\ rule' = [rule EXCEPT ![p] = Absent]
  /\ UNCHANGED <<log, cached, queue, task>>

\* An agent lists an address that some version of the policy condemned (Agent).
AgentReports(p, ip) ==
  /\ Exists(p)
  /\ CondemnedBy(p, Latest(p), ip)
  /\ ip \notin Current(p).ips
  /\ Put(p, [Current(p) EXCEPT !.ips = @ \cup {ip}])
  /\ UNCHANGED ctrlVars

Users == UserStep /\ UNCHANGED ctrlVars

Reconcile ==
  \/ ReadPolicy
  \/ GetForApply \/ ApplyRule \/ ApplyRefused
  \/ GetForRemove \/ DeleteRule
  \/ WriteStatus \/ StatusConflicts

CallFails == ApiError \/ ReplyLost

Faults == CallFails \/ Restart

ControllerStep ==
  \/ \E p \in Names : CacheAdvances(p) \/ Resync(p) \/ Dequeue(p)
  \/ Reconcile
  \/ Faults

\* What the program has an answer to.
Foreseen ==
  \/ ControllerStep
  \/ \E p \in Names : CollectGarbage(p)
  \/ \E p \in Names, ip \in IPs : AgentReports(p, ip)
  \/ Users

\* What nothing in the program notices before the next event or resync.
Unnoticed == ErrorSwallowed \/ \E p \in Names : StrayDelete(p)

Next == Foreseen \/ Unnoticed

Spec == Init /\ [][Next]_vars

\* The watch delivers, the garbage collector collects, the worker takes each
\* name in turn, and no call fails every time it is retried.
Fairness ==
  /\ \A p \in Names :
       /\ WF_vars(CacheAdvances(p))
       /\ WF_vars(CollectGarbage(p))
       /\ SF_vars(Dequeue(p))
  /\ WF_vars(Reconcile)
  /\ SF_vars(ReadPolicy)
  /\ SF_vars(GetForApply) /\ SF_vars(ApplyRule)
  /\ SF_vars(DeleteRule)
  /\ SF_vars(WriteStatus)

\* Nor is the process replaced for ever, and nothing happens that goes unnoticed.
FairSpec == Init /\ [][Foreseen]_vars /\ Fairness /\ <>[][~Restart]_vars

\* The ten-hour resync, and a read before a delete that does not fail every time.
Repairing ==
  /\ \A p \in Names : WF_vars(Resync(p))
  /\ SF_vars(GetForRemove)
-----------------------------------------------------------------------------
TypeOK ==
  /\ StoreOK
  /\ rule \in [Names -> Rule \cup {Absent}]
  /\ cached \in [Names -> Nat]
  /\ \A p \in Names : cached[p] <= Latest(p)
  /\ queue \in SUBSET Names
  /\ task \in Task \cup {Absent}
  /\ task # Absent => task.rv <= Latest(task.policy)

\* Nothing but the next resync will wake the controller for p.
Settled(p) ==
  /\ cached[p] = Latest(p)
  /\ p \notin queue
  /\ ~(task # Absent /\ task.policy = p)

\* Whenever the controller has come to rest on a live policy, the kernel hook
\* in the cluster is exactly the one the policy asks for: no event is lost, and
\* no stale copy has the last word.
BlocklistCurrent ==
  \A p \in Names :
    Settled(p) /\ Exists(p) /\ DesiredRule(Current(p)) # Absent =>
      rule[p] = DesiredRule(Current(p))

\* And when the policy asks for no hook there is none.
BlocklistRemoved ==
  \A p \in Names :
    Settled(p) /\ Exists(p) /\ DesiredRule(Current(p)) = Absent => rule[p] = Absent

\* The Ready condition is set only on a version whose hook is in the cluster at
\* that instant, so the condition is true when it is written.
ReadyMeansActive ==
  [][ \A p \in Names :
        Exists(p) /\ ~Current(p).ready /\ Exists(p)' /\ Current(p)'.ready
          => rule[p] = DesiredRule(Current(p)) ]_vars

\* Once users and agents leave the policies alone, the rules in the cluster
\* become, and stay, the ones the policies ask for; none outlives its policy.
Converges == \A p \in Names : <>[](rule[p] = DesiredRule(Current(p)))

\* However often a rule is deleted by hand, or the read before a delete fails
\* and its error is dropped, the resync brings the rule asked for back.
KeepsRepairing == \A p \in Names : []<>(rule[p] = DesiredRule(Current(p)))
=============================================================================
