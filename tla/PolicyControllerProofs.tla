----------------------- MODULE PolicyControllerProofs -----------------------
(***************************************************************************)
(* The policy controller, for every set of policies, addresses and specs   *)
(* and every schedule of faults but the ones a theorem excludes: when it   *)
(* comes to rest on a policy, the kernel hook is the one the policy asks   *)
(* for, and the Ready condition is true whenever it is written.            *)
(***************************************************************************)
EXTENDS PolicyController, PolicyStoreProofs

\* The copy a Reconcile call works from was a live policy.
CopyLive == task # Absent /\ task.pc # "read" => Copy # Absent

\* The branch it has taken is the one its copy asks for.
PlanFollowsCopy ==
  /\ Doing("apply") \/ Doing("create") \/ Doing("update") => DesiredRule(Copy) # Absent
  /\ Doing("remove") \/ Doing("delete") => DesiredRule(Copy) = Absent

\* The rule in the cluster is the one v asks for, unless a dropped error of the
\* read before a delete may have left a rule that v does not want, or somebody
\* may have deleted the rule by hand.
Matches(p, v) ==
  \/ rule[p] = DesiredRule(v)
  \/ "swallowed" \in FaultKinds /\ DesiredRule(v) = Absent
  \/ "stray" \in FaultKinds

\* The status is written after the rule, and the copy is then still current only
\* if nobody has written to the policy since the cache held it.
StatusFollowsRule == Doing("status") /\ Fresh => Matches(task.policy, Copy)

AtRest == \A p \in Names : Settled(p) /\ Exists(p) => Matches(p, Current(p))

CtrlInv == TypeOK /\ CopyLive /\ PlanFollowsCopy /\ StatusFollowsRule /\ AtRest

-----------------------------------------------------------------------------
(* Type correctness *)

LEMMA DesiredRuleType ==
  ASSUME NEW v \in Version \cup {Absent}
  PROVE  /\ DesiredRule(v) \in Rule \cup {Absent}
         /\ DesiredRule(v) # Absent => v \in Version /\ DesiredRule(v).owner = v.uid
<1> DEFINE r == [owner |-> v.uid, action |-> KernelAction(v.spec), ips |-> v.ips]
<1>1. CASE v = Absent \/ ~Blocks(v.spec) \/ v.ips = {}
  BY <1>1 DEF DesiredRule
<1>2. CASE ~(v = Absent \/ ~Blocks(v.spec) \/ v.ips = {})
  <2>1. DesiredRule(v) = r /\ v \in Version /\ v.ips # {}
    BY <1>2 DEF DesiredRule
  <2>2. KernelAction(v.spec) \in {"Sigkill", "Override"}
    BY DEF KernelAction
  <2>3. v.uid \in Nat /\ v.ips \in (SUBSET IPs) \ {{}}
    BY <2>1 DEF Version
  <2>4. \A u \in Nat, k \in {"Sigkill", "Override"}, S \in (SUBSET IPs) \ {{}} :
          [owner |-> u, action |-> k, ips |-> S] \in Rule
    BY DEF Rule
  <2>5. r \in Rule
    BY <2>2, <2>3, <2>4
  <2> QED
    BY <2>1, <2>5
<1> QED
  BY <1>1, <1>2

LEMMA TaskType ==
  ASSUME TypeOK, task # Absent
  PROVE  /\ task \in Task
         /\ task.policy \in Names
         /\ task.rv \in 0..Latest(task.policy)
         /\ Latest(task.policy) \in Nat
<1>1. task \in Task
  BY DEF TypeOK
<1>2. task.policy \in Names /\ task.rv \in Nat
  BY <1>1 DEF Task
<1>3. StoreOK /\ task.rv <= Latest(task.policy)
  BY DEF TypeOK
<1>4. Latest(task.policy) \in Nat
  BY <1>2, <1>3, LogTypes
<1> QED
  BY <1>1, <1>2, <1>3, <1>4

\* A Reconcile call's copy is a stored version.
LEMMA CopyType ==
  ASSUME TypeOK, CopyLive, task # Absent, task.pc # "read"
  PROVE  /\ Copy \in Version
         /\ Copy.uid \in 1..Latest(task.policy)
         /\ task.rv \in 1..Latest(task.policy)
         /\ Copy = log[task.policy][task.rv]
         /\ DesiredRule(Copy) \in Rule \cup {Absent}
<1>1. /\ StoreOK /\ Copy # Absent
      /\ task.policy \in Names
      /\ task.rv \in 0..Latest(task.policy)
  BY TaskType DEF TypeOK, CopyLive
<1>2. Copy \in Version /\ Copy.uid \in 1..Latest(task.policy)
      /\ task.rv \in 1..Latest(task.policy) /\ Copy = log[task.policy][task.rv]
  BY <1>1, VersionAt DEF Copy
<1> QED
  BY <1>2, DesiredRuleType

\* The version that a status write appends fits the log.
LEMMA ReadyFits ==
  ASSUME TypeOK, CopyLive, Doing("status")
  PROVE  Fits(task.policy, [Copy EXCEPT !.ready = TRUE])
<1>1. /\ Copy \in Version
      /\ Copy.uid \in 1..Latest(task.policy)
      /\ Latest(task.policy) \in Nat
  BY CopyType, TaskType DEF Doing
<1>2. [Copy EXCEPT !.ready = TRUE] \in Version
      /\ [Copy EXCEPT !.ready = TRUE].uid = Copy.uid
  BY <1>1 DEF Version
<1> QED
  BY <1>1, <1>2 DEF Fits

\* An agent's report fits the log.
LEMMA ReportFits ==
  ASSUME TypeOK, NEW p \in Names, NEW ip \in IPs, AgentReports(p, ip)
  PROVE  Fits(p, [Current(p) EXCEPT !.ips = @ \cup {ip}])
<1>1. /\ Current(p) \in Version
      /\ Current(p).uid \in 1..Latest(p)
      /\ Latest(p) \in Nat
  BY CurrentVersion DEF AgentReports, TypeOK
<1>2. [Current(p) EXCEPT !.ips = @ \cup {ip}] \in Version
      /\ [Current(p) EXCEPT !.ips = @ \cup {ip}].uid = Current(p).uid
  BY <1>1 DEF Version
<1> QED
  BY <1>1, <1>2 DEF Fits

LEMMA GoToType ==
  ASSUME TypeOK, task # Absent, NEW pc, GoTo(pc),
         pc \in {"read", "apply", "create", "update", "remove", "delete", "status"}
  PROVE  /\ task' \in Task
         /\ task'.pc = pc
         /\ task'.policy = task.policy
         /\ task'.rv = task.rv
  BY TaskType DEF GoTo, Task

-----------------------------------------------------------------------------
(* Steps that leave the controller alone *)

LEMMA AppendKeeps ==
  ASSUME CtrlInv, NEW p \in Names, NEW v, Fits(p, v), Put(p, v), UNCHANGED ctrlVars
  PROVE  CtrlInv'
<1> USE DEF CtrlInv
<1>1. /\ StoreOK'
      /\ Len(log'[p]) = Len(log[p]) + 1 /\ Len(log[p]) \in Nat
      /\ \A i \in 1..Len(log[p]) : log'[p][i] = log[p][i]
      /\ \A q \in Names : q # p => log'[q] = log[q]
  BY PutAppends, LogTypes DEF Latest, TypeOK
<1>2. UNCHANGED <<rule, cached, queue, task>>
  BY DEF ctrlVars
<1>3. \A q \in Names : Len(log[q]) \in Nat /\ cached[q] \in Nat /\ cached[q] <= Len(log[q])
  BY LogTypes DEF TypeOK, Latest
<1>4. \A q \in Names : Len(log'[q]) \in Nat /\ Len(log[q]) <= Len(log'[q])
  BY <1>1, <1>3
<1>5. \A q \in Names : \A i \in 1..Len(log[q]) : log'[q][i] = log[q][i]
  BY <1>1
<1>6. TypeOK'
  <2>1. \A q \in Names : cached[q] <= Len(log'[q])
    BY <1>3, <1>4
  <2>2. ASSUME task # Absent PROVE task.rv <= Len(log'[task.policy])
    BY <2>2, <1>4, TaskType DEF Latest
  <2> QED
    BY <1>1, <1>2, <2>1, <2>2 DEF TypeOK, Latest
<1>7. ASSUME task # Absent, task.pc # "read" PROVE Copy' = Copy
  <2>1. task.policy \in Names /\ task.rv \in 1..Len(log[task.policy])
    BY <1>7, CopyType, TaskType DEF Latest
  <2> QED
    BY <1>2, <1>5, <2>1 DEF Copy, At
<1>8. CopyLive' /\ PlanFollowsCopy'
  BY <1>2, <1>7 DEF CopyLive, PlanFollowsCopy, Doing
<1>9. StatusFollowsRule'
  <2> SUFFICES ASSUME Doing("status"), Fresh' PROVE Matches(task.policy, Copy)
    BY <1>2, <1>7 DEF StatusFollowsRule, Doing, Matches
  <2>1. task.rv <= Len(log[task.policy]) /\ task.policy \in Names /\ task.rv \in Nat
    BY TaskType DEF Doing, Latest
  <2>2. task.rv = Len(log'[task.policy])
    BY <1>2 DEF Fresh, Latest
  <2>3. Fresh
    BY <1>4, <1>3, <2>1, <2>2 DEF Fresh, Latest
  <2> QED
    BY <2>3 DEF StatusFollowsRule
<1>10. AtRest'
  <2> SUFFICES ASSUME NEW q \in Names, Settled(q)', Exists(q)'
               PROVE  Matches(q, Current(q))'
    BY DEF AtRest
  <2>1. cached[q] = Len(log'[q])
    BY <1>2 DEF Settled, Latest
  <2>2. q # p
    BY <1>1, <1>3, <2>1
  <2>3. log'[q] = log[q]
    BY <1>1, <2>2
  <2>4. Settled(q) /\ Exists(q) /\ Current(q)' = Current(q)
    BY <1>2, <2>3 DEF Settled, Exists, Current, At, Latest
  <2> QED
    BY <1>2, <2>4 DEF AtRest, Matches
<1> QED
  BY <1>6, <1>8, <1>9, <1>10

-----------------------------------------------------------------------------
(* Steps of the controller that leave the policies alone *)

LEMMA SameLog ==
  ASSUME UNCHANGED log
  PROVE  /\ \A p, i : At(p, i)' = At(p, i)
         /\ \A p : Latest(p)' = Latest(p) /\ Current(p)' = Current(p)
                   /\ (Exists(p)' <=> Exists(p))
  BY DEF At, Latest, Current, Exists

\* A policy on which the controller rests after a step that writes no rule and
\* no policy was already at rest before it, unless the step ended its call.
LEMMA RestKept ==
  ASSUME CtrlInv, UNCHANGED <<log, rule>>,
         \A p \in Names : Settled(p)' /\ Exists(p) => Settled(p)
  PROVE  AtRest'
<1> SUFFICES ASSUME NEW p \in Names, Settled(p)', Exists(p)'
             PROVE  Matches(p, Current(p))'
  BY DEF AtRest
<1>1. Settled(p) /\ Exists(p) /\ Current(p)' = Current(p)
  BY SameLog
<1> QED
  BY <1>1 DEF CtrlInv, AtRest, Matches

LEMMA CacheAdvancesKeeps ==
  ASSUME CtrlInv, NEW p \in Names, CacheAdvances(p)
  PROVE  CtrlInv'
<1> USE DEF CtrlInv
<1>1. PICK i \in cached[p] + 1..Latest(p) :
        /\ cached' = [cached EXCEPT ![p] = i]
        /\ queue' = IF At(p, cached[p]) = Absent /\ log[p][i] = Absent
                    THEN queue ELSE queue \cup {p}
        /\ UNCHANGED <<log, rule, task>>
  BY DEF CacheAdvances
<1>2. cached \in [Names -> Nat] /\ Latest(p) \in Nat
  BY LogTypes DEF TypeOK
<1>3. i \in Nat /\ i <= Latest(p) /\ i # 0
  BY <1>2
<1>4. TypeOK'
  <2>1. \A q \in Names : cached'[q] <= Len(log[q])
    BY <1>1, <1>2, <1>3 DEF TypeOK, Latest
  <2> QED
    BY <1>1, <1>2, <1>3, <2>1 DEF TypeOK, StoreOK, Latest
<1>5. CopyLive' /\ PlanFollowsCopy' /\ StatusFollowsRule'
  BY <1>1 DEF CopyLive, PlanFollowsCopy, StatusFollowsRule, Doing, Copy, At, Fresh,
              Latest, Matches
<1>6. ASSUME NEW q \in Names, Settled(q)', Exists(q) PROVE Settled(q)
  <2>1. CASE q # p
    BY <1>1, <1>2, <1>6, <2>1 DEF Settled, Latest
  <2>2. CASE q = p
    <3>1. p \notin queue' /\ cached'[p] = Latest(p)
      BY <1>1, <1>6, <2>2 DEF Settled, Latest
    <3>2. i = Latest(p) /\ log[p][i] = Absent
      BY <1>1, <1>2, <3>1
    <3>3. Current(p) = Absent
      BY <1>3, <3>2 DEF Current, At
    <3> QED
      BY <1>6, <2>2, <3>3 DEF Exists
  <2> QED
    BY <2>1, <2>2
<1> QED
  BY <1>1, <1>4, <1>5, <1>6, RestKept

LEMMA QueueStepsKeep ==
  ASSUME CtrlInv, NEW p \in Names, Resync(p) \/ Dequeue(p)
  PROVE  CtrlInv'
<1> USE DEF CtrlInv
<1>1. CASE Resync(p)
  <2>1. TypeOK'
    BY <1>1 DEF Resync, TypeOK, StoreOK, Latest
  <2>2. CopyLive' /\ PlanFollowsCopy' /\ StatusFollowsRule'
    BY <1>1 DEF Resync, CopyLive, PlanFollowsCopy, StatusFollowsRule, Doing, Copy, At,
                Fresh, Latest, Matches
  <2>3. \A q \in Names : Settled(q)' => Settled(q)
    BY <1>1 DEF Resync, Settled, Latest
  <2> QED
    BY <1>1, <2>1, <2>2, <2>3, RestKept DEF Resync
<1>2. CASE Dequeue(p)
  <2>1. /\ task' = [pc |-> "read", policy |-> p, rv |-> 0]
        /\ queue' = queue \ {p}
        /\ task = Absent
        /\ UNCHANGED <<log, rule, cached>>
    BY <1>2 DEF Dequeue
  <2>2. task' \in Task /\ task'.rv = 0 /\ task'.pc = "read" /\ task'.policy = p
    BY <2>1 DEF Task
  <2>3. TypeOK'
    <3>1. task'.rv <= Len(log[task'.policy])
      BY <2>2, LogTypes DEF TypeOK, Latest
    <3> QED
      BY <2>1, <2>2, <3>1 DEF TypeOK, StoreOK, Latest
  <2>4. CopyLive' /\ PlanFollowsCopy' /\ StatusFollowsRule'
    BY <2>2 DEF CopyLive, PlanFollowsCopy, StatusFollowsRule, Doing
  <2>5. task' # Absent \/ p \notin Names
    BY <2>1, NoTaskAssumption, <2>2
  <2>6. \A q \in Names : Settled(q)' => Settled(q)
    BY <2>1, <2>2, <2>5 DEF Settled, Latest
  <2> QED
    BY <2>1, <2>3, <2>4, <2>6, RestKept
<1> QED
  BY <1>1, <1>2

\* A step within the call: the same policy, the same copy, the next pc.
LEMMA MoveKeeps ==
  ASSUME CtrlInv, task # Absent, NEW pc, GoTo(pc),
         pc \in {"read", "apply", "create", "update", "remove", "delete", "status"},
         UNCHANGED <<log, rule, cached, queue>>
  PROVE  /\ TypeOK' /\ AtRest'
         /\ task' # Absent /\ task'.pc = pc
         /\ Copy' = Copy /\ task'.policy = task.policy /\ (Fresh' <=> Fresh)
<1> USE DEF CtrlInv
<1>1. task' \in Task /\ task'.pc = pc /\ task'.policy = task.policy /\ task'.rv = task.rv
  BY GoToType
<1>2. task' # Absent
  BY <1>1, NoTaskAssumption
<1>3. TypeOK'
  BY <1>1 DEF TypeOK, StoreOK, Latest
<1>4. \A q \in Names : Settled(q)' => Settled(q)
  BY <1>1, <1>2 DEF Settled, Latest
<1>5. Copy' = Copy /\ (Fresh' <=> Fresh)
  BY <1>1 DEF Copy, At, Fresh, Latest
<1> QED
  BY <1>1, <1>2, <1>3, <1>4, <1>5, RestKept

\* A call that ends in an error is put back in the queue.
LEMMA RetryKeeps ==
  ASSUME CtrlInv, task # Absent, Retry, UNCHANGED <<log, rule, cached>>
  PROVE  CtrlInv'
<1> USE DEF CtrlInv
<1>1. task' = Absent /\ queue' = queue \cup {task.policy} /\ task.policy \in Names
  BY TaskType DEF Retry
<1>2. TypeOK'
  BY <1>1 DEF TypeOK, StoreOK, Latest
<1>3. CopyLive' /\ PlanFollowsCopy' /\ StatusFollowsRule'
  BY <1>1 DEF CopyLive, PlanFollowsCopy, StatusFollowsRule, Doing
<1>4. \A q \in Names : Settled(q)' => Settled(q)
  BY <1>1 DEF Settled, Latest
<1> QED
  BY <1>2, <1>3, <1>4, RestKept

LEMMA ReadPolicyKeeps ==
  ASSUME CtrlInv, ReadPolicy
  PROVE  CtrlInv'
<1> USE DEF CtrlInv
<1> DEFINE p == task.policy
           v == At(task.policy, cached[task.policy])
<1>1. task # Absent /\ UNCHANGED <<log, rule, cached>>
  BY DEF ReadPolicy, Doing
<1>2. /\ p \in Names /\ task \in Task /\ cached[p] \in 0..Latest(p)
      /\ cached[p] <= Latest(p)
  BY <1>1, TaskType, LogTypes DEF TypeOK
<1>3. CASE v = Absent
  <2>1. task' = Absent /\ queue' = queue
    BY <1>3 DEF ReadPolicy, Done
  <2>2. TypeOK'
    BY <1>1, <2>1 DEF TypeOK, StoreOK, Latest
  <2>3. CopyLive' /\ PlanFollowsCopy' /\ StatusFollowsRule'
    BY <2>1 DEF CopyLive, PlanFollowsCopy, StatusFollowsRule, Doing
  <2>4. ASSUME NEW q \in Names, Settled(q)', Exists(q) PROVE Settled(q)
    <3>1. cached[q] = Latest(q) /\ q \notin queue
      BY <1>1, <2>1, <2>4 DEF Settled, Latest
    <3>2. q # p
      BY <1>3, <2>4, <3>1 DEF Exists, Current
    <3> QED
      BY <3>1, <3>2 DEF Settled
  <2> QED
    BY <1>1, <2>2, <2>3, <2>4, RestKept
<1>4. CASE v # Absent
  <2>1. /\ task' = [task EXCEPT !.rv = cached[p],
                                !.pc = IF DesiredRule(v) # Absent THEN "apply" ELSE "remove"]
        /\ queue' = queue
    BY <1>4 DEF ReadPolicy
  <2>2. /\ task' \in Task /\ task'.policy = p /\ task'.rv = cached[p]
        /\ task'.pc = IF DesiredRule(v) # Absent THEN "apply" ELSE "remove"
    <3> DEFINE target == IF DesiredRule(v) # Absent THEN "apply" ELSE "remove"
    <3>1. target \in {"apply", "remove"}
      OBVIOUS
    <3>2. task' = [task EXCEPT !.rv = cached[p], !.pc = target]
      BY <2>1
    <3> HIDE DEF target
    <3>3. cached[p] \in Nat
      BY <1>2, LogTypes DEF TypeOK
    <3>4. /\ task' \in Task /\ task'.policy = task.policy /\ task'.rv = cached[p]
          /\ task'.pc = target
      BY <1>2, <3>1, <3>2, <3>3 DEF Task
    <3> QED
      BY <3>4 DEF target
  <2>3. task' # Absent
    BY <2>2, NoTaskAssumption
  <2>4. TypeOK'
    BY <1>1, <1>2, <2>1, <2>2 DEF TypeOK, StoreOK, Latest
  <2>5. Copy' = v
    BY <1>1, <2>2 DEF Copy, At
  <2>6. CopyLive' /\ PlanFollowsCopy' /\ StatusFollowsRule'
    <3>1. DesiredRule(v) # Absent <=> task'.pc = "apply"
      BY <2>2
    <3>2. DesiredRule(v) = Absent <=> task'.pc = "remove"
      BY <2>2
    <3>3. DesiredRule(Copy)' = DesiredRule(v)
      BY <2>5 DEF DesiredRule, Blocks, HasAction, KernelAction
    <3>4. CopyLive'
      BY <1>4, <2>5 DEF CopyLive
    <3>5. task'.pc \in {"apply", "remove"}
      BY <2>2
    <3>6. PlanFollowsCopy'
      BY <3>1, <3>2, <3>3, <3>5 DEF PlanFollowsCopy, Doing
    <3>7. StatusFollowsRule'
      BY <3>5 DEF StatusFollowsRule, Doing
    <3> QED
      BY <3>4, <3>6, <3>7
  <2>7. \A q \in Names : Settled(q)' => Settled(q)
    BY <1>1, <2>1, <2>2, <2>3 DEF Settled, Latest
  <2> QED
    BY <1>1, <2>4, <2>6, <2>7, RestKept
<1> QED
  BY <1>3, <1>4

LEMMA GetStepsKeep ==
  ASSUME CtrlInv, GetForApply \/ GetForRemove \/ (ErrorSwallowed /\ "swallowed" \in FaultKinds)
  PROVE  CtrlInv'
<1> USE DEF CtrlInv
<1>1. CASE GetForApply
  <2> DEFINE target == IF rule[task.policy] = Absent THEN "create" ELSE "update"
  <2>1. /\ task # Absent /\ task.pc = "apply" /\ GoTo(target)
        /\ UNCHANGED <<log, rule, cached, queue>>
    BY <1>1 DEF GetForApply, Doing
  <2>2. target \in {"create", "update"}
    OBVIOUS
  <2> HIDE DEF target
  <2>3. TypeOK' /\ AtRest' /\ task' # Absent /\ task'.pc = target /\ Copy' = Copy
    BY <2>1, <2>2, MoveKeeps
  <2>4. Copy # Absent /\ DesiredRule(Copy) # Absent
    BY <2>1 DEF CopyLive, PlanFollowsCopy, Doing
  <2>5. CopyLive' /\ StatusFollowsRule'
    BY <2>2, <2>3, <2>4 DEF CopyLive, StatusFollowsRule, Doing
  <2>6. PlanFollowsCopy'
    BY <2>2, <2>3, <2>4 DEF PlanFollowsCopy, Doing
  <2> QED
    BY <2>3, <2>5, <2>6
<1>2. CASE GetForRemove
  <2> DEFINE target == IF rule[task.policy] = Absent THEN "status" ELSE "delete"
  <2>1. /\ task # Absent /\ task.pc = "remove" /\ GoTo(target)
        /\ UNCHANGED <<log, rule, cached, queue>>
    BY <1>2 DEF GetForRemove, Doing
  <2>2. target \in {"status", "delete"}
        /\ (target = "status" => rule[task.policy] = Absent)
    OBVIOUS
  <2> HIDE DEF target
  <2>3. /\ TypeOK' /\ AtRest' /\ task' # Absent /\ task'.pc = target
        /\ Copy' = Copy /\ task'.policy = task.policy
    BY <2>1, <2>2, MoveKeeps
  <2>4. Copy # Absent /\ DesiredRule(Copy) = Absent
    BY <2>1 DEF CopyLive, PlanFollowsCopy, Doing
  <2>5. CopyLive'
    BY <2>3, <2>4 DEF CopyLive
  <2>6. PlanFollowsCopy'
    BY <2>2, <2>3, <2>4 DEF PlanFollowsCopy, Doing
  <2>7. StatusFollowsRule'
    <3> SUFFICES ASSUME target = "status" PROVE Matches(task.policy, Copy)'
      BY <2>3 DEF StatusFollowsRule, Doing
    <3>1. rule'[task'.policy] = Absent
      BY <2>1, <2>2, <2>3
    <3>2. DesiredRule(Copy)' = Absent
      BY <2>3, <2>4 DEF DesiredRule
    <3> QED
      BY <3>1, <3>2 DEF Matches
  <2> QED
    BY <2>3, <2>5, <2>6, <2>7
<1>3. CASE ErrorSwallowed /\ "swallowed" \in FaultKinds
  <2>1. /\ task # Absent /\ task.pc = "remove" /\ GoTo("status")
        /\ UNCHANGED <<log, rule, cached, queue>>
    BY <1>3 DEF ErrorSwallowed, Doing
  <2>2. /\ TypeOK' /\ AtRest' /\ task' # Absent /\ task'.pc = "status"
        /\ Copy' = Copy /\ task'.policy = task.policy
    BY <2>1, MoveKeeps
  <2>3. Copy # Absent /\ DesiredRule(Copy) = Absent
    BY <2>1 DEF CopyLive, PlanFollowsCopy, Doing
  <2>4. CopyLive' /\ PlanFollowsCopy'
    BY <2>2, <2>3 DEF CopyLive, PlanFollowsCopy, Doing
  <2>5. DesiredRule(Copy)' = Absent
    BY <2>2, <2>3 DEF DesiredRule
  <2>6. StatusFollowsRule'
    BY <1>3, <2>5 DEF StatusFollowsRule, Matches
  <2> QED
    BY <2>2, <2>4, <2>6
<1> QED
  BY <1>1, <1>2, <1>3

-----------------------------------------------------------------------------
(* Steps that write rules *)

\* A write of the rule being reconciled disturbs no policy at rest: this one is
\* not, while its call goes on or its name is queued again.
LEMMA RuleWriteKeepsRest ==
  ASSUME CtrlInv, task # Absent, NEW r, UNCHANGED <<log, cached>>,
         rule' = [rule EXCEPT ![task.policy] = r],
         \/ task' # Absent /\ task'.policy = task.policy /\ UNCHANGED queue
         \/ Retry
  PROVE  AtRest'
<1> USE DEF CtrlInv
<1> SUFFICES ASSUME NEW q \in Names, Settled(q)', Exists(q)'
             PROVE  Matches(q, Current(q))'
  BY DEF AtRest
<1>1. task.policy \in Names /\ rule \in [Names -> Rule \cup {Absent}]
  BY TaskType DEF TypeOK
<1>2. q # task.policy
  BY DEF Settled, Retry
<1>3. Settled(q)
  BY <1>2 DEF Settled, Latest, Retry
<1>4. Exists(q) /\ Current(q)' = Current(q)
  BY SameLog
<1>5. rule'[q] = rule[q]
  BY <1>1, <1>2
<1> QED
  BY <1>3, <1>4, <1>5 DEF AtRest, Matches

LEMMA RuleWriteType ==
  ASSUME TypeOK, task # Absent, NEW r \in Rule \cup {Absent},
         rule' = [rule EXCEPT ![task.policy] = r]
  PROVE  /\ rule' \in [Names -> Rule \cup {Absent}]
         /\ rule'[task.policy] = r
  BY TaskType DEF TypeOK

LEMMA ApplyRuleKeeps ==
  ASSUME CtrlInv, ApplyRule
  PROVE  CtrlInv'
<1> USE DEF CtrlInv
<1>1. /\ task # Absent /\ task.pc \in {"create", "update"} /\ GoTo("status")
      /\ rule' = [rule EXCEPT ![task.policy] = DesiredRule(Copy)]
      /\ UNCHANGED <<log, cached, queue>>
  BY DEF ApplyRule, Applicable, InstallRule, Doing
<1>2. /\ task' \in Task /\ task'.pc = "status"
      /\ task'.policy = task.policy /\ task'.rv = task.rv
  BY <1>1, GoToType
<1>3. task' # Absent
  BY <1>2, NoTaskAssumption
<1>4. Copy \in Version /\ DesiredRule(Copy) \in Rule \cup {Absent}
  BY <1>1, CopyType
<1>5. rule' \in [Names -> Rule \cup {Absent}] /\ rule'[task.policy] = DesiredRule(Copy)
  BY <1>1, <1>4, RuleWriteType
<1>6. TypeOK'
  BY <1>1, <1>2, <1>5 DEF TypeOK, StoreOK, Latest
<1>7. Copy' = Copy
  BY <1>1, <1>2 DEF Copy, At
<1>8. CopyLive' /\ PlanFollowsCopy'
  BY <1>1, <1>2, <1>7 DEF CopyLive, PlanFollowsCopy, Doing
<1>9. DesiredRule(Copy)' = DesiredRule(Copy)
  BY <1>7 DEF DesiredRule, Blocks, HasAction, KernelAction
<1>10. StatusFollowsRule'
  BY <1>2, <1>5, <1>9 DEF StatusFollowsRule, Matches
<1>11. AtRest'
  BY <1>1, <1>2, <1>3, RuleWriteKeepsRest
<1> QED
  BY <1>6, <1>8, <1>10, <1>11

LEMMA DeleteRuleKeeps ==
  ASSUME CtrlInv, DeleteRule
  PROVE  CtrlInv'
<1> USE DEF CtrlInv
<1>1. task # Absent /\ task.pc = "delete"
  BY DEF DeleteRule, Doing
<1>2. CASE rule[task.policy] # Absent
  <2>1. /\ rule' = [rule EXCEPT ![task.policy] = Absent]
        /\ GoTo("status")
        /\ UNCHANGED <<log, cached, queue>>
    BY <1>2 DEF DeleteRule
  <2>2. /\ task' \in Task /\ task'.pc = "status"
        /\ task'.policy = task.policy /\ task'.rv = task.rv
    BY <1>1, <2>1, GoToType
  <2>3. task' # Absent
    BY <2>2, NoTaskAssumption
  <2>4. rule' \in [Names -> Rule \cup {Absent}] /\ rule'[task.policy] = Absent
    BY <1>1, <2>1, RuleWriteType
  <2>5. TypeOK'
    BY <1>1, <2>1, <2>2, <2>4 DEF TypeOK, StoreOK, Latest
  <2>6. Copy' = Copy
    BY <2>1, <2>2 DEF Copy, At
  <2>7. CopyLive' /\ PlanFollowsCopy'
    BY <1>1, <2>2, <2>3, <2>6 DEF CopyLive, PlanFollowsCopy, Doing
  <2>8. DesiredRule(Copy)' = Absent
    <3>1. DesiredRule(Copy) = Absent
      BY <1>1 DEF PlanFollowsCopy, Doing
    <3>2. DesiredRule(Copy)' = DesiredRule(Copy)
      BY <2>6 DEF DesiredRule, Blocks, HasAction, KernelAction
    <3> QED
      BY <3>1, <3>2
  <2>9. StatusFollowsRule'
    BY <2>2, <2>4, <2>8 DEF StatusFollowsRule, Matches
  <2>10. AtRest'
    BY <1>1, <2>1, <2>2, <2>3, RuleWriteKeepsRest
  <2> QED
    BY <2>5, <2>7, <2>9, <2>10
<1>3. CASE rule[task.policy] = Absent
  BY <1>1, <1>3, RetryKeeps DEF DeleteRule
<1> QED
  BY <1>2, <1>3

\* The garbage collector takes no rule that a live policy or a call's fresh copy
\* asks for: those belong to the policy that is stored now.
LEMMA OrphansUnwanted ==
  ASSUME TypeOK, NEW p \in Names, Orphaned(p), Exists(p), rule[p] = DesiredRule(Current(p))
  PROVE  FALSE
<1>1. Current(p) \in Version
  BY CurrentVersion DEF TypeOK
<1>2. DesiredRule(Current(p)) # Absent
  BY DEF Orphaned
<1>3. DesiredRule(Current(p)).owner = Current(p).uid
  BY <1>1, <1>2, DesiredRuleType
<1> QED
  BY <1>3 DEF Orphaned

LEMMA CollectGarbageKeeps ==
  ASSUME CtrlInv, NEW p \in Names, CollectGarbage(p)
  PROVE  CtrlInv'
<1> USE DEF CtrlInv
<1>1. /\ Orphaned(p)
      /\ rule' = [rule EXCEPT ![p] = Absent]
      /\ UNCHANGED <<log, cached, queue, task>>
  BY DEF CollectGarbage
<1>2. /\ rule' \in [Names -> Rule \cup {Absent}]
      /\ \A q \in Names : q # p => rule'[q] = rule[q]
  BY <1>1 DEF TypeOK
<1>3. TypeOK'
  BY <1>1, <1>2 DEF TypeOK, StoreOK, Latest
<1>4. CopyLive' /\ PlanFollowsCopy'
  BY <1>1 DEF CopyLive, PlanFollowsCopy, Doing, Copy, At
<1>5. ASSUME NEW q \in Names, Exists(q), Matches(q, Current(q))
      PROVE  Matches(q, Current(q))'
  <2>1. Current(q)' = Current(q)
    BY <1>1, SameLog
  <2>2. DesiredRule(Current(q))' = DesiredRule(Current(q))
    BY <2>1 DEF DesiredRule, Blocks, HasAction, KernelAction
  <2>3. CASE q # p
    BY <1>2, <1>5, <2>2, <2>3 DEF Matches
  <2>4. CASE q = p
    <3>1. \/ "swallowed" \in FaultKinds /\ DesiredRule(Current(q)) = Absent
          \/ "stray" \in FaultKinds
      BY <1>1, <1>5, <2>4, OrphansUnwanted DEF Matches
    <3> QED
      BY <2>2, <3>1 DEF Matches
  <2> QED
    BY <2>3, <2>4
<1>6. AtRest'
  <2> SUFFICES ASSUME NEW q \in Names, Settled(q)', Exists(q)'
               PROVE  Matches(q, Current(q))'
    BY DEF AtRest
  <2>1. Settled(q) /\ Exists(q)
    BY <1>1, SameLog DEF Settled
  <2> QED
    BY <1>5, <2>1 DEF AtRest
<1>7. StatusFollowsRule'
  <2> SUFFICES ASSUME Doing("status"), Fresh PROVE Matches(task.policy, Copy)'
    BY <1>1 DEF StatusFollowsRule, Doing, Fresh, Latest
  <2>1. task.policy \in Names /\ Copy = Current(task.policy) /\ Copy # Absent
    BY TaskType DEF Doing, Fresh, Copy, Current, CopyLive
  <2>2. Exists(task.policy) /\ Matches(task.policy, Current(task.policy))
    BY <2>1 DEF Exists, StatusFollowsRule
  <2>3. Matches(task.policy, Current(task.policy))'
    BY <1>5, <2>1, <2>2, <1>1
  <2>4. Copy' = Current(task.policy)'
    BY <1>1, <2>1, SameLog DEF Copy
  <2> QED
    BY <2>3, <2>4
<1> QED
  BY <1>3, <1>4, <1>6, <1>7

LEMMA StrayDeleteKeeps ==
  ASSUME CtrlInv, NEW p \in Names, StrayDelete(p)
  PROVE  CtrlInv'
<1> USE DEF CtrlInv
<1>1. /\ "stray" \in FaultKinds
      /\ rule' = [rule EXCEPT ![p] = Absent]
      /\ UNCHANGED <<log, cached, queue, task>>
  BY DEF StrayDelete
<1>2. rule' \in [Names -> Rule \cup {Absent}]
  BY <1>1 DEF TypeOK
<1>3. TypeOK'
  BY <1>1, <1>2 DEF TypeOK, StoreOK, Latest
<1>4. CopyLive' /\ PlanFollowsCopy'
  BY <1>1 DEF CopyLive, PlanFollowsCopy, Doing, Copy, At
<1>5. AtRest' /\ StatusFollowsRule'
  BY <1>1 DEF AtRest, StatusFollowsRule, Matches
<1> QED
  BY <1>3, <1>4, <1>5

-----------------------------------------------------------------------------
(* The end of a call *)

\* The status write, answered or not, makes a version that the cache lacks.
LEMMA StatusPutKeeps ==
  ASSUME CtrlInv, Doing("status"), Done \/ Retry,
         Put(task.policy, [Copy EXCEPT !.ready = TRUE]), UNCHANGED <<rule, cached>>
  PROVE  CtrlInv'
<1> USE DEF CtrlInv
<1> DEFINE p == task.policy
<1>1. task' = Absent /\ task # Absent /\ p \in Names
  BY TaskType DEF Done, Retry, Doing
<1>2. queue' \in SUBSET Names /\ queue \subseteq queue'
  BY <1>1 DEF Done, Retry, TypeOK
<1>3. /\ StoreOK'
      /\ Len(log'[p]) = Len(log[p]) + 1
      /\ \A q \in Names : q # p => log'[q] = log[q]
  BY <1>1, ReadyFits, PutAppends DEF TypeOK, Latest
<1>4. \A q \in Names : cached[q] \in Nat /\ cached[q] <= Len(log[q]) /\ Len(log[q]) \in Nat
  BY LogTypes DEF TypeOK, Latest
<1>5. \A q \in Names : cached[q] <= Len(log'[q])
  BY <1>3, <1>4
<1>6. TypeOK'
  BY <1>1, <1>2, <1>3, <1>5 DEF TypeOK, Latest
<1>7. CopyLive' /\ PlanFollowsCopy' /\ StatusFollowsRule'
  BY <1>1 DEF CopyLive, PlanFollowsCopy, StatusFollowsRule, Doing
<1>8. AtRest'
  <2> SUFFICES ASSUME NEW q \in Names, Settled(q)', Exists(q)'
               PROVE  Matches(q, Current(q))'
    BY DEF AtRest
  <2>1. cached[q] = Len(log'[q]) /\ q \notin queue
    BY <1>2 DEF Settled, Latest
  <2>2. q # p
    BY <1>3, <1>4, <2>1
  <2>3. log'[q] = log[q]
    BY <1>3, <2>2
  <2>4. Settled(q) /\ Exists(q) /\ Current(q)' = Current(q)
    BY <2>1, <2>2, <2>3 DEF Settled, Exists, Current, At, Latest
  <2> QED
    BY <2>4 DEF AtRest, Matches
<1> QED
  BY <1>6, <1>7, <1>8

LEMMA WriteStatusKeeps ==
  ASSUME CtrlInv, WriteStatus
  PROVE  CtrlInv'
<1> USE DEF CtrlInv
<1>1. Doing("status") /\ Fresh /\ Done /\ UNCHANGED <<rule, cached>>
  BY DEF WriteStatus
<1>2. CASE ~Copy.ready
  BY <1>1, <1>2, StatusPutKeeps DEF WriteStatus
<1>3. CASE Copy.ready
  <2>1. UNCHANGED log /\ task # Absent /\ task' = Absent /\ queue' = queue
    BY <1>1, <1>3 DEF WriteStatus, Doing, Done
  <2>2. TypeOK'
    BY <1>1, <2>1 DEF TypeOK, StoreOK, Latest
  <2>3. CopyLive' /\ PlanFollowsCopy' /\ StatusFollowsRule'
    BY <2>1 DEF CopyLive, PlanFollowsCopy, StatusFollowsRule, Doing
  <2>4. AtRest'
    <3> SUFFICES ASSUME NEW q \in Names, Settled(q)', Exists(q)'
                 PROVE  Matches(q, Current(q))'
      BY DEF AtRest
    <3>1. Exists(q) /\ Current(q)' = Current(q)
      BY <2>1, SameLog
    <3>2. CASE q = task.policy
      <4>1. Matches(q, Current(q))
        BY <1>1, <3>2 DEF StatusFollowsRule, Fresh, Copy, Current
      <4> QED
        BY <1>1, <3>1, <4>1 DEF Matches
    <3>3. CASE q # task.policy
      <4>1. Settled(q)
        BY <1>1, <2>1, <3>3 DEF Settled, Latest
      <4> QED
        BY <1>1, <3>1, <4>1 DEF AtRest, Matches
    <3> QED
      BY <3>2, <3>3
  <2> QED
    BY <2>2, <2>3, <2>4
<1> QED
  BY <1>2, <1>3

LEMMA FailuresKeep ==
  ASSUME CtrlInv, ApplyRefused \/ StatusConflicts \/ ApiError
  PROVE  CtrlInv'
<1>1. task # Absent /\ Retry /\ UNCHANGED <<log, rule, cached>>
  BY DEF ApplyRefused, StatusConflicts, ApiError, Doing
<1> QED
  BY <1>1, RetryKeeps

LEMMA ReplyLostKeeps ==
  ASSUME CtrlInv, ReplyLost
  PROVE  CtrlInv'
<1> USE DEF CtrlInv
<1>1. ASSUME task # Absent, NEW r \in Rule \cup {Absent},
             rule' = [rule EXCEPT ![task.policy] = r], UNCHANGED <<log, cached>>
      PROVE  CtrlInv'
  <2>1. task' = Absent /\ queue' = queue \cup {task.policy} /\ task.policy \in Names
    BY <1>1, TaskType DEF ReplyLost, Retry
  <2>2. rule' \in [Names -> Rule \cup {Absent}]
    BY <1>1, RuleWriteType
  <2>3. TypeOK'
    BY <1>1, <2>1, <2>2 DEF TypeOK, StoreOK, Latest
  <2>4. CopyLive' /\ PlanFollowsCopy' /\ StatusFollowsRule'
    BY <2>1 DEF CopyLive, PlanFollowsCopy, StatusFollowsRule, Doing
  <2>5. AtRest'
    BY <1>1, RuleWriteKeepsRest DEF ReplyLost
  <2> QED
    BY <2>3, <2>4, <2>5
<1>2. CASE Applicable /\ InstallRule
  <2>1. task # Absent /\ task.pc # "read"
    BY <1>2 DEF Applicable, Doing
  <2>2. DesiredRule(Copy) \in Rule \cup {Absent}
    BY <2>1, CopyType
  <2> QED
    BY <1>1, <1>2, <2>1, <2>2 DEF InstallRule
<1>3. CASE Doing("delete") /\ rule' = [rule EXCEPT ![task.policy] = Absent]
           /\ UNCHANGED <<log, cached>>
  BY <1>1, <1>3 DEF Doing
<1>4. CASE Doing("status") /\ Put(task.policy, [Copy EXCEPT !.ready = TRUE])
           /\ UNCHANGED <<rule, cached>>
  BY <1>4, StatusPutKeeps DEF ReplyLost
<1> QED
  BY <1>2, <1>3, <1>4 DEF ReplyLost

\* After a restart the cache is empty, so no live policy counts as at rest.
LEMMA RestartKeeps ==
  ASSUME CtrlInv, Restart
  PROVE  CtrlInv'
<1> USE DEF CtrlInv
<1>1. /\ cached' = [p \in Names |-> 0] /\ queue' = {} /\ task' = Absent
      /\ UNCHANGED <<log, rule>>
  BY DEF Restart
<1>2. \A p \in Names : Len(log[p]) \in Nat
  BY LogTypes DEF TypeOK, Latest
<1>3. TypeOK'
  BY <1>1, <1>2 DEF TypeOK, StoreOK, Latest
<1>4. CopyLive' /\ PlanFollowsCopy' /\ StatusFollowsRule'
  BY <1>1 DEF CopyLive, PlanFollowsCopy, StatusFollowsRule, Doing
<1>5. ASSUME NEW p \in Names, Settled(p)', Exists(p) PROVE Settled(p)
  <2>1. Latest(p) = 0
    BY <1>1, <1>5 DEF Settled, Latest
  <2> QED
    BY <1>5, <2>1 DEF Exists, Current, At
<1> QED
  BY <1>1, <1>3, <1>4, <1>5, RestKept

-----------------------------------------------------------------------------
(* The theorems *)

LEMMA CtrlInit == Init => CtrlInv
<1> SUFFICES ASSUME Init PROVE CtrlInv
  OBVIOUS
<1>1. /\ StoreInit /\ task = Absent /\ queue = {}
      /\ rule = [p \in Names |-> Absent] /\ cached = [p \in Names |-> 0]
  BY DEF Init
<1>2. \A p \in Names : Len(log[p]) = 0
  BY <1>1 DEF StoreInit
<1>3. TypeOK
  BY <1>1, <1>2, StoreInitOK DEF TypeOK, Latest
<1>4. CopyLive /\ PlanFollowsCopy /\ StatusFollowsRule
  BY <1>1 DEF CopyLive, PlanFollowsCopy, StatusFollowsRule, Doing
<1>5. AtRest
  BY <1>2 DEF AtRest, Exists, Current, At, Latest
<1> QED
  BY <1>3, <1>4, <1>5 DEF CtrlInv

LEMMA CtrlStep ==
  ASSUME CtrlInv, [Next]_vars
  PROVE  CtrlInv'
<1>1. CASE UNCHANGED vars
  BY <1>1 DEF vars, ctrlVars, CtrlInv, TypeOK, StoreOK, Latest, CopyLive, PlanFollowsCopy,
              StatusFollowsRule, AtRest, Doing, Copy, At, Fresh, Matches, Settled, Exists,
              Current, DesiredRule
<1>2. ASSUME NEW p \in Names, CacheAdvances(p) \/ Resync(p) \/ Dequeue(p)
      PROVE  CtrlInv'
  BY <1>2, CacheAdvancesKeeps, QueueStepsKeep
<1>3. CASE Reconcile
  BY <1>3, ReadPolicyKeeps, GetStepsKeep, ApplyRuleKeeps, FailuresKeep, DeleteRuleKeeps,
     WriteStatusKeeps DEF Reconcile
<1>4. CASE Faults \/ ErrorSwallowed
  BY <1>4, FailuresKeep, GetStepsKeep, ReplyLostKeeps, RestartKeeps DEF Faults, CallFails, ErrorSwallowed
<1>5. ASSUME NEW p \in Names, CollectGarbage(p) \/ StrayDelete(p)
      PROVE  CtrlInv'
  BY <1>5, CollectGarbageKeeps, StrayDeleteKeeps
<1>6. ASSUME NEW p \in Names, NEW ip \in IPs, AgentReports(p, ip)
      PROVE  CtrlInv'
  <2>1. Fits(p, [Current(p) EXCEPT !.ips = @ \cup {ip}])
    BY <1>6, ReportFits DEF CtrlInv
  <2> QED
    BY <1>6, <2>1, AppendKeeps DEF AgentReports
<1>7. CASE Users
  BY <1>7, UserAppends, AppendKeeps DEF Users, CtrlInv, TypeOK
<1> QED
  BY <1>1, <1>2, <1>3, <1>4, <1>5, <1>6, <1>7
     DEF Next, Foreseen, Unnoticed, ControllerStep

LEMMA CtrlInvariant == Spec => []CtrlInv
<1>1. Init => CtrlInv
  BY CtrlInit
<1>2. CtrlInv /\ [Next]_vars => CtrlInv'
  BY CtrlStep
<1> QED
  BY <1>1, <1>2, PTL DEF Spec

\* The controller's state is well typed under every fault: no hook is ever built
\* without an address, and no copy is newer than the policy.
THEOREM ControllerTypes == Spec => []TypeOK
<1>1. CtrlInv => TypeOK
  BY DEF CtrlInv
<1> QED
  BY <1>1, CtrlInvariant, PTL

\* Whenever the controller rests on a live policy, the rule in the cluster is
\* the one it asks for: restarts, lost answers, failed and even dropped reads
\* included.
THEOREM RestMeansCurrent ==
  ASSUME "stray" \notin FaultKinds
  PROVE  Spec => []BlocklistCurrent
<1>1. CtrlInv => BlocklistCurrent
  BY DEF CtrlInv, AtRest, BlocklistCurrent, Matches
<1> QED
  BY <1>1, CtrlInvariant, PTL

\* A policy that asks for no hook has none at rest, provided that no error of
\* the read before the delete is dropped.
THEOREM RestMeansRemoved ==
  ASSUME "stray" \notin FaultKinds, "swallowed" \notin FaultKinds
  PROVE  Spec => []BlocklistRemoved
<1>1. CtrlInv => BlocklistRemoved
  BY DEF CtrlInv, AtRest, BlocklistRemoved, Matches
<1> QED
  BY <1>1, CtrlInvariant, PTL

\* Only a status write makes a live policy ready.
LEMMA ReadyWritten ==
  ASSUME "stray" \notin FaultKinds, "swallowed" \notin FaultKinds,
         CtrlInv, [Next]_vars, NEW p \in Names,
         Exists(p), ~Current(p).ready, Exists(p)', Current(p)'.ready
  PROVE  rule[p] = DesiredRule(Current(p))
<1> USE DEF CtrlInv
<1>1. ASSUME NEW q \in Names, NEW v, Fits(q, v), Put(q, v),
             Exists(q) /\ v # Absent => v.ready = Current(q).ready
      PROVE  FALSE
  <2>1. /\ Latest(q)' = Latest(q) + 1 /\ Latest(q) \in Nat
        /\ log'[q][Latest(q) + 1] = v
        /\ \A r \in Names : r # q => log'[r] = log[r]
    BY <1>1, PutAppends, LogTypes DEF TypeOK
  <2>2. CASE q # p
    BY <2>1, <2>2 DEF Exists, Current, At, Latest
  <2>3. CASE q = p
    <3>1. Current(p)' = v
      BY <2>1, <2>3 DEF Current, At
    <3>2. v # Absent
      BY <3>1 DEF Exists
    <3> QED
      BY <1>1, <2>3, <3>1, <3>2
  <2> QED
    BY <2>2, <2>3
<1>2. ASSUME UNCHANGED log PROVE FALSE
  BY <1>2, SameLog
<1>3. ASSUME Doing("status"), Fresh, Put(task.policy, [Copy EXCEPT !.ready = TRUE])
      PROVE  rule[p] = DesiredRule(Current(p))
  <2>1. /\ task.policy \in Names /\ Copy = Current(task.policy)
        /\ Matches(task.policy, Copy)
    BY <1>3, TaskType DEF Doing, Fresh, Copy, Current, StatusFollowsRule
  <2>2. CASE task.policy = p
    BY <2>1, <2>2 DEF Matches
  <2>3. CASE task.policy # p
    <3>1. log'[p] = log[p]
      BY <1>3, <2>1, <2>3, ReadyFits, PutAppends DEF TypeOK
    <3> QED
      BY <3>1 DEF Exists, Current, At, Latest
  <2> QED
    BY <2>2, <2>3
<1>4. CASE UNCHANGED vars
  BY <1>2, <1>4 DEF vars
<1>5. CASE ControllerStep \/ ErrorSwallowed
  <2>1. ASSUME NEW q \in Names, CacheAdvances(q) \/ Resync(q) \/ Dequeue(q)
        PROVE  UNCHANGED log
    BY <2>1 DEF CacheAdvances, Resync, Dequeue
  <2>2. CASE ReadPolicy \/ GetForApply \/ ApplyRule \/ ApplyRefused \/ GetForRemove
             \/ DeleteRule \/ StatusConflicts
    BY <1>2, <2>2 DEF ReadPolicy, GetForApply, ApplyRule, InstallRule, ApplyRefused,
                      GetForRemove, DeleteRule, StatusConflicts
  <2>3. CASE WriteStatus
    BY <1>2, <1>3, <2>3 DEF WriteStatus
  <2>4. CASE ApiError \/ ErrorSwallowed \/ Restart
    BY <1>2, <2>4 DEF ApiError, ErrorSwallowed, Restart
  <2>5. CASE ReplyLost
    BY <1>2, <1>3, <2>5 DEF ReplyLost, InstallRule
  <2> QED
    BY <1>2, <1>5, <2>1, <2>2, <2>3, <2>4, <2>5 DEF ControllerStep, Reconcile, Faults, CallFails
<1>6. ASSUME NEW q \in Names, CollectGarbage(q) \/ StrayDelete(q)
      PROVE  UNCHANGED log
  BY <1>6 DEF CollectGarbage, StrayDelete
<1>7. ASSUME NEW q \in Names, NEW ip \in IPs, AgentReports(q, ip)
      PROVE  FALSE
  <2> DEFINE v == [Current(q) EXCEPT !.ips = @ \cup {ip}]
  <2>1. Fits(q, v) /\ Put(q, v)
    BY <1>7, ReportFits DEF AgentReports
  <2>2. Current(q) \in Version
    BY <1>7, CurrentVersion DEF AgentReports, TypeOK
  <2>3. v.ready = Current(q).ready
    BY <2>2 DEF Version
  <2> QED
    BY <1>1, <2>1, <2>3
<1>8. CASE Users
  BY <1>1, <1>8, UserAppends DEF Users, TypeOK
<1> QED
  BY <1>2, <1>4, <1>5, <1>6, <1>7, <1>8 DEF Next, Foreseen, Unnoticed

\* "Enforcement rules are active" is true at the instant it is written, whatever
\* the other writers do to the policy meanwhile.
THEOREM ReadyIsTrueWhenWritten ==
  ASSUME "stray" \notin FaultKinds, "swallowed" \notin FaultKinds
  PROVE  Spec => ReadyMeansActive
<1>1. CtrlInv /\ [Next]_vars =>
        [ \A p \in Names :
            Exists(p) /\ ~Current(p).ready /\ Exists(p)' /\ Current(p)'.ready
              => rule[p] = DesiredRule(Current(p)) ]_vars
  BY ReadyWritten
<1>2. Spec => []CtrlInv
  BY CtrlInvariant
<1> QED
  BY <1>1, <1>2, PTL DEF Spec, ReadyMeansActive
=============================================================================
