----------------------------- MODULE LoopProofs -----------------------------
(***************************************************************************)
(* The closed loop, for every set of nodes, policies, addresses and specs: *)
(* what the agents do is what the controller expects of its environment,   *)
(* and the other way round, so that what is proved of each alone holds of  *)
(* the two together; and what a kernel blocks shares its /32 with an       *)
(* address that some version of a policy listed and condemned.             *)
(***************************************************************************)
EXTENDS ControlLoop, AgentProofs

\* Hooks, one per policy, each of which some version of that policy asked for.
HooksSound(hooks) ==
  /\ hooks \in [Names -> C!Rule \cup {Absent}]
  /\ \A p \in Names : hooks[p] # Absent =>
       \E i \in 1..Latest(p) : log[p][i] # Absent /\ hooks[p] = C!DesiredRule(log[p][i])

\* A Reconcile call has read no version that does not exist, nor a deleted policy.
TaskSound(t) ==
  \/ t = Absent
  \/ /\ t \in C!Task
     /\ t.rv <= Latest(t.policy)
     /\ t.pc # "read" => At(t.policy, t.rv) # Absent

CacheSound(c) == c \in [Names -> Nat] /\ \A p \in Names : c[p] <= Latest(p)

LoadedSound(l) ==
  l \in [Agents -> [Names -> C!Rule \cup {Absent}]] /\ \A a \in Agents : HooksSound(l[a])

LoopInv ==
  AgentInv /\ HooksSound(rule) /\ TaskSound(task) /\ CacheSound(cached) /\ LoadedSound(loaded)

-----------------------------------------------------------------------------
(* The controller reads the store as the agents do *)

LEMMA SameReads ==
  /\ \A p : C!Latest(p) = Latest(p)
  /\ \A p : C!Current(p) = Current(p)
  /\ \A p : C!Exists(p) <=> Exists(p)
  /\ \A p, i : C!At(p, i) = At(p, i)
  BY DEF C!Latest, C!Current, C!Exists, C!At, Latest, Current, Exists, At

LEMMA SameJudgement == \A p, n, ip : C!CondemnedBy(p, n, ip) <=> CondemnedBy(p, n, ip)
<1>1. \A spec, ip : C!Condemns(spec, ip) <=> Condemns(spec, ip)
  BY DEF C!Condemns, C!Blocks, C!HasAction, C!Violates, C!Covers, C!Forbids,
         Condemns, Blocks, HasAction, Violates, Covers, Forbids
<1> QED
  BY <1>1 DEF C!CondemnedBy, CondemnedBy

-----------------------------------------------------------------------------
(* Soundness stays when the logs grow *)

LEMMA HooksKept ==
  ASSUME StoreOK, OnlyGrows, NEW hooks, HooksSound(hooks)
  PROVE  HooksSound(hooks)'
<1> SUFFICES ASSUME NEW p \in Names, hooks[p] # Absent
             PROVE  \E i \in 1..Latest(p)' : log'[p][i] # Absent /\ hooks[p] = C!DesiredRule(log'[p][i])
  BY DEF HooksSound, C!Rule, C!DesiredRule
<1>1. PICK i \in 1..Latest(p) : log[p][i] # Absent /\ hooks[p] = C!DesiredRule(log[p][i])
  BY DEF HooksSound
<1>2. Latest(p) \in Nat /\ Latest(p)' \in Nat /\ Latest(p) <= Latest(p)'
  BY LogTypes DEF OnlyGrows
<1>3. i \in 1..Latest(p)' /\ log'[p][i] = log[p][i]
  BY <1>2 DEF OnlyGrows
<1> QED
  BY <1>1, <1>3

LEMMA TaskKept ==
  ASSUME StoreOK, OnlyGrows, NEW t, TaskSound(t)
  PROVE  TaskSound(t)'
<1>1. CASE t = Absent
  BY <1>1 DEF TaskSound
<1>2. CASE t # Absent
  <2>1. t \in C!Task /\ t.policy \in Names /\ t.rv \in Nat /\ t.rv <= Latest(t.policy)
    BY <1>2 DEF TaskSound, C!Task
  <2>2. Latest(t.policy) \in Nat /\ Latest(t.policy)' \in Nat /\ Latest(t.policy) <= Latest(t.policy)'
    BY <2>1, LogTypes DEF OnlyGrows
  <2>3. At(t.policy, t.rv)' = At(t.policy, t.rv)
    BY <2>1, <2>2, AtKept
  <2>4. t.rv <= Latest(t.policy)'
    BY <2>1, <2>2
  <2> QED
    BY <1>2, <2>1, <2>3, <2>4 DEF TaskSound, C!Task
<1> QED
  BY <1>1, <1>2

LEMMA CacheKept ==
  ASSUME StoreOK, OnlyGrows, NEW c, CacheSound(c)
  PROVE  CacheSound(c)'
<1> SUFFICES ASSUME NEW p \in Names PROVE c[p] <= Latest(p)'
  BY DEF CacheSound
<1>1. Latest(p) \in Nat /\ Latest(p)' \in Nat /\ Latest(p) <= Latest(p)' /\ c[p] \in Nat /\ c[p] <= Latest(p)
  BY LogTypes DEF OnlyGrows, CacheSound
<1> QED
  BY <1>1

LEMMA LoadedKept ==
  ASSUME StoreOK, OnlyGrows, NEW l, LoadedSound(l)
  PROVE  LoadedSound(l)'
<1>1. \A a \in Agents : HooksSound(l[a])'
  BY HooksKept DEF LoadedSound
<1> QED
  BY <1>1 DEF LoadedSound, C!Rule

\* A step is sound if what it leaves in memory is, judged by the logs before it.
LEMMA SoundStep ==
  ASSUME StoreOK, OnlyGrows, AgentInv',
         HooksSound(rule'), TaskSound(task'), CacheSound(cached'), LoadedSound(loaded')
  PROVE  LoopInv'
<1>1. PICK h, t, c, l : h = rule' /\ t = task' /\ c = cached' /\ l = loaded'
  OBVIOUS
<1>2. HooksSound(h) /\ TaskSound(t) /\ CacheSound(c) /\ LoadedSound(l)
  BY <1>1
<1>3. HooksSound(h)' /\ TaskSound(t)' /\ CacheSound(c)' /\ LoadedSound(l)'
  BY <1>2, HooksKept, TaskKept, CacheKept, LoadedKept
<1> QED
  BY <1>1, <1>3
     DEF LoopInv, HooksSound, TaskSound, CacheSound, LoadedSound, CondemnedBy, Latest, At,
         Condemns, C!Rule, C!Task

-----------------------------------------------------------------------------
(* What the controller does, seen from the agents *)

\* The rule that a stored version asks for.
LEMMA DesiredSound ==
  ASSUME AgentInv, NEW p \in Names, NEW i \in 0..Latest(p), At(p, i) # Absent
  PROVE  /\ i \in 1..Latest(p) /\ log[p][i] = At(p, i)
         /\ C!DesiredRule(At(p, i)) \in C!Rule \cup {Absent}
<1>1. StoreOK /\ Latest(p) \in Nat
  BY LogTypes DEF AgentInv, TypeOK
<1>2. PICK v : v = At(p, i)
  OBVIOUS
<1>3. i \in 1..Latest(p) /\ v = log[p][i] /\ v \in Version /\ v # Absent
  BY <1>1, <1>2, VersionAt
<1>4. ASSUME C!DesiredRule(v) # Absent PROVE C!DesiredRule(v) \in C!Rule
  <2>1. C!DesiredRule(v) = [owner |-> v.uid, action |-> C!KernelAction(v.spec), ips |-> v.ips]
        /\ v.ips # {}
    BY <1>4 DEF C!DesiredRule
  <2>2. C!KernelAction(v.spec) \in {"Sigkill", "Override"}
    BY DEF C!KernelAction
  <2>3. v.uid \in Nat /\ v.ips \in (SUBSET IPs) \ {{}}
    BY <1>3, <2>1 DEF Version
  <2>4. \A u \in Nat, k \in {"Sigkill", "Override"}, S \in (SUBSET IPs) \ {{}} :
          [owner |-> u, action |-> k, ips |-> S] \in C!Rule
    BY DEF C!Rule
  <2> QED
    BY <2>1, <2>2, <2>3, <2>4
<1> QED
  BY <1>2, <1>3, <1>4

LEMMA TaskTypes ==
  ASSUME AgentInv, TaskSound(task), task # Absent
  PROVE  /\ task \in C!Task
         /\ task.policy \in Names
         /\ Latest(task.policy) \in Nat
         /\ task.rv \in 0..Latest(task.policy)
         /\ task.pc # "read" => C!Copy # Absent /\ C!Copy = At(task.policy, task.rv)
<1>1. task \in C!Task /\ task.rv <= Latest(task.policy)
      /\ (task.pc # "read" => At(task.policy, task.rv) # Absent)
  BY DEF TaskSound
<1>2. task.policy \in Names /\ task.rv \in Nat
  BY <1>1 DEF C!Task
<1>3. Latest(task.policy) \in Nat
  BY <1>2, LogTypes DEF AgentInv, TypeOK
<1>4. C!Copy = At(task.policy, task.rv)
  BY SameReads DEF C!Copy
<1> QED
  BY <1>1, <1>2, <1>3, <1>4

\* A call of Reconcile that goes on with the copy it has.
LEMMA GoOn ==
  ASSUME AgentInv, TaskSound(task), task # Absent, task.pc # "read", NEW pc, C!GoTo(pc),
         pc \in {"apply", "create", "update", "remove", "delete", "status"}
  PROVE  TaskSound(task')
<1>1. task \in C!Task /\ task' = [task EXCEPT !.pc = pc]
  BY TaskTypes DEF C!GoTo
<1>2. task' \in C!Task /\ task'.policy = task.policy /\ task'.rv = task.rv
  BY <1>1 DEF C!Task
<1> QED
  BY <1>2 DEF TaskSound

\* The writes to the TracingPolicies.
LEMMA InstallSound ==
  ASSUME AgentInv, HooksSound(rule), TaskSound(task), task # Absent, task.pc # "read",
         C!InstallRule
  PROVE  HooksSound(rule')
<1>1. PICK p \in Names : p = task.policy
  BY TaskTypes
<1>2. PICK i \in 0..Latest(p) : i = task.rv
  BY <1>1, TaskTypes
<1> DEFINE r == C!DesiredRule(C!Copy)
<1>3. At(p, i) # Absent /\ C!Copy = At(p, i)
  BY <1>1, <1>2, TaskTypes
<1>4. r \in C!Rule \cup {Absent} /\ \E j \in 1..Latest(p) : log[p][j] # Absent /\ r = C!DesiredRule(log[p][j])
  BY <1>2, <1>3, DesiredSound
<1>5. rule' = [rule EXCEPT ![p] = r]
  BY <1>1, <1>2 DEF C!InstallRule
<1> QED
  BY <1>4, <1>5 DEF HooksSound

LEMMA RemovalSound ==
  ASSUME HooksSound(rule), NEW p \in Names, rule' = [rule EXCEPT ![p] = Absent]
  PROVE  HooksSound(rule')
  BY DEF HooksSound

\* The Ready condition is all that the controller ever writes into a policy.
Readied(p) ==
  /\ Exists(p)
  /\ ~Current(p).ready
  /\ Put(p, [Current(p) EXCEPT !.ready = TRUE])

LEMMA StatusReadies ==
  ASSUME AgentInv, TaskSound(task), C!Doing("status"), C!Fresh,
         IF C!Copy.ready THEN UNCHANGED log
         ELSE C!Put(task.policy, [C!Copy EXCEPT !.ready = TRUE])
  PROVE  UNCHANGED log \/ \E p \in Names : Readied(p)
<1>1. PICK p \in Names : p = task.policy
  BY TaskTypes DEF C!Doing
<1>2. task # Absent /\ task.pc # "read" /\ task.rv = Latest(p)
  BY <1>1, SameReads DEF C!Doing, C!Fresh
<1>3. C!Copy = Current(p) /\ Exists(p)
  BY <1>1, <1>2, TaskTypes DEF Current, Exists
<1>4. CASE C!Copy.ready
  BY <1>4
<1>5. CASE ~C!Copy.ready
  <2>1. Put(p, [Current(p) EXCEPT !.ready = TRUE])
    BY <1>1, <1>3, <1>5 DEF C!Put, Put
  <2> QED
    BY <1>3, <1>5, <2>1 DEF Readied
<1> QED
  BY <1>4, <1>5

Moved ==
  /\ UNCHANGED log \/ \E p \in Names : Readied(p)
  /\ HooksSound(rule') /\ TaskSound(task') /\ CacheSound(cached')

LEMMA ManagerMoves ==
  ASSUME LoopInv, NEW p \in Names, C!CacheAdvances(p) \/ C!Resync(p) \/ C!Dequeue(p)
  PROVE  Moved
<1> USE DEF LoopInv
<1>1. Latest(p) \in Nat /\ cached \in [Names -> Nat] /\ \A q \in Names : cached[q] <= Latest(q)
  BY LogTypes DEF AgentInv, TypeOK, CacheSound
<1>2. CASE C!CacheAdvances(p)
  <2>1. PICK i \in cached[p] + 1..Latest(p) :
          cached' = [cached EXCEPT ![p] = i] /\ UNCHANGED <<log, rule, task>>
    BY <1>2, SameReads DEF C!CacheAdvances
  <2>2. i \in Nat /\ i <= Latest(p)
    BY <1>1
  <2>3. CacheSound(cached')
    BY <1>1, <2>1, <2>2 DEF CacheSound
  <2> QED
    BY <2>1, <2>3 DEF Moved
<1>3. CASE C!Resync(p)
  BY <1>3 DEF C!Resync, Moved
<1>4. CASE C!Dequeue(p)
  <2>1. task' = [pc |-> "read", policy |-> p, rv |-> 0] /\ UNCHANGED <<log, rule, cached>>
    BY <1>4 DEF C!Dequeue
  <2>2. task' \in C!Task /\ task'.pc = "read" /\ task'.rv <= Latest(task'.policy)
    BY <1>1, <2>1 DEF C!Task
  <2> QED
    BY <2>1, <2>2 DEF Moved, TaskSound
<1> QED
  BY <1>2, <1>3, <1>4

LEMMA ReadMoves ==
  ASSUME LoopInv, C!ReadPolicy
  PROVE  Moved
<1> USE DEF LoopInv
<1>1. PICK p \in Names, i \in Nat : p = task.policy /\ i = cached[p]
  BY TaskTypes DEF C!ReadPolicy, C!Doing, CacheSound
<1>2. task # Absent /\ task \in C!Task /\ UNCHANGED <<log, rule, cached>> /\ i <= Latest(p)
  BY <1>1, TaskTypes DEF C!ReadPolicy, C!Doing, CacheSound
<1>3. CASE At(p, i) = Absent
  BY <1>1, <1>2, <1>3, SameReads DEF C!ReadPolicy, C!Done, Moved, TaskSound
<1>4. CASE At(p, i) # Absent
  <2>1. PICK pc \in {"apply", "remove"} : task' = [task EXCEPT !.rv = i, !.pc = pc]
    BY <1>1, <1>4, SameReads DEF C!ReadPolicy
  <2>2. task' \in C!Task /\ task'.policy = p /\ task'.rv = i
    BY <1>1, <1>2, <2>1 DEF C!Task
  <2>3. TaskSound(task')
    BY <1>2, <1>4, <2>2 DEF TaskSound
  <2> QED
    BY <1>2, <2>3 DEF Moved
<1> QED
  BY <1>3, <1>4

LEMMA ReconcileMoves ==
  ASSUME LoopInv, C!Reconcile
  PROVE  Moved
<1> USE DEF LoopInv
<1>1. CASE C!ReadPolicy
  BY <1>1, ReadMoves
<1>2. CASE C!GetForApply \/ C!GetForRemove
  <2>1. PICK pc \in {"create", "update", "status", "delete"} : C!GoTo(pc)
    BY <1>2 DEF C!GetForApply, C!GetForRemove
  <2>2. task # Absent /\ task.pc # "read" /\ UNCHANGED <<log, rule, cached>>
    BY <1>2 DEF C!GetForApply, C!GetForRemove, C!Doing
  <2> QED
    BY <2>1, <2>2, GoOn DEF Moved
<1>3. CASE C!ApplyRule
  <2>1. /\ task # Absent /\ task.pc # "read" /\ C!InstallRule /\ C!GoTo("status")
        /\ UNCHANGED <<log, cached>>
    BY <1>3 DEF C!ApplyRule, C!Applicable, C!Doing, C!InstallRule
  <2> QED
    BY <2>1, GoOn, InstallSound DEF Moved
<1>4. CASE C!DeleteRule
  <2>1. PICK p \in Names : p = task.policy
    BY <1>4, TaskTypes DEF C!DeleteRule, C!Doing
  <2>2. task # Absent /\ task.pc # "read" /\ UNCHANGED <<log, cached>>
    BY <1>4 DEF C!DeleteRule, C!Doing
  <2>3. CASE rule[p] # Absent
    <3>1. rule' = [rule EXCEPT ![p] = Absent] /\ C!GoTo("status")
      BY <1>4, <2>1, <2>3 DEF C!DeleteRule
    <3> QED
      BY <2>2, <3>1, GoOn, RemovalSound DEF Moved
  <2>4. CASE rule[p] = Absent
    <3>1. UNCHANGED rule /\ task' = Absent
      BY <1>4, <2>1, <2>4 DEF C!DeleteRule, C!Retry
    <3> QED
      BY <2>2, <3>1 DEF Moved, TaskSound
  <2> QED
    BY <2>3, <2>4
<1>5. CASE C!WriteStatus
  <2>1. UNCHANGED log \/ \E p \in Names : Readied(p)
    BY <1>5, StatusReadies DEF C!WriteStatus
  <2>2. task' = Absent /\ UNCHANGED <<rule, cached>>
    BY <1>5 DEF C!WriteStatus, C!Done
  <2> QED
    BY <2>1, <2>2 DEF Moved, TaskSound
<1>6. CASE C!ApplyRefused \/ C!StatusConflicts
  BY <1>6 DEF C!ApplyRefused, C!StatusConflicts, C!Retry, Moved, TaskSound
<1> QED
  BY <1>1, <1>2, <1>3, <1>4, <1>5, <1>6 DEF C!Reconcile

LEMMA FaultsMove ==
  ASSUME LoopInv, C!Faults
  PROVE  Moved
<1> USE DEF LoopInv
<1>1. CASE C!ApiError
  BY <1>1 DEF C!ApiError, C!Retry, Moved, TaskSound
<1>2. CASE C!Restart
  <2>1. CacheSound([p \in Names |-> 0])
    BY LogTypes DEF CacheSound, AgentInv, TypeOK
  <2> QED
    BY <1>2, <2>1 DEF C!Restart, Moved, TaskSound
<1>3. CASE C!ReplyLost
  <2>1. task' = Absent
    BY <1>3 DEF C!ReplyLost, C!Retry
  <2>2. CASE C!Applicable /\ C!InstallRule
    <3>1. task # Absent /\ task.pc # "read" /\ UNCHANGED <<log, cached>>
      BY <2>2 DEF C!Applicable, C!Doing, C!InstallRule
    <3> QED
      BY <2>1, <2>2, <3>1, InstallSound DEF Moved, TaskSound
  <2>3. CASE /\ C!Doing("delete")
             /\ rule' = [rule EXCEPT ![task.policy] = Absent]
             /\ UNCHANGED <<log, cached>>
    <3>1. PICK p \in Names : p = task.policy
      BY <2>3, TaskTypes DEF C!Doing
    <3> QED
      BY <2>1, <2>3, <3>1, RemovalSound DEF Moved, TaskSound
  <2>4. CASE /\ C!Doing("status") /\ C!Fresh /\ ~C!Copy.ready
             /\ C!Put(task.policy, [C!Copy EXCEPT !.ready = TRUE])
             /\ UNCHANGED <<rule, cached>>
    BY <2>1, <2>4, StatusReadies DEF Moved, TaskSound
  <2> QED
    BY <1>3, <2>2, <2>3, <2>4 DEF C!ReplyLost
<1> QED
  BY <1>1, <1>2, <1>3 DEF C!Faults, C!CallFails

-----------------------------------------------------------------------------
(* The steps of the loop *)

LEMMA ReadiedGrows ==
  ASSUME AgentInv, NEW p \in Names, Readied(p)
  PROVE  OnlyGrows
<1> DEFINE v == [Current(p) EXCEPT !.ready = TRUE]
<1>1. StoreOK /\ Exists(p) /\ Put(p, v)
  BY DEF AgentInv, TypeOK, Readied
<1>2. Current(p) \in Version /\ Current(p).uid \in 1..Latest(p) /\ Latest(p) \in Nat
  BY <1>1, CurrentVersion
<1>3. v \in Version /\ v.uid = Current(p).uid
  BY <1>2 DEF Version
<1>4. Fits(p, v)
  BY <1>2, <1>3 DEF Fits
<1> QED
  BY <1>1, <1>4, PutGrows

\* To the agents a step of the controller is MarkReady, or nothing.
LEMMA ControllerExpected ==
  ASSUME LoopInv, C!ControllerStep, UNCHANGED <<agentVars, loaded>>
  PROVE  LoopInv' /\ [Next]_vars
<1>1. Moved /\ AgentInv /\ StoreOK /\ LoadedSound(loaded)
  BY ManagerMoves, ReconcileMoves, FaultsMove DEF C!ControllerStep, LoopInv, AgentInv, TypeOK
<1>2. CASE UNCHANGED log
  <2>1. UNCHANGED vars
    BY <1>2 DEF vars
  <2> QED
    BY <1>1, <1>2, <2>1, AgentStutter, SameGrows, SoundStep DEF Moved
<1>3. ASSUME NEW p \in Names, Readied(p) PROVE LoopInv' /\ [Next]_vars
  <2>1. MarkReady(p)
    BY <1>3 DEF Readied, MarkReady
  <2> QED
    BY <1>1, <1>3, <2>1, MarkReadyKeeps, ReadiedGrows, SoundStep DEF Moved, Next
<1> QED
  BY <1>1, <1>2, <1>3 DEF Moved

LEMMA GarbageExpected ==
  ASSUME LoopInv, NEW p \in Names, C!CollectGarbage(p), UNCHANGED <<agentVars, loaded>>
  PROVE  LoopInv' /\ [Next]_vars /\ [C!Next]_C!vars
<1>1. /\ rule' = [rule EXCEPT ![p] = Absent] /\ UNCHANGED <<log, cached, queue, task>>
      /\ UNCHANGED vars
  BY DEF C!CollectGarbage, vars
<1>2. HooksSound(rule') /\ AgentInv' /\ OnlyGrows /\ StoreOK
  BY <1>1, RemovalSound, AgentStutter, SameGrows DEF LoopInv, AgentInv, TypeOK
<1> QED
  BY <1>1, <1>2, SoundStep DEF LoopInv, C!Next, C!Foreseen

LEMMA LoadExpected ==
  ASSUME LoopInv, NEW a \in Agents, NEW p \in Names, LoadRule(a, p)
  PROVE  LoopInv' /\ [Next]_vars /\ [C!Next]_C!vars
<1>1. /\ loaded' = [loaded EXCEPT ![a][p] = rule[p]]
      /\ UNCHANGED <<log, rule, cached, task>>
      /\ UNCHANGED vars /\ UNCHANGED C!vars
  BY DEF LoadRule, vars, ctrlVars, C!vars, C!ctrlVars
<1>2. AgentInv' /\ OnlyGrows /\ StoreOK
  BY <1>1, AgentStutter, SameGrows DEF LoopInv, AgentInv, TypeOK
<1>3. LoadedSound(loaded')
  <2>1. /\ loaded \in [Agents -> [Names -> C!Rule \cup {Absent}]]
        /\ rule[p] \in C!Rule \cup {Absent}
    BY DEF LoopInv, LoadedSound, HooksSound
  <2>2. loaded' \in [Agents -> [Names -> C!Rule \cup {Absent}]]
    BY <1>1, <2>1
  <2>3. \A b \in Agents, q \in Names :
          loaded'[b][q] = loaded[b][q] \/ (q = p /\ loaded'[b][q] = rule[p])
    BY <1>1, <2>1
  <2>4. ASSUME NEW b \in Agents PROVE HooksSound(loaded'[b])
    <3>1. HooksSound(rule) /\ HooksSound(loaded[b])
      BY DEF LoopInv, LoadedSound
    <3>2. loaded'[b] \in [Names -> C!Rule \cup {Absent}]
      BY <2>2
    <3>3. PICK h : h = loaded'[b]
      OBVIOUS
    <3> QED
      BY ONLY <2>3, <3>1, <3>2, <3>3 DEF HooksSound
  <2> QED
    BY <2>2, <2>4 DEF LoadedSound
<1> QED
  BY <1>1, <1>2, <1>3, SoundStep DEF LoopInv

LEMMA UsersExpected ==
  ASSUME LoopInv, UserStep, UNCHANGED <<agentVars, ctrlVars, loaded>>
  PROVE  LoopInv' /\ [Next]_vars /\ [C!Next]_C!vars
<1>1. Users /\ StoreOK /\ AgentInv'
  BY UsersKeep DEF Users, LoopInv, AgentInv, TypeOK
<1>2. OnlyGrows
  BY <1>1, UserAppends, PutGrows DEF Users
<1>3. LoopInv'
  BY <1>1, <1>2, SoundStep DEF LoopInv, ctrlVars
<1>4. C!UserStep
  BY SameReads
     DEF UserStep, CreatePolicy, EditPolicy, DeletePolicy, ClearAddresses, UserMay, Put,
         C!UserStep, C!CreatePolicy, C!EditPolicy, C!DeletePolicy, C!ClearAddresses, C!UserMay,
         C!Put
<1>5. C!Users
  BY <1>4 DEF C!Users, ctrlVars, C!ctrlVars
<1> QED
  BY <1>1, <1>3, <1>5 DEF Next, C!Next, C!Foreseen

\* To the controller a step of an agent is AgentReports, or nothing.
LEMMA AgentsExpected ==
  ASSUME LoopInv, NEW a \in Agents, AgentStep(a), UNCHANGED <<ctrlVars, loaded>>
  PROVE  LoopInv' /\ [C!Next]_C!vars
<1>1. AgentInv /\ StoreOK /\ AgentInv'
  BY AgentStepKeeps DEF LoopInv, AgentInv, TypeOK
<1>2. CASE ~(UpdateStatus(a) \/ ReplyLost(a))
  <2>1. UNCHANGED log
    BY <1>2 DEF AgentStep, DeliverPolicy, HandleEvent, GetPolicy, UpdateConflicts, UpdateNotFound,
                UpdateTooLarge, ApiError, Crash
  <2> QED
    BY <1>1, <2>1, SameGrows, SoundStep DEF LoopInv, ctrlVars, C!vars, C!ctrlVars
<1>3. CASE UpdateStatus(a) \/ ReplyLost(a)
  <2>1. PICK p \in Names, ip \in IPs : p = report[a].policy /\ ip = report[a].ip
    BY <1>1, <1>3, ReportType DEF UpdateStatus, ReplyLost, AgentInv
  <2>2. PICK v : v = Appended(a)
    OBVIOUS
  <2>3. /\ report[a] # Absent /\ report[a].pc = "update" /\ report[a].rv = Latest(report[a].policy)
        /\ Put(p, v)
    BY <1>3, <2>1, <2>2 DEF UpdateStatus, ReplyLost
  <2>4. /\ Exists(p) /\ ip \notin Current(p).ips /\ Fits(p, v)
        /\ v = [Current(p) EXCEPT !.ips = @ \cup {ip}]
    BY <1>1, <2>1, <2>2, <2>3, AppendedFits
  <2>5. CondemnedBy(p, Latest(p), ip)
    BY <1>1, <2>1, <2>3 DEF AgentInv, ReportsSound, ReportSound
  <2>6. C!AgentReports(p, ip)
    BY <2>3, <2>4, <2>5, SameReads, SameJudgement DEF C!AgentReports, C!Put, Put, ctrlVars, C!ctrlVars
  <2>7. OnlyGrows
    BY <1>1, <2>3, <2>4, PutGrows
  <2> QED
    BY <1>1, <2>6, <2>7, SoundStep DEF LoopInv, ctrlVars, C!Next, C!Foreseen
<1> QED
  BY <1>2, <1>3

LEMMA LoopStarts == LoopInit => LoopInv /\ C!Init
<1> SUFFICES ASSUME LoopInit PROVE LoopInv
  BY DEF LoopInit
<1>1. AgentInv
  BY AgentInit DEF LoopInit
<1>2. \A p \in Names : Latest(p) = 0
  BY DEF LoopInit, Init, StoreInit, Latest
<1>3. /\ rule = [p \in Names |-> Absent] /\ cached = [p \in Names |-> 0] /\ task = Absent
      /\ loaded = [a \in Agents |-> [p \in Names |-> Absent]]
  BY DEF LoopInit, C!Init
<1> QED
  BY <1>1, <1>2, <1>3 DEF LoopInv, HooksSound, TaskSound, CacheSound, LoadedSound

LEMMA LoopStep == LoopInv /\ [LoopNext]_loopVars => LoopInv' /\ [Next]_vars /\ [C!Next]_C!vars
<1> SUFFICES ASSUME LoopInv, [LoopNext]_loopVars
             PROVE  LoopInv' /\ [Next]_vars /\ [C!Next]_C!vars
  OBVIOUS
<1>1. CASE UNCHANGED loopVars
  <2>1. /\ UNCHANGED vars /\ UNCHANGED C!vars /\ UNCHANGED <<rule, task, cached, loaded>>
        /\ UNCHANGED log
    BY <1>1 DEF loopVars, vars, ctrlVars, C!vars, C!ctrlVars
  <2>2. AgentInv' /\ OnlyGrows /\ StoreOK
    BY <2>1, AgentStutter, SameGrows DEF LoopInv, AgentInv, TypeOK
  <2> QED
    BY <2>1, <2>2, SoundStep DEF LoopInv
<1>2. ASSUME NEW a \in Agents, AgentStep(a), UNCHANGED <<ctrlVars, loaded>>
      PROVE  LoopInv' /\ [Next]_vars /\ [C!Next]_C!vars
  BY <1>2, AgentsExpected DEF Next
<1>3. ASSUME C!ControllerStep, UNCHANGED <<agentVars, loaded>>
      PROVE  LoopInv' /\ [Next]_vars /\ [C!Next]_C!vars
  BY <1>3, ControllerExpected DEF C!Next, C!Foreseen
<1> QED
  BY <1>1, <1>2, <1>3, GarbageExpected, LoadExpected, UsersExpected DEF LoopNext

LEMMA LoopInvariant == LoopSpec => []LoopInv
<1>1. LoopInit => LoopInv
  BY LoopStarts
<1>2. LoopInv /\ [LoopNext]_loopVars => LoopInv'
  BY LoopStep
<1> QED
  BY <1>1, <1>2, PTL DEF LoopSpec

\* In the loop the agents see nothing but what their own specification allows: all
\* that is proved of the agents alone, beside a controller that only ever sets the
\* Ready condition, is true of them beside the real one.
THEOREM AgentsUndisturbed == LoopSpec => AgentsAsAlone
<1>1. LoopInit => Init
  BY DEF LoopInit
<1>2. LoopInv /\ [LoopNext]_loopVars => [Next]_vars
  BY LoopStep
<1> QED
  BY <1>1, <1>2, LoopInvariant, PTL DEF LoopSpec, Spec, AgentsAsAlone

\* And the controller sees nothing but what its own specification allows: an agent
\* only ever adds to a live policy an address that one of its specs condemned, so
\* what is proved of the controller alone is true of it beside the real agents.
THEOREM ControllerUndisturbed == LoopSpec => ControllerAsAlone
<1>1. LoopInit => C!Init
  BY LoopStarts
<1>2. LoopInv /\ [LoopNext]_loopVars => [C!Next]_C!vars
  BY LoopStep
<1> QED
  BY <1>1, <1>2, LoopInvariant, PTL DEF LoopSpec, C!Spec, ControllerAsAlone

\* A hook matches only what the version that asked for it lists, and that version
\* blocks.
LEMMA HooksHaveCause ==
  ASSUME NEW v, C!DesiredRule(v) # Absent
  PROVE  Blocks(v.spec) /\ C!DesiredRule(v).ips = v.ips
<1>1. C!DesiredRule(v) = [owner |-> v.uid, action |-> C!KernelAction(v.spec), ips |-> v.ips]
      /\ C!Blocks(v.spec)
  BY DEF C!DesiredRule
<1> QED
  BY <1>1 DEF C!Blocks, C!HasAction, Blocks, HasAction

\* Whatever a kernel of the cluster refuses, some version of a policy that blocks
\* lists a violator with the same first 32 bits, which for IPv4 is the destination
\* itself: no stale copy, lost reply, restart or recreated policy puts a hook
\* anywhere for another reason (buildTracingPolicy, reporter.go).
THEOREM OnlyForTheCondemned == LoopSpec => []BlockedWithCause
<1>1. LoopInv => BlockedWithCause
  <2> SUFFICES ASSUME LoopInv, NEW a \in Agents, NEW ns \in Namespaces, NEW ip \in IPs,
                      Blocked(a, ns, ip)
               PROVE  \E p \in Names : \E i \in 1..Latest(p) :
                        /\ log[p][i] # Absent
                        /\ Blocks(log[p][i].spec)
                        /\ \E violator \in log[p][i].ips :
                             /\ CondemnedBy(p, i, violator)
                             /\ ip = violator \/ (Family[ip] = 6 /\ ip \in Slash32(violator))
    BY DEF BlockedWithCause
  <2>1. PICK p \in Names : loaded[a][p] # Absent
                           /\ \E listed \in loaded[a][p].ips : ip \in Slash32(listed)
    BY DEF Blocked
  <2>2. PICK violator \in loaded[a][p].ips : ip \in Slash32(violator)
    BY <2>1
  <2>3. PICK i \in 1..Latest(p) : log[p][i] # Absent /\ loaded[a][p] = C!DesiredRule(log[p][i])
    BY <2>1 DEF LoopInv, LoadedSound, HooksSound
  <2>4. loaded[a][p] \in C!Rule
    BY <2>1 DEF LoopInv, LoadedSound
  <2>5. Blocks(log[p][i].spec) /\ violator \in log[p][i].ips
    BY <2>1, <2>2, <2>3, HooksHaveCause
  <2>6. CondemnedBy(p, i, violator)
    BY <2>3, <2>5 DEF LoopInv, AgentInv, Justified
  <2>7. violator \in IPs
    BY <2>2, <2>4 DEF C!Rule
  <2>8. ip = violator \/ Family[ip] = 6
    BY <2>2, <2>7, FamilyAssumption, First32Assumption DEF Slash32
  <2> QED
    BY <2>2, <2>3, <2>5, <2>6, <2>8
<1> QED
  BY <1>1, LoopInvariant, PTL
=============================================================================
