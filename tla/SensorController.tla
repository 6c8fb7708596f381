-------------------------- MODULE SensorController --------------------------
(***************************************************************************)
(* internal/controller/sovereignsensor_controller.go: the reconciler that  *)
(* deploys the node agents of a SovereignSensor.  The ServiceAccount and   *)
(* the DaemonSet are owned by the sensor and garbage collected with it;    *)
(* the ClusterRole and its binding are cleaned up behind a finalizer.      *)
(* Children are looked up in caches that lag and are created when missing, *)
(* never changed.  One sensor is modelled: its children carry its name, so *)
(* sensors share nothing but the baseline TracingPolicy, which is applied  *)
(* by all and removed by none.                                             *)
(***************************************************************************)
EXTENDS Naturals, Sequences

CONSTANTS
  TargetNamespaces,   \* values of spec.targetNamespace
  UserOps,            \* which of "create", "edit", "delete" users perform
  MaxLog,             \* users stop writing to a sensor with this many versions
  FaultKinds,         \* which of "error", "lost", "restart", "stray" occur
  MaxFaults,          \* faults that may still come
  Cluster,            \* the namespace of a cluster-scoped object
  Absent              \* no object, no call

ASSUME MaxFaultsAssumption == MaxFaults \in Nat

VARIABLES
  log,         \* the versions of the sensor in the API server
  objects,     \* per child: the object in the cluster, or Absent
  baseline,    \* the sovereign-tcp-monitor TracingPolicy has been applied
  cached,      \* the version of the sensor in the manager's cache
  seen,        \* the children in the manager's caches
  queued,      \* the sensor's name waits in the workqueue
  task,        \* the Reconcile call in progress, or Absent
  faults       \* faults so far

vars == <<log, objects, baseline, cached, seen, queued, task, faults>>

Version ==
  [ uid : Nat, target : TargetNamespaces,
    finalizer : BOOLEAN, deleting : BOOLEAN, running : BOOLEAN ]

ASSUME NoVersionAssumption == Absent \notin Version

Role     == <<"role", Cluster>>
Binding  == <<"binding", Cluster>>
Children == ({"sa", "ds"} \X TargetNamespaces) \cup {Role, Binding}

\* A child: the UID of its owner, 0 for none, and the namespace it was made for.
Object == [owner : Nat, target : TargetNamespaces]

\* The children of a sensor in the order in which they are created.
Desired(version) ==
  << <<"sa", version.target>>, <<"ds", version.target>>, Role, Binding >>

Task ==
  [ pc : {"read", "unbind", "unrole", "release", "finalize", "baseline",
          "ensure", "create", "status"},
    rv : Nat, next : 1..4 ]

Latest  == Len(log)
At(i)   == IF i = 0 THEN Absent ELSE log[i]
Current == At(Latest)
Exists  == Current # Absent

Put(version) == log' = Append(log, version)

Init ==
  /\ log = << >>
  /\ objects = [c \in Children |-> Absent]
  /\ baseline = FALSE
  /\ cached = 0
  /\ seen = {}
  /\ queued = FALSE
  /\ task = Absent
  /\ faults = 0
-----------------------------------------------------------------------------
(* Users *)

UserMay(op) == op \in UserOps /\ Latest < MaxLog

CreateSensor(ns) ==
  /\ UserMay("create")
  /\ ~Exists
  /\ Put([uid |-> Latest + 1, target |-> ns,
          finalizer |-> FALSE, deleting |-> FALSE, running |-> FALSE])
  /\ UNCHANGED <<objects, baseline, cached, seen, queued, task, faults>>

EditTarget(ns) ==
  /\ UserMay("edit")
  /\ Exists
  /\ ns # Current.target
  /\ Put([Current EXCEPT !.target = ns])
  /\ UNCHANGED <<objects, baseline, cached, seen, queued, task, faults>>

\* A sensor with a finalizer is only marked; the last finalizer holds it.
DeleteSensor ==
  /\ UserMay("delete")
  /\ Exists
  /\ ~Current.deleting
  /\ Put(IF Current.finalizer THEN [Current EXCEPT !.deleting = TRUE] ELSE Absent)
  /\ UNCHANGED <<objects, baseline, cached, seen, queued, task, faults>>
-----------------------------------------------------------------------------
(* The manager: caches, event sources and workqueue *)

CacheAdvances ==
  \E i \in cached + 1..Latest :
    /\ cached' = i
    /\ queued' = (queued \/ At(cached) # Absent \/ log[i] # Absent)
    /\ UNCHANGED <<log, objects, baseline, seen, task, faults>>

\* The cache of a child's kind catches up; only DaemonSets wake the controller.
SeeChild(c) ==
  /\ (c \in seen) # (objects[c] # Absent)
  /\ seen' = IF c \in seen THEN seen \ {c} ELSE seen \cup {c}
  /\ queued' = (queued \/ c[1] = "ds")
  /\ UNCHANGED <<log, objects, baseline, cached, task, faults>>

\* A resync, or a DaemonSet whose status has changed.
Resync ==
  /\ At(cached) # Absent
  /\ queued' = TRUE
  /\ UNCHANGED <<log, objects, baseline, cached, seen, task, faults>>

Dequeue ==
  /\ task = Absent
  /\ queued
  /\ queued' = FALSE
  /\ task' = [pc |-> "read", rv |-> 0, next |-> 1]
  /\ UNCHANGED <<log, objects, baseline, cached, seen, faults>>
-----------------------------------------------------------------------------
(* Reconcile *)

Doing(pc) == task # Absent /\ task.pc = pc
Copy      == At(task.rv)
Child     == Desired(Copy)[task.next]
Fresh     == task.rv = Latest

GoTo(pc) == task' = [task EXCEPT !.pc = pc] /\ UNCHANGED queued
Done     == task' = Absent /\ UNCHANGED queued
Retry    == task' = Absent /\ queued' = TRUE

\* Faulty: one child more than there are.
NextChildPastEnd ==
  /\ task' = IF task.next > 4 THEN [task EXCEPT !.pc = "status"]
             ELSE [task EXCEPT !.pc = "ensure", !.next = @ + 1]
  /\ UNCHANGED queued

\* The next child, or the status after the last.
NextChild ==
  /\ task' = IF task.next = 4 THEN [task EXCEPT !.pc = "status"]
             ELSE [task EXCEPT !.pc = "ensure", !.next = @ + 1]
  /\ UNCHANGED queued

\* Faulty: the finalizer is added at the end, with the status.
ReadWithoutFinalizing ==
  /\ Doing("read")
  /\ LET v == At(cached)
     IN  IF v = Absent \/ (v.deleting /\ ~v.finalizer) THEN Done
         ELSE /\ task' = [task EXCEPT !.rv = cached,
                            !.pc = IF v.deleting THEN "unbind" ELSE "baseline"]
              /\ UNCHANGED queued
  /\ UNCHANGED <<log, objects, baseline, cached, seen, faults>>

ReadSensor ==
  /\ Doing("read")
  /\ LET v == At(cached)
     IN  IF v = Absent \/ (v.deleting /\ ~v.finalizer) THEN Done
         ELSE /\ task' = [task EXCEPT !.rv = cached,
                            !.pc = IF v.deleting THEN "unbind"
                                   ELSE IF v.finalizer THEN "baseline" ELSE "finalize"]
              /\ UNCHANGED queued
  /\ UNCHANGED <<log, objects, baseline, cached, seen, faults>>

Drop(c) == objects' = [objects EXCEPT ![c] = Absent]

\* The writes to the cluster, each with the condition for its success.
Unbinding  == Doing("unbind") /\ Drop(Binding) /\ UNCHANGED <<log, baseline>>
Unroling   == Doing("unrole") /\ Drop(Role) /\ UNCHANGED <<log, baseline>>
Releasing  == Doing("release") /\ Fresh /\ Put(Absent) /\ UNCHANGED <<objects, baseline>>
Finalizing ==
  /\ Doing("finalize") /\ Fresh
  /\ Put([Copy EXCEPT !.finalizer = TRUE])
  /\ UNCHANGED <<objects, baseline>>
Patching   == Doing("baseline") /\ baseline' = TRUE /\ UNCHANGED <<log, objects>>
Creating   ==
  /\ Doing("create") /\ objects[Child] = Absent
  /\ objects' = [objects EXCEPT ![Child] =
                   [owner |-> IF Child \in {Role, Binding} THEN 0 ELSE Copy.uid,
                    target |-> Copy.target]]
  /\ UNCHANGED <<log, baseline>>
Marking    ==
  /\ Doing("status") /\ Fresh
  /\ IF Copy.running THEN UNCHANGED log ELSE Put([Copy EXCEPT !.running = TRUE])
  /\ UNCHANGED <<objects, baseline>>

\* Faulty: the role is left behind.
CleanupSkipsRole ==
  /\ \/ Unbinding /\ GoTo("release")
     \/ Releasing /\ Done
  /\ UNCHANGED <<cached, seen, faults>>

\* The cleanup in its order: the binding, the role, the finalizer.
Cleanup ==
  /\ \/ Unbinding /\ GoTo("unrole")
     \/ Unroling /\ GoTo("release")
     \/ Releasing /\ Done
  /\ UNCHANGED <<cached, seen, faults>>

\* The update that adds the finalizer returns the version it made.
AddFinalizer ==
  /\ Finalizing
  /\ task' = [task EXCEPT !.pc = "baseline", !.rv = Latest + 1]
  /\ UNCHANGED <<cached, seen, queued, faults>>

ApplyBaseline == Patching /\ GoTo("ensure") /\ UNCHANGED <<cached, seen, faults>>

\* Faulty: the children of a sensor that runs are not looked at again.
EnsureUnlessRunning ==
  /\ Doing("ensure")
  /\ IF Copy.running \/ Child \in seen THEN NextChild ELSE GoTo("create")
  /\ UNCHANGED <<log, objects, baseline, cached, seen, faults>>

\* createIfNotExists: a child found in the cache is left as it is.
EnsureChild ==
  /\ Doing("ensure")
  /\ IF Child \in seen THEN NextChild ELSE GoTo("create")
  /\ UNCHANGED <<log, objects, baseline, cached, seen, faults>>

CreateChild == Creating /\ NextChild /\ UNCHANGED <<cached, seen, faults>>

WriteStatus == Marking /\ Done /\ UNCHANGED <<cached, seen, faults>>

\* A conflict, a sensor gone since, or a child that the cache does not know yet.
Refused ==
  /\ \/ (Doing("release") \/ Doing("finalize") \/ Doing("status")) /\ ~Fresh
     \/ Doing("create") /\ objects[Child] # Absent
  /\ Retry
  /\ UNCHANGED <<log, objects, baseline, cached, seen, faults>>

Reconcile ==
  \/ ReadSensor
  \/ Cleanup
  \/ AddFinalizer \/ ApplyBaseline \/ EnsureChild \/ CreateChild \/ WriteStatus
  \/ Refused
-----------------------------------------------------------------------------
(* Faults and the rest of the cluster *)

Fault(kind) ==
  /\ kind \in FaultKinds
  /\ faults < MaxFaults
  /\ faults' = faults + 1

ApiError ==
  /\ Fault("error")
  /\ task # Absent
  /\ Retry
  /\ UNCHANGED <<log, objects, baseline, cached, seen>>

\* A write took effect but its answer was lost.
ReplyLost ==
  /\ Fault("lost")
  /\ Unbinding \/ Unroling \/ Releasing \/ Finalizing \/ Patching \/ Creating \/ Marking
  /\ Retry
  /\ UNCHANGED <<cached, seen>>

\* The process is replaced; its caches start from lists of what there is.
Restart ==
  /\ Fault("restart")
  /\ cached' = Latest
  /\ seen' = {c \in Children : objects[c] # Absent}
  /\ queued' = Exists
  /\ task' = Absent
  /\ UNCHANGED <<log, objects, baseline>>

\* Somebody deletes a child by hand.
StrayDelete(c) ==
  /\ Fault("stray")
  /\ objects[c] # Absent
  /\ Drop(c)
  /\ UNCHANGED <<log, baseline, cached, seen, queued, task>>

\* The garbage collector removes an owned child whose owner is gone.
Orphaned(c) ==
  /\ objects[c] # Absent
  /\ objects[c].owner # 0
  /\ Exists => Current.uid # objects[c].owner

CollectGarbage(c) ==
  /\ Orphaned(c)
  /\ Drop(c)
  /\ UNCHANGED <<log, baseline, cached, seen, queued, task, faults>>

Next ==
  \/ \E ns \in TargetNamespaces : CreateSensor(ns) \/ EditTarget(ns)
  \/ DeleteSensor
  \/ CacheAdvances
  \/ \E c \in Children : SeeChild(c) \/ StrayDelete(c) \/ CollectGarbage(c)
  \/ Resync
  \/ Dequeue
  \/ Reconcile
  \/ ApiError \/ ReplyLost \/ Restart

Spec == Init /\ [][Next]_vars

Background == CacheAdvances \/ \E c \in Children : SeeChild(c) \/ CollectGarbage(c)

\* Watches deliver and the garbage collector collects, the resync recurs, and
\* the worker goes on.
Fairness ==
  /\ WF_vars(Background)
  /\ WF_vars(Resync)
  /\ WF_vars(Dequeue)
  /\ WF_vars(Reconcile)

FairSpec == Spec /\ Fairness
-----------------------------------------------------------------------------
TypeOK ==
  /\ log \in Seq(Version \cup {Absent})
  /\ objects \in [Children -> Object \cup {Absent}]
  /\ baseline \in BOOLEAN
  /\ cached \in 0..Latest
  /\ seen \in SUBSET Children
  /\ queued \in BOOLEAN
  /\ task \in Task \cup {Absent}
  /\ task # Absent => task.rv <= Latest
  /\ faults \in 0..MaxFaults

\* "We manage cleanup via a finalizer instead": a ClusterRole or a binding never
\* exists without a sensor whose finalizer will see to its removal.
RBACNotLeaked ==
  objects[Role] # Absent \/ objects[Binding] # Absent => Exists /\ Current.finalizer

\* A child is created only while the very sensor it is made for is stored.
CreatesForTheLiving ==
  [][ \A c \in Children : objects[c] = Absent /\ objects'[c] # Absent
        => Exists /\ Current.uid = Copy.uid ]_vars

Deployed(version) ==
  /\ baseline
  /\ \A i \in 1..4 : objects[Desired(version)[i]] # Absent

\* Once users leave a sensor alone its agents get deployed, although caches lag,
\* calls fail and the leftovers of a predecessor go at their own pace.
EventuallyDeployed == <>[](Exists /\ ~Current.deleting => Deployed(Current))

\* A deleted sensor goes, and with it everything that was made for it.
EventuallyCleaned ==
  <>[]( \/ Exists /\ ~Current.deleting
        \/ ~Exists /\ \A c \in Children : objects[c] = Absent )

\* Nothing is on its way to the controller but the next resync.
Settled ==
  /\ cached = Latest /\ ~queued /\ task = Absent
  /\ seen = {c \in Children : objects[c] # Absent}
  /\ \A c \in Children : ~Orphaned(c)

\* "create/update resources": a sensor at rest has its agents' permissions bound
\* to the ServiceAccount of the namespace that it targets.
BindingFollowsTarget ==
  Settled /\ Exists /\ Current.running /\ ~Current.deleting /\ objects[Binding] # Absent
    => objects[Binding].target = Current.target
=============================================================================
