---------------------------- MODULE SensorProofs ----------------------------
(***************************************************************************)
(* The sensor controller, for every set of namespaces and every schedule   *)
(* of users' writes and faults: the ClusterRole and its binding never      *)
(* outlive the finalizer that will remove them, and no child is created    *)
(* for a sensor that has gone.                                             *)
(***************************************************************************)
EXTENDS SensorController, TLAPS

\* The sensor of this UID is stored, and its finalizer keeps it there.
HeldFor(uid) == Exists /\ Current.finalizer /\ Current.uid = uid

\* The controller may deploy the agents of this version when it reads it.
Deployable(i) == log[i] # Absent /\ log[i].finalizer /\ ~log[i].deleting

\* However far the cache lags behind, it has seen the deletion of every sensor
\* that is gone: only a version as new as the last one could release it.
CacheHeld == \A i \in 1..Latest : cached <= i /\ Deployable(i) => HeldFor(log[i].uid)

\* What the call under way has found, however stale its copy is by now.
TaskHeld ==
  task # Absent =>
    /\ task.pc # "read" => Copy # Absent
    /\ task.pc \in {"baseline", "ensure", "create", "status"} => HeldFor(Copy.uid)
    /\ task.pc \in {"unbind", "unrole", "release"} => Copy.deleting /\ task.rv <= cached
    /\ task.pc \in {"unrole", "release"} => objects[Binding] = Absent
    /\ task.pc = "release" => objects[Role] = Absent

SensorInv == TypeOK /\ RBACNotLeaked /\ CacheHeld /\ TaskHeld

-----------------------------------------------------------------------------
(* The sensor's log *)

StoreTypes ==
  /\ log \in Seq(Version \cup {Absent})
  /\ objects \in [Children -> Object \cup {Absent}]
  /\ baseline \in BOOLEAN
  /\ cached \in 0..Latest

LEMMA LogTypes ==
  ASSUME TypeOK
  PROVE  /\ log \in Seq(Version \cup {Absent})
         /\ Latest \in Nat
         /\ \A i \in 1..Latest : log[i] \in Version \cup {Absent}
         /\ cached \in 0..Latest
  BY DEF TypeOK, Latest

LEMMA VersionAt ==
  ASSUME TypeOK, NEW i \in 0..Latest, At(i) # Absent
  PROVE  i \in 1..Latest /\ At(i) = log[i] /\ At(i) \in Version
<1>1. i # 0
  BY DEF At
<1>2. i \in 1..Latest /\ At(i) = log[i]
  BY <1>1, LogTypes DEF At
<1> QED
  BY <1>2, LogTypes

LEMMA CurrentVersion ==
  ASSUME TypeOK, Exists
  PROVE  Current \in Version /\ Latest \in 1..Latest /\ Current = log[Latest]
<1>1. Latest \in 0..Latest
  BY LogTypes
<1> QED
  BY <1>1, VersionAt DEF Exists, Current

LEMMA PutAppends ==
  ASSUME TypeOK, NEW v \in Version \cup {Absent}, Put(v)
  PROVE  /\ log' \in Seq(Version \cup {Absent})
         /\ Latest' = Latest + 1
         /\ log'[Latest + 1] = v
         /\ \A i \in 1..Latest : log'[i] = log[i]
         /\ Current' = v
<1> DEFINE R == Version \cup {Absent}
<1>1. log \in Seq(R) /\ v \in R /\ log' = Append(log, v) /\ Len(log) \in Nat
  BY DEF TypeOK, Put
<1> HIDE DEF R
<1>2. /\ log' \in Seq(R)
      /\ Len(log') = Len(log) + 1
      /\ log'[Len(log) + 1] = v
      /\ \A i \in 1..Len(log) : log'[i] = log[i]
  BY <1>1
<1>3. Current' = v
  BY <1>1, <1>2 DEF Current, At, Latest
<1> QED
  BY <1>2, <1>3 DEF Latest, R

\* A new version keeps what the finalizer of the one before held.
Carries(v) ==
  Exists /\ Current.finalizer => v # Absent /\ v.finalizer /\ v.uid = Current.uid

\* The log grows, if at all, by a version that carries the finalizer on.
Carried ==
  UNCHANGED log \/ \E v \in Version \cup {Absent} : Put(v) /\ Carries(v)

LEMMA CarriedGrows ==
  ASSUME TypeOK, Carried
  PROVE  /\ log' \in Seq(Version \cup {Absent})
         /\ Latest' \in Nat /\ Latest <= Latest'
         /\ \A i \in 0..Latest : At(i)' = At(i)
         /\ \A uid : HeldFor(uid) => HeldFor(uid)'
         /\ Exists /\ Current.finalizer => Exists' /\ Current'.finalizer
<1>1. log \in Seq(Version \cup {Absent}) /\ Latest \in Nat
  BY LogTypes
<1>2. CASE UNCHANGED log
  BY <1>1, <1>2 DEF Latest, At, HeldFor, Exists, Current
<1>3. ASSUME NEW v \in Version \cup {Absent}, Put(v), Carries(v)
      PROVE  /\ log' \in Seq(Version \cup {Absent})
             /\ Latest' \in Nat /\ Latest <= Latest'
             /\ \A i \in 0..Latest : At(i)' = At(i)
             /\ \A uid : HeldFor(uid) => HeldFor(uid)'
             /\ Exists /\ Current.finalizer => Exists' /\ Current'.finalizer
  <2>1. /\ log' \in Seq(Version \cup {Absent}) /\ Latest' = Latest + 1 /\ Current' = v
        /\ \A i \in 1..Latest : log'[i] = log[i]
    BY <1>3, PutAppends
  <2>2. \A i \in 0..Latest : At(i)' = At(i)
    BY <1>1, <2>1 DEF At
  <2>3. Exists /\ Current.finalizer => Exists' /\ Current'.finalizer /\ Current'.uid = Current.uid
    BY <1>3, <2>1 DEF Carries, Exists
  <2> QED
    BY <1>1, <2>1, <2>2, <2>3 DEF HeldFor
<1> QED
  BY <1>2, <1>3 DEF Carried

LEMMA CacheKept ==
  ASSUME TypeOK, CacheHeld, Carried, cached <= cached', cached' \in Nat
  PROVE  CacheHeld'
<1> SUFFICES ASSUME NEW i \in 1..Latest', cached' <= i, Deployable(i)'
             PROVE  HeldFor(log[i].uid)'
  BY DEF CacheHeld
<1>1. /\ Latest \in Nat /\ Latest' \in Nat /\ cached \in Nat
      /\ \A uid : HeldFor(uid) => HeldFor(uid)'
  BY LogTypes, CarriedGrows
<1>2. CASE i \in 1..Latest /\ log'[i] = log[i]
  <2>1. Deployable(i) /\ cached <= i
    BY <1>1, <1>2 DEF Deployable
  <2> QED
    BY <1>1, <1>2, <2>1 DEF CacheHeld
<1>3. CASE ~(i \in 1..Latest /\ log'[i] = log[i])
  <2>1. PICK v \in Version \cup {Absent} : Put(v)
    BY <1>3 DEF Carried, Latest
  <2>2. i = Latest + 1 /\ log'[i] = v /\ Current' = v
    BY <1>1, <1>3, <2>1, PutAppends
  <2> QED
    BY <2>2 DEF HeldFor, Exists, Deployable
<1> QED
  BY <1>2, <1>3

\* No child is created in the step.
OnlyDrops == \A c \in Children : objects'[c] = objects[c] \/ objects'[c] = Absent

LEMMA RoleTypes ==
  Role \in Children /\ Binding \in Children /\ Role # Binding
  BY DEF Role, Binding, Children

LEMMA RBACKept ==
  ASSUME TypeOK, RBACNotLeaked, Carried, OnlyDrops
  PROVE  RBACNotLeaked'
<1>1. Exists /\ Current.finalizer => Exists' /\ Current'.finalizer
  BY CarriedGrows
<1> QED
  BY <1>1, RoleTypes DEF RBACNotLeaked, OnlyDrops

\* The call under way, when another actor moves.
LEMMA TaskKept ==
  ASSUME SensorInv, Carried, OnlyDrops, UNCHANGED task, cached <= cached', cached' \in Nat
  PROVE  TaskHeld' /\ (task # Absent => task.rv <= Latest')
<1> SUFFICES ASSUME task # Absent
             PROVE  TaskHeld' /\ task.rv <= Latest'
  BY DEF TaskHeld
<1>1. /\ task \in Task /\ task.rv \in Nat /\ task.rv <= Latest /\ TypeOK
      /\ Latest \in Nat /\ cached \in Nat
  BY LogTypes DEF SensorInv, TypeOK, Task
<1>2. PICK i \in 0..Latest : i = task.rv
  BY <1>1
<1>3. /\ \A k \in 0..Latest : At(k)' = At(k)
      /\ \A uid : HeldFor(uid) => HeldFor(uid)'
      /\ Latest' \in Nat /\ Latest <= Latest'
  BY <1>1, CarriedGrows
<1>4. At(i)' = At(i)
  BY <1>3
<1>5. Copy' = Copy
  BY <1>2, <1>4 DEF Copy, At
<1>6. PICK uid : uid = Copy.uid
  OBVIOUS
<1>7. HeldFor(Copy.uid) => HeldFor(Copy.uid)'
  <2>1. HeldFor(uid) => HeldFor(uid)'
    BY <1>3
  <2> QED
    BY <1>5, <1>6, <2>1 DEF HeldFor
<1>8. TaskHeld'
  BY <1>1, <1>5, <1>7, RoleTypes DEF SensorInv, TaskHeld, OnlyDrops, HeldFor
<1> QED
  BY <1>1, <1>3, <1>8

-----------------------------------------------------------------------------
(* Users, caches and the rest of the cluster *)

LEMMA DropTypes ==
  ASSUME TypeOK, NEW c \in Children, Drop(c)
  PROVE  objects' \in [Children -> Object \cup {Absent}] /\ objects'[c] = Absent /\ OnlyDrops
  BY DEF TypeOK, Drop, OnlyDrops

LEMMA UnchangedDrops == UNCHANGED objects => OnlyDrops
  BY DEF OnlyDrops

\* The steps that leave the call under way alone.
LEMMA QuietKeeps ==
  ASSUME SensorInv, Carried, OnlyDrops, UNCHANGED task, cached' \in cached..Latest',
         objects' \in [Children -> Object \cup {Absent}], baseline' \in BOOLEAN,
         seen' \in SUBSET Children, queued' \in BOOLEAN, faults' \in 0..MaxFaults
  PROVE  SensorInv'
<1>1. TypeOK /\ CacheHeld /\ RBACNotLeaked /\ Latest \in Nat /\ cached \in Nat
  BY LogTypes DEF SensorInv
<1>2. /\ log' \in Seq(Version \cup {Absent}) /\ Latest' \in Nat
      /\ cached <= cached' /\ cached' \in Nat
  BY <1>1, CarriedGrows
<1>3. TaskHeld' /\ (task # Absent => task.rv <= Latest')
  BY <1>1, <1>2, TaskKept
<1>4. CacheHeld'
  BY <1>1, <1>2, CacheKept
<1>5. RBACNotLeaked'
  BY <1>1, RBACKept
<1>6. TypeOK'
  BY <1>1, <1>2, <1>3 DEF TypeOK
<1> QED
  BY <1>3, <1>4, <1>5, <1>6 DEF SensorInv

LEMMA UsersCarry ==
  ASSUME TypeOK, (\E ns \in TargetNamespaces : CreateSensor(ns) \/ EditTarget(ns)) \/ DeleteSensor
  PROVE  Carried
<1>1. ASSUME NEW ns \in TargetNamespaces, CreateSensor(ns) PROVE Carried
  <2> DEFINE v == [uid |-> Latest + 1, target |-> ns,
                   finalizer |-> FALSE, deleting |-> FALSE, running |-> FALSE]
  <2>1. v \in Version
    BY LogTypes DEF Version
  <2>2. Put(v) /\ Carries(v)
    BY <1>1 DEF CreateSensor, Carries
  <2> QED
    BY <2>1, <2>2 DEF Carried
<1>2. ASSUME NEW ns \in TargetNamespaces, EditTarget(ns) PROVE Carried
  <2> DEFINE v == [Current EXCEPT !.target = ns]
  <2>1. Current \in Version
    BY <1>2, CurrentVersion DEF EditTarget
  <2>2. v \in Version /\ v # Absent /\ v.finalizer = Current.finalizer /\ v.uid = Current.uid
    BY <2>1, NoVersionAssumption DEF Version
  <2>3. Put(v)
    BY <1>2 DEF EditTarget
  <2> HIDE DEF v
  <2> QED
    BY <2>2, <2>3 DEF Carried, Carries
<1>3. CASE DeleteSensor
  <2> DEFINE v == [Current EXCEPT !.deleting = TRUE]
  <2>1. Current \in Version
    BY <1>3, CurrentVersion DEF DeleteSensor
  <2>2. v \in Version /\ v # Absent /\ v.finalizer = Current.finalizer /\ v.uid = Current.uid
    BY <2>1, NoVersionAssumption DEF Version
  <2>3. IF Current.finalizer THEN Put(v) ELSE Put(Absent)
    BY <1>3 DEF DeleteSensor
  <2> HIDE DEF v
  <2> QED
    BY <2>2, <2>3 DEF Carried, Carries
<1> QED
  BY <1>1, <1>2, <1>3

LEMMA UsersKeep ==
  ASSUME SensorInv,
         (\E ns \in TargetNamespaces : CreateSensor(ns) \/ EditTarget(ns)) \/ DeleteSensor
  PROVE  SensorInv'
<1>1. UNCHANGED <<objects, baseline, cached, seen, queued, task, faults>>
  BY DEF CreateSensor, EditTarget, DeleteSensor
<1>2. TypeOK /\ Carried /\ OnlyDrops
  BY <1>1, UsersCarry, UnchangedDrops DEF SensorInv
<1>3. cached' \in cached..Latest'
  BY <1>1, <1>2, LogTypes, CarriedGrows
<1> QED
  BY <1>1, <1>2, <1>3, QuietKeeps DEF TypeOK

LEMMA ManagerKeeps ==
  ASSUME SensorInv, CacheAdvances \/ Resync \/ \E c \in Children : SeeChild(c)
  PROVE  SensorInv'
<1>1. /\ UNCHANGED <<log, objects, baseline, task, faults>> /\ TypeOK /\ Carried /\ OnlyDrops
      /\ Latest' = Latest
  BY UnchangedDrops DEF CacheAdvances, Resync, SeeChild, SensorInv, Carried, Latest
<1>2. cached' \in cached..Latest'
  BY <1>1, LogTypes DEF CacheAdvances, Resync, SeeChild
<1>3. seen' \in SUBSET Children /\ queued' \in BOOLEAN
  <2>1. seen \in SUBSET Children /\ queued \in BOOLEAN
    BY <1>1 DEF TypeOK
  <2>2. CASE CacheAdvances
    BY <2>1, <2>2 DEF CacheAdvances
  <2>3. CASE Resync
    BY <2>1, <2>3 DEF Resync
  <2>4. ASSUME NEW c \in Children, SeeChild(c) PROVE seen' \in SUBSET Children /\ queued' \in BOOLEAN
    BY <2>1, <2>4 DEF SeeChild
  <2> QED
    BY <2>2, <2>3, <2>4
<1> QED
  BY <1>1, <1>2, <1>3, QuietKeeps DEF TypeOK

LEMMA FaultCounted ==
  ASSUME TypeOK, NEW kind, Fault(kind)
  PROVE  faults' \in 0..MaxFaults
  BY MaxFaultsAssumption DEF TypeOK, Fault

LEMMA RemovalsKeep ==
  ASSUME SensorInv, NEW c \in Children, StrayDelete(c) \/ CollectGarbage(c)
  PROVE  SensorInv'
<1>1. /\ Drop(c) /\ UNCHANGED <<log, baseline, cached, seen, queued, task>> /\ TypeOK /\ Carried
      /\ Latest' = Latest
  BY DEF StrayDelete, CollectGarbage, SensorInv, Carried, Latest
<1>2. cached' \in cached..Latest'
  BY <1>1, LogTypes
<1>3. faults' \in 0..MaxFaults
  BY <1>1, FaultCounted DEF StrayDelete, CollectGarbage, TypeOK
<1> QED
  BY <1>1, <1>2, <1>3, DropTypes, QuietKeeps DEF TypeOK

-----------------------------------------------------------------------------
(* Reconcile's writes to the cluster *)

LEMMA TaskTypes ==
  ASSUME SensorInv, task # Absent
  PROVE  /\ task \in Task
         /\ task.rv \in 0..Latest
         /\ task.next \in 1..4
         /\ Latest \in Nat /\ cached \in 0..Latest
         /\ task.pc # "read" => Copy # Absent /\ Copy \in Version
<1>1. task \in Task /\ task.rv <= Latest /\ TypeOK
  BY DEF SensorInv, TypeOK
<1>2. task.rv \in Nat /\ task.next \in 1..4
  BY <1>1 DEF Task
<1>3. Latest \in Nat /\ task.rv \in 0..Latest /\ cached \in 0..Latest
  BY <1>1, <1>2, LogTypes
<1> QED
  BY <1>1, <1>2, <1>3, VersionAt DEF SensorInv, TaskHeld, Copy

LEMMA FreshCopy ==
  ASSUME SensorInv, task # Absent, task.pc # "read", Fresh
  PROVE  Copy = Current /\ Exists /\ Copy \in Version
  BY TaskTypes DEF Fresh, Copy, Current, Exists

LEMMA ChildType ==
  ASSUME SensorInv, task # Absent, task.pc # "read"
  PROVE  /\ Child \in Children
         /\ [owner |-> IF Child \in {Role, Binding} THEN 0 ELSE Copy.uid,
             target |-> Copy.target] \in Object
<1>1. Copy \in Version /\ task.next \in 1..4
  BY TaskTypes
<1>2. Copy.target \in TargetNamespaces /\ Copy.uid \in Nat
  BY <1>1 DEF Version
<1>3. Child \in {<<"sa", Copy.target>>, <<"ds", Copy.target>>, Role, Binding}
  BY <1>1 DEF Child, Desired
<1>4. Child \in Children
  BY <1>2, <1>3 DEF Children
<1> QED
  BY <1>2, <1>4 DEF Object

Writing == Unbinding \/ Unroling \/ Releasing \/ Finalizing \/ Patching \/ Creating \/ Marking

\* The last write of a cleanup is made from a version as new as the last, which
\* the cache has seen; it comes after the role and the binding have gone.
LEMMA ReleaseKeeps ==
  ASSUME SensorInv, Releasing, UNCHANGED cached
  PROVE  /\ log' \in Seq(Version \cup {Absent}) /\ Latest' \in Nat /\ cached' \in 0..Latest'
         /\ RBACNotLeaked' /\ CacheHeld'
<1>1. /\ task # Absent /\ task.pc = "release" /\ Fresh /\ Put(Absent) /\ UNCHANGED objects
      /\ TypeOK
  BY DEF Releasing, Doing, SensorInv
<1>2. /\ Copy = Current /\ Copy.deleting /\ cached = Latest /\ Latest \in Nat /\ Exists
      /\ objects[Role] = Absent /\ objects[Binding] = Absent
  BY <1>1, FreshCopy, TaskTypes DEF SensorInv, TaskHeld, Fresh
<1>3. /\ log' \in Seq(Version \cup {Absent}) /\ Latest' = Latest + 1
      /\ log'[Latest + 1] = Absent
      /\ \A i \in 1..Latest : log'[i] = log[i]
  BY <1>1, PutAppends
<1>4. log[Latest].deleting /\ Latest \in 1..Latest
  BY <1>1, <1>2, CurrentVersion
<1>5. \A i \in 1..Latest' : cached' <= i => ~Deployable(i)'
  <2> SUFFICES ASSUME NEW i \in 1..Latest', cached' <= i PROVE ~Deployable(i)'
    OBVIOUS
  <2>1. i = Latest \/ i = Latest + 1
    BY <1>2, <1>3
  <2> QED
    BY <1>3, <1>4, <2>1 DEF Deployable
<1> QED
  BY <1>1, <1>2, <1>3, <1>5 DEF RBACNotLeaked, CacheHeld

LEMMA WritesKeep ==
  ASSUME SensorInv, Writing, UNCHANGED cached
  PROVE  /\ StoreTypes' /\ RBACNotLeaked' /\ CacheHeld'
<1>1. task # Absent /\ task.pc # "read" /\ TypeOK /\ cached \in 0..Latest /\ Latest \in Nat
  BY LogTypes
     DEF Writing, Unbinding, Unroling, Releasing, Finalizing, Patching, Creating, Marking, Doing,
         SensorInv
<1>2. ASSUME Carried, OnlyDrops, objects' \in [Children -> Object \cup {Absent}],
             baseline' \in BOOLEAN
      PROVE  StoreTypes' /\ RBACNotLeaked' /\ CacheHeld'
  <2>1. log' \in Seq(Version \cup {Absent}) /\ cached' \in 0..Latest'
    BY <1>1, <1>2, CarriedGrows
  <2>2. RBACNotLeaked' /\ CacheHeld'
    BY <1>1, <1>2, RBACKept, CacheKept DEF SensorInv
  <2> QED
    BY <1>2, <2>1, <2>2 DEF StoreTypes
<1>3. CASE Unbinding \/ Unroling
  BY <1>1, <1>2, <1>3, RoleTypes, DropTypes DEF Unbinding, Unroling, Carried, TypeOK
<1>4. CASE Releasing
  BY <1>4, ReleaseKeeps DEF Releasing, StoreTypes, SensorInv, TypeOK
<1>5. CASE Finalizing \/ Marking
  <2>1. Fresh /\ UNCHANGED <<objects, baseline>>
    BY <1>5 DEF Finalizing, Marking
  <2>2. Copy = Current /\ Copy \in Version
    BY <1>1, <2>1, FreshCopy
  <2>3. UNCHANGED log \/ Put([Copy EXCEPT !.finalizer = TRUE]) \/ Put([Copy EXCEPT !.running = TRUE])
    BY <1>5 DEF Finalizing, Marking
  <2>4. /\ [Copy EXCEPT !.finalizer = TRUE] \in Version
        /\ [Copy EXCEPT !.running = TRUE] \in Version
        /\ [Copy EXCEPT !.finalizer = TRUE].uid = Copy.uid
        /\ [Copy EXCEPT !.running = TRUE].uid = Copy.uid
        /\ [Copy EXCEPT !.finalizer = TRUE].finalizer = TRUE
        /\ [Copy EXCEPT !.running = TRUE].finalizer = Copy.finalizer
    BY <2>2 DEF Version
  <2>5. Carried
    BY <2>2, <2>3, <2>4, NoVersionAssumption DEF Carried, Carries
  <2> QED
    BY <1>1, <1>2, <2>1, <2>5, UnchangedDrops DEF TypeOK
<1>6. CASE Patching
  BY <1>1, <1>2, <1>6, UnchangedDrops DEF Patching, Carried, TypeOK
<1>7. CASE Creating
  <2>1. /\ task.pc = "create" /\ UNCHANGED <<log, baseline>>
        /\ HeldFor(Copy.uid)
    BY <1>7 DEF Creating, Doing, SensorInv, TaskHeld
  <2>2. objects' \in [Children -> Object \cup {Absent}]
    BY <1>1, <1>7, ChildType DEF Creating, TypeOK
  <2>3. RBACNotLeaked'
    BY <2>1 DEF RBACNotLeaked, HeldFor, Exists, Current, At, Latest
  <2>4. CacheHeld'
    BY <1>1, <2>1, CacheKept DEF Carried, SensorInv
  <2> QED
    BY <1>1, <2>1, <2>2, <2>3, <2>4 DEF StoreTypes, TypeOK, Latest
<1> QED
  BY <1>3, <1>4, <1>5, <1>6, <1>7 DEF Writing

-----------------------------------------------------------------------------
(* The calls of Reconcile *)

Pcs == {"read", "unbind", "unrole", "release", "finalize", "baseline",
        "ensure", "create", "status"}

LEMMA GoToType ==
  ASSUME SensorInv, task # Absent, NEW pc \in Pcs, GoTo(pc)
  PROVE  /\ task' \in Task /\ task'.pc = pc /\ task'.rv = task.rv /\ UNCHANGED queued
<1>1. task \in Task /\ task' = [task EXCEPT !.pc = pc] /\ UNCHANGED queued
  BY TaskTypes DEF GoTo
<1> QED
  BY <1>1 DEF Task, Pcs

\* A call that ends leaves nothing to be found again.
LEMMA EndKeeps ==
  ASSUME SensorInv, task' = Absent, queued' \in BOOLEAN, seen' \in SUBSET Children,
         StoreTypes', RBACNotLeaked', CacheHeld', faults' \in 0..MaxFaults
  PROVE  SensorInv'
<1>1. TaskHeld'
  BY DEF TaskHeld
<1>2. TypeOK'
  BY DEF TypeOK, StoreTypes
<1> QED
  BY <1>1, <1>2 DEF SensorInv

LEMMA QueueTypes == SensorInv => queued \in BOOLEAN /\ seen \in SUBSET Children
                                 /\ faults \in 0..MaxFaults /\ StoreTypes
  BY DEF SensorInv, TypeOK, StoreTypes

\* A call that goes on: what it has found is in its next pc.
LEMMA ContinueKeeps ==
  ASSUME SensorInv, task' \in Task, task'.rv <= Latest', TaskHeld',
         queued' \in BOOLEAN, UNCHANGED <<seen, faults>>, StoreTypes', RBACNotLeaked', CacheHeld'
  PROVE  SensorInv'
<1>1. TypeOK'
  BY QueueTypes DEF TypeOK, StoreTypes
<1> QED
  BY <1>1 DEF SensorInv

\* The same when nothing is written.
LEMMA SameStore ==
  ASSUME SensorInv, UNCHANGED <<log, objects, baseline, cached>>
  PROVE  /\ StoreTypes' /\ RBACNotLeaked' /\ CacheHeld' /\ Latest' = Latest
         /\ \A uid : HeldFor(uid)' <=> HeldFor(uid)
  BY DEF SensorInv, TypeOK, StoreTypes, RBACNotLeaked, CacheHeld, Deployable, HeldFor, Exists,
         Current, At, Latest

LEMMA DequeueKeeps ==
  ASSUME SensorInv, Dequeue
  PROVE  SensorInv'
<1>1. /\ task' = [pc |-> "read", rv |-> 0, next |-> 1] /\ queued' = FALSE
      /\ UNCHANGED <<log, objects, baseline, cached, seen, faults>>
  BY DEF Dequeue
<1>2. task' \in Task /\ task'.rv = 0 /\ task'.pc = "read"
  BY <1>1 DEF Task
<1>3. TaskHeld'
  BY <1>2 DEF TaskHeld
<1>4. Latest \in Nat
  BY LogTypes DEF SensorInv
<1>5. StoreTypes' /\ RBACNotLeaked' /\ CacheHeld' /\ Latest' = Latest
  BY <1>1, SameStore
<1>6. queued' \in BOOLEAN
  BY <1>1
<1>7. Latest' \in Nat
  BY <1>4, <1>5
<1>8. task'.rv <= Latest'
  BY <1>2, <1>7
<1> QED
  BY <1>1, <1>2, <1>3, <1>5, <1>6, <1>8, ContinueKeeps

LEMMA ReadKeeps ==
  ASSUME SensorInv, ReadSensor
  PROVE  SensorInv'
<1>1. /\ task # Absent /\ task.pc = "read" /\ UNCHANGED <<log, objects, baseline, cached, seen, faults>>
      /\ UNCHANGED queued
  BY DEF ReadSensor, Doing, Done
<1>2. /\ StoreTypes' /\ RBACNotLeaked' /\ CacheHeld' /\ Latest' = Latest
      /\ \A uid : HeldFor(uid)' <=> HeldFor(uid)
  BY <1>1, SameStore
<1>3. PICK v : v = At(cached)
  OBVIOUS
<1>4. CASE v = Absent \/ (v.deleting /\ ~v.finalizer)
  <2>1. task' = Absent
    BY <1>3, <1>4 DEF ReadSensor, Done
  <2> QED
    BY <1>1, <1>2, <2>1, QueueTypes, EndKeeps
<1>5. CASE ~(v = Absent \/ (v.deleting /\ ~v.finalizer))
  <2>1. PICK pc \in {"unbind", "baseline", "finalize"} :
          /\ task' = [task EXCEPT !.rv = cached, !.pc = pc]
          /\ pc = "unbind" => v.deleting
          /\ pc = "baseline" => v.finalizer /\ ~v.deleting
    BY <1>3, <1>5 DEF ReadSensor
  <2>2. cached \in 1..Latest /\ v = log[cached] /\ v # Absent /\ cached \in Nat /\ cached <= Latest
    BY <1>3, <1>5, LogTypes, VersionAt DEF SensorInv
  <2>3. task' \in Task /\ task'.rv = cached /\ task'.pc = pc
    BY <1>1, <2>1, <2>2, TaskTypes DEF Task
  <2>4. Copy' = v
    BY <1>1, <2>2, <2>3 DEF Copy, At
  <2>5. pc = "baseline" => HeldFor(v.uid)
    BY <2>1, <2>2 DEF SensorInv, CacheHeld, Deployable
  <2>6. pc = "baseline" => HeldFor(Copy.uid)'
    BY <1>1, <2>4, <2>5 DEF HeldFor, Exists, Current, At, Latest
  <2>7. TaskHeld'
    BY <1>1, <2>1, <2>2, <2>3, <2>4, <2>6 DEF TaskHeld
  <2> QED
    BY <1>1, <1>2, <2>2, <2>3, <2>7, QueueTypes, ContinueKeeps
<1> QED
  BY <1>4, <1>5

\* A call that goes on with its copy while the log stays as it is.
LEMMA GoOnKeeps ==
  ASSUME SensorInv, task # Absent, task.pc # "read", task' \in Task, task'.rv = task.rv,
         UNCHANGED <<log, cached, seen, queued, faults>>,
         StoreTypes', RBACNotLeaked', CacheHeld',
         task'.pc # "read",
         task'.pc \in {"baseline", "ensure", "create", "status"} => HeldFor(Copy.uid),
         task'.pc \in {"unbind", "unrole", "release"} => Copy.deleting /\ task.rv <= cached,
         task'.pc \in {"unrole", "release"} => objects'[Binding] = Absent,
         task'.pc = "release" => objects'[Role] = Absent
  PROVE  SensorInv'
<1>1. Copy' = Copy /\ Latest' = Latest /\ Copy # Absent /\ task.rv \in 0..Latest /\ Latest \in Nat
  BY TaskTypes DEF Copy, At, Latest
<1>2. HeldFor(Copy.uid)' <=> HeldFor(Copy.uid)
  BY <1>1 DEF HeldFor, Exists, Current, At, Latest
<1>3. TaskHeld'
  BY <1>1, <1>2 DEF TaskHeld
<1> QED
  BY <1>1, <1>3, QueueTypes, ContinueKeeps

LEMMA CleanupKeeps ==
  ASSUME SensorInv, Cleanup
  PROVE  SensorInv'
<1>1. UNCHANGED <<cached, seen, faults>> /\ Writing
  BY DEF Cleanup, Writing
<1>2. StoreTypes' /\ RBACNotLeaked' /\ CacheHeld'
  BY <1>1, WritesKeep
<1>3. CASE Unbinding /\ GoTo("unrole")
  <2>1. task # Absent /\ task.pc = "unbind" /\ UNCHANGED log /\ objects'[Binding] = Absent
    BY <1>3, RoleTypes, DropTypes DEF Unbinding, Doing, SensorInv
  <2>2. task' \in Task /\ task'.pc = "unrole" /\ task'.rv = task.rv /\ UNCHANGED queued
    BY <1>3, <2>1, GoToType DEF Pcs
  <2>3. Copy.deleting /\ task.rv <= cached
    BY <2>1 DEF SensorInv, TaskHeld
  <2> QED
    BY <1>1, <1>2, <2>1, <2>2, <2>3, GoOnKeeps
<1>4. CASE Unroling /\ GoTo("release")
  <2>1. task # Absent /\ task.pc = "unrole" /\ UNCHANGED log /\ objects'[Role] = Absent /\ OnlyDrops
    BY <1>4, RoleTypes, DropTypes DEF Unroling, Doing, SensorInv
  <2>2. task' \in Task /\ task'.pc = "release" /\ task'.rv = task.rv /\ UNCHANGED queued
    BY <1>4, <2>1, GoToType DEF Pcs
  <2>3. Copy.deleting /\ task.rv <= cached /\ objects[Binding] = Absent
    BY <2>1 DEF SensorInv, TaskHeld
  <2>4. objects'[Binding] = Absent
    BY <2>1, <2>3, RoleTypes DEF OnlyDrops
  <2> QED
    BY <1>1, <1>2, <2>1, <2>2, <2>3, <2>4, GoOnKeeps
<1>5. CASE Releasing /\ Done
  BY <1>1, <1>2, <1>5, QueueTypes, EndKeeps DEF Done
<1> QED
  BY <1>3, <1>4, <1>5 DEF Cleanup

LEMMA AddFinalizerKeeps ==
  ASSUME SensorInv, AddFinalizer
  PROVE  SensorInv'
<1> DEFINE v == [Copy EXCEPT !.finalizer = TRUE]
<1>1. /\ task # Absent /\ task.pc = "finalize" /\ Fresh /\ Put(v)
      /\ task' = [task EXCEPT !.pc = "baseline", !.rv = Latest + 1]
      /\ UNCHANGED <<cached, seen, queued, faults>> /\ Writing /\ TypeOK
  BY DEF AddFinalizer, Finalizing, Doing, Writing, SensorInv
<1>2. StoreTypes' /\ RBACNotLeaked' /\ CacheHeld'
  BY <1>1, WritesKeep
<1>3. Copy \in Version /\ Latest \in Nat
  BY <1>1, FreshCopy, LogTypes
<1>4. v \in Version /\ v # Absent /\ v.finalizer
  BY <1>3, NoVersionAssumption DEF Version
<1> HIDE DEF v
<1>5. /\ Latest' = Latest + 1 /\ log'[Latest + 1] = v /\ Current' = v
  BY <1>1, <1>4, PutAppends
<1>6. task' \in Task /\ task'.pc = "baseline" /\ task'.rv = Latest + 1
  <2>1. PICK t \in Task : t = task
    BY <1>1, TaskTypes
  <2>2. /\ t = [pc |-> t.pc, rv |-> t.rv, next |-> t.next] /\ t.next \in 1..4
        /\ task' = [t EXCEPT !.pc = "baseline", !.rv = Latest + 1]
    BY <1>1, <2>1 DEF Task
  <2>3. task' = [pc |-> "baseline", rv |-> Latest + 1, next |-> t.next]
    BY <2>2
  <2>4. Latest + 1 \in Nat
    BY <1>3
  <2> QED
    BY <2>2, <2>3, <2>4 DEF Task
<1>7. Copy' = v
  BY <1>3, <1>5, <1>6 DEF Copy, At
<1>8. HeldFor(Copy.uid)'
  BY <1>4, <1>5, <1>7 DEF HeldFor, Exists
<1>9. TaskHeld'
  BY <1>4, <1>6, <1>7, <1>8 DEF TaskHeld
<1>10. task'.rv <= Latest'
  BY <1>3, <1>5, <1>6
<1> QED
  BY <1>1, <1>2, <1>6, <1>9, <1>10, QueueTypes, ContinueKeeps

LEMMA NextChildType ==
  ASSUME SensorInv, task # Absent, NextChild
  PROVE  /\ task' \in Task /\ task'.pc \in {"ensure", "status"} /\ task'.rv = task.rv
         /\ UNCHANGED queued
<1>1. PICK t \in Task : t = task
  BY TaskTypes
<1>2. t.rv \in Nat /\ t.next \in 1..4 /\ t = [pc |-> t.pc, rv |-> t.rv, next |-> t.next]
  BY DEF Task
<1>3. CASE t.next = 4
  <2>1. task' = [t EXCEPT !.pc = "status"] /\ UNCHANGED queued
    BY <1>1, <1>3 DEF NextChild
  <2> QED
    BY <1>1, <2>1 DEF Task
<1>4. CASE t.next # 4
  <2>1. task' = [t EXCEPT !.pc = "ensure", !.next = t.next + 1] /\ UNCHANGED queued
    BY <1>1, <1>4 DEF NextChild
  <2>2. task' = [pc |-> "ensure", rv |-> t.rv, next |-> t.next + 1]
    BY <1>2, <2>1
  <2>3. t.next + 1 \in 1..4
    BY <1>2, <1>4
  <2> QED
    BY <1>1, <1>2, <2>1, <2>2, <2>3 DEF Task
<1> QED
  BY <1>3, <1>4

LEMMA DeployKeeps ==
  ASSUME SensorInv, ApplyBaseline \/ EnsureChild \/ CreateChild
  PROVE  SensorInv'
<1>1. /\ task # Absent /\ task.pc \in {"baseline", "ensure", "create"}
      /\ UNCHANGED <<log, cached, seen, faults>>
  BY DEF ApplyBaseline, EnsureChild, CreateChild, Patching, Creating, Doing
<1>2. HeldFor(Copy.uid)
  BY <1>1 DEF SensorInv, TaskHeld
<1>3. StoreTypes' /\ RBACNotLeaked' /\ CacheHeld'
  BY <1>1, WritesKeep, SameStore DEF ApplyBaseline, EnsureChild, CreateChild, Writing
<1>4. GoTo("ensure") \/ GoTo("create") \/ NextChild
  BY DEF ApplyBaseline, EnsureChild, CreateChild
<1>5. /\ task' \in Task /\ task'.rv = task.rv /\ UNCHANGED queued
      /\ task'.pc \in {"ensure", "create", "status"}
  BY <1>1, <1>4, GoToType, NextChildType DEF Pcs
<1> QED
  BY <1>1, <1>2, <1>3, <1>5, GoOnKeeps

\* The calls that end, and the faults.
LEMMA EndsKeep ==
  ASSUME SensorInv, WriteStatus \/ Refused \/ ApiError \/ ReplyLost
  PROVE  SensorInv'
<1>1. task' = Absent /\ UNCHANGED <<cached, seen>>
  BY DEF WriteStatus, Refused, ApiError, ReplyLost, Done, Retry
<1>2. queued' \in BOOLEAN
  BY QueueTypes DEF WriteStatus, Refused, ApiError, ReplyLost, Done, Retry
<1>3. faults' \in 0..MaxFaults
  BY QueueTypes, FaultCounted DEF WriteStatus, Refused, ApiError, ReplyLost, SensorInv
<1>4. Writing \/ UNCHANGED <<log, objects, baseline, cached>>
  BY DEF WriteStatus, Refused, ApiError, ReplyLost, Writing
<1>5. StoreTypes' /\ RBACNotLeaked' /\ CacheHeld'
  BY <1>1, <1>4, WritesKeep, SameStore
<1> QED
  BY <1>1, <1>2, <1>3, <1>5, QueueTypes, EndKeeps

LEMMA RestartKeeps ==
  ASSUME SensorInv, Restart
  PROVE  SensorInv'
<1>1. /\ cached' = Latest /\ seen' \in SUBSET Children /\ queued' \in BOOLEAN /\ task' = Absent
      /\ UNCHANGED <<log, objects, baseline>> /\ Latest' = Latest
      /\ faults' \in 0..MaxFaults
  BY FaultCounted DEF Restart, SensorInv, Exists, Latest
<1>2. StoreTypes /\ TypeOK /\ Latest \in Nat /\ cached \in 0..Latest
  BY LogTypes DEF SensorInv, TypeOK, StoreTypes
<1>3. StoreTypes'
  BY <1>1, <1>2 DEF StoreTypes, TypeOK
<1>4. CacheHeld'
  BY <1>1, <1>2, CacheKept DEF SensorInv, Carried
<1>5. RBACNotLeaked'
  BY <1>1, <1>2, RBACKept, UnchangedDrops DEF SensorInv, Carried
<1> QED
  BY <1>1, <1>3, <1>4, <1>5, EndKeeps

-----------------------------------------------------------------------------
(* The whole controller *)

LEMMA SensorInit == Init => SensorInv
<1> SUFFICES ASSUME Init PROVE SensorInv
  OBVIOUS
<1>1. Latest = 0 /\ log \in Seq(Version \cup {Absent})
  BY DEF Init, Latest
<1>2. TypeOK
  <2>1. cached \in 0..Latest /\ faults \in 0..MaxFaults
    BY <1>1, MaxFaultsAssumption DEF Init
  <2>2. /\ objects \in [Children -> Object \cup {Absent}]
        /\ baseline \in BOOLEAN /\ seen \in SUBSET Children /\ queued \in BOOLEAN
        /\ task \in Task \cup {Absent}
    BY DEF Init
  <2> QED
    BY <1>1, <2>1, <2>2 DEF Init, TypeOK
<1> QED
  BY <1>1, <1>2, RoleTypes DEF Init, SensorInv, RBACNotLeaked, CacheHeld, TaskHeld

LEMMA SensorStutter ==
  ASSUME SensorInv, UNCHANGED vars
  PROVE  SensorInv'
<1>1. /\ UNCHANGED <<log, objects, baseline, cached, seen, queued, task, faults>>
      /\ Carried /\ OnlyDrops /\ TypeOK /\ Latest' = Latest
  BY UnchangedDrops DEF vars, Carried, SensorInv, Latest
<1>2. cached' \in cached..Latest'
  BY <1>1, LogTypes
<1> QED
  BY <1>1, <1>2, QuietKeeps DEF TypeOK

LEMMA SensorStep == SensorInv /\ [Next]_vars => SensorInv'
  BY UsersKeep, ManagerKeeps, RemovalsKeep, DequeueKeeps, ReadKeeps, CleanupKeeps,
     AddFinalizerKeeps, DeployKeeps, EndsKeep, RestartKeeps, SensorStutter
     DEF Next, Reconcile

LEMMA SensorInvariant == Spec => []SensorInv
  BY SensorInit, SensorStep, PTL DEF Spec

\* The sensor's versions, the children, the caches and the call in progress keep
\* their types, and no copy is of a version that does not exist.
THEOREM SensorTypes == Spec => []TypeOK
<1>1. SensorInv => TypeOK
  BY DEF SensorInv
<1> QED
  BY <1>1, SensorInvariant, PTL

\* "We manage cleanup via a finalizer instead": the cluster-scoped role and binding,
\* which no garbage collector removes, exist only while a sensor is stored whose
\* finalizer holds it, however much the controller's cache lags, whatever fails and
\* whenever users delete and create again.
THEOREM RolesAreCleanedUp == Spec => []RBACNotLeaked
<1>1. SensorInv => RBACNotLeaked
  BY DEF SensorInv
<1> QED
  BY <1>1, SensorInvariant, PTL

\* Nothing is created on behalf of a sensor that was deleted since the cache held
\* it, or of its predecessor under the same name (createIfNotExists).
THEOREM NoOrphanIsBorn == Spec => CreatesForTheLiving
<1>1. SensorInv /\ [Next]_vars =>
        [ \A c \in Children : objects[c] = Absent /\ objects'[c] # Absent
            => Exists /\ Current.uid = Copy.uid ]_vars
  <2> SUFFICES ASSUME SensorInv, Next, NEW c \in Children, objects[c] = Absent, objects'[c] # Absent
               PROVE  Exists /\ Current.uid = Copy.uid
    BY DEF vars
  <2>1. CASE Creating
    BY <2>1 DEF Creating, Doing, SensorInv, TaskHeld, HeldFor
  <2>2. CASE OnlyDrops
    BY <2>2 DEF OnlyDrops
  <2>3. ASSUME NEW d \in Children, Drop(d) PROVE OnlyDrops
    BY <2>3, DropTypes DEF SensorInv
  <2>4. CASE UNCHANGED objects
    BY <2>2, <2>4, UnchangedDrops
  <2>5. Creating \/ UNCHANGED objects \/ \E d \in Children : Drop(d)
    BY RoleTypes
       DEF Next, CreateSensor, EditTarget, DeleteSensor, CacheAdvances, SeeChild, StrayDelete,
           CollectGarbage, Resync, Dequeue, Reconcile, ReadSensor, Cleanup, AddFinalizer,
           ApplyBaseline, EnsureChild, CreateChild, WriteStatus, Refused, ApiError, ReplyLost,
           Restart, Unbinding, Unroling, Releasing, Finalizing, Patching, Marking
  <2> QED
    BY <2>1, <2>2, <2>3, <2>4, <2>5
<1> QED
  BY <1>1, SensorInvariant, PTL DEF Spec, CreatesForTheLiving
=============================================================================
