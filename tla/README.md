# Sovereign Sensor: specifications, checks and proofs

Sovereign Sensor watches the outgoing TCP connections of Kubernetes workloads
and enforces *sovereignty policies*: which namespaces may talk to which
countries. Node agents judge connections, the addresses that violate a blocking
policy are collected in the policy's status, and a controller turns them into
kernel hooks. This directory models that program in TLA+, checks the models with
TLC and proves the central results with TLAPS. Paths are relative to the
repository's root; `PROJECT.json` ties every definition to the lines it models.

## 1. Inventory

### Components

| Component | Code | State it keeps | Operations |
|---|---|---|---|
| Policy data | `api/v1alpha1/sovereigntypolicy_types.go` | spec (namespaces, allowed and disallowed countries, actions), status (discovered addresses, Ready) | none |
| Matcher | `internal/policy/policy.go` | map name -> policy, under a lock | `UpsertPolicy`, `RemovePolicy`, `Match` |
| Evaluator | `internal/policy/evaluator.go` | none between calls | `Evaluate` |
| Policy watcher | `internal/k8s/watcher.go` | informer's position | add, update and delete callbacks |
| Tetragon client | `internal/k8s/tetragon-client.go` | connection, backoff | `StreamTetragonEvents`, `parseEvent` |
| Reporter | `internal/policy/reporter.go` | addresses already reported, under a lock | `ReportViolator`, `EmitViolationEvent` |
| Agent main loop | `cmd/agent/main.go` | channel of events | receive, look up, judge, announce, report; start-up; shutdown |
| GeoIP lookup | `internal/geo/geoip.go` | embedded database, read only | `LookupCountry`, `isPrivate` |
| Policy controller | `internal/controller/sovereigntypolicy_controller.go` | none; cache and workqueue are the manager's | `Reconcile`, `buildTracingPolicy` |
| Sensor controller | `internal/controller/sovereignsensor_controller.go` | none, as above | `Reconcile`, `createIfNotExists` |
| Controller process | `cmd/controller/main.go` | manager, its cache | start the dashboard, then the manager with both controllers |
| Dashboard server | `internal/api/server.go` | none between requests | list, create, update, delete policies; list violations |
| Web dashboard | `frontend/src/App.jsx` | form and lists of one page | what it asks the server for |
| Others | `internal/metrics`, `internal/k8s/client.go`, `charts/`, generated deep copies | counters, nothing, manifests | not modelled, see section 8 |

### How they interact

```
 users --kubectl------------> SovereigntyPolicy objects (API server) <--status-- policy controller
                                   |  informer        ^ status: addresses            | live read/write
                                   v                  |                              v
 Tetragon --gRPC stream--> channel --> main loop: Evaluate --> ReportViolator    TracingPolicy
    ^                                                                                |
    +------------------------------ kernel hook on every node <----------------------+
 users --page--> dashboard server (in the controller's process) --> SovereigntyPolicy objects
 users --kubectl--> SovereignSensor --> sensor controller --> ServiceAccount, DaemonSet, ClusterRole, binding
```

* The *informer's goroutine* and the *main loop* of an agent share the Matcher.
* The *stream goroutine* and the main loop share a channel of 1000 events.
* *Agents, policy controller and users* share the policy objects. Every write of
  a status or spec carries the version it was computed from and is refused when
  the object has changed (optimistic concurrency). Nothing else orders them.
* The *dashboard's handlers* run in the controller's process, before its manager has
  started and beside it afterwards. They create and delete in the API server, but
  read the policy to update from the manager's cache.
* The policy controller reads policies from a cache that lags, but reads and
  writes TracingPolicies live. The sensor controller reads everything from caches.
* The garbage collector removes owned objects some time after their owner.

### What is hard

Interleavings on the Matcher and on policy objects; stale caches; retries,
conflicts and answers that get lost; crashes of agents and of the controller;
goroutines started before what they need (the dashboard before its cache, the main
loop before the policies); boundaries of address ranges;
tombstones and versions that a watch skips; policies and sensors deleted and
created again under the same name; a full channel; a stream that breaks;
eventual enforcement over four processes. `PROJECT.json` lists each hazard at
the line where it bites with the properties that would catch it.

### What makes each part correct

| Component | Correctness |
|---|---|
| Evaluator | a verdict is what the policies of *one* instant justify; every call returns |
| Watcher | matchers catch up with the store, and forget what was deleted |
| Reporter | the list of addresses is an atomic, growing ledger of addresses that some spec condemned; no mark without a reason; every violator gets listed |
| Tetragon client | order kept, nothing lost but to broken streams; subscription renewed |
| Main loop | a forbidden connection is announced and reported, or its miss has a reason; the loop goes on |
| GeoIP | internal addresses have no country, and no others |
| Dashboard server | an update undoes nobody else's edit; every request is answered; the handlers do what the controller expects of users |
| Policy controller | at rest the hook is the one the policy asks for; Ready is true when written; converges |
| Sensor controller | nothing cluster-scoped is leaked; nothing is created for the dead; deploys; follows edits; cleans up |
| Whole | violations end up blocked, withdrawn hooks disappear, nobody is blocked but violators and who shares their /32 |

## 2. Modules

| Module | Models | Reads |
|---|---|---|
| `Policy` | specs as records; `Violates`, `Covers`, `Forbids`, `Blocks`, `KernelAction` | |
| `Judge` | abstract: a question is answered once, from the policies of one instant | `Policy` |
| `Evaluator` | Matcher and the chain of `Evaluate`, one policy per step | `Policy` |
| `PolicyStore` | policy objects as logs of versions, and the users | `Policy` |
| `ViolatorLedger` | abstract: what the agents promise about the list of addresses | |
| `Agent` | watcher, main loop and reporter of every node | `PolicyStore` |
| `PolicyController` | `Reconcile` of policies with cache, queue, faults, garbage collector | `PolicyStore` |
| `ControlLoop` | Agent and PolicyController composed, with Tetragon's hooks | `Agent`; `PolicyController` by `INSTANCE` |
| `SensorController` | `Reconcile` of sensors with caches of the children, finalizer, garbage collector | |
| `EventStream` | stream goroutine, channel, backoff, shutdown | |
| `GeoIP` | `LookupCountry` and the private ranges | `Policy` |
| `AgentProcess` | the goroutines of one agent: stream, informer, main loop from lookup to report | `GeoIP`; `EventStream` and `Judge` by `INSTANCE` |
| `Dashboard` | the handlers, call by call, and the cache they read | `PolicyStore` |
| `ControllerProcess` | manager, policy controller and dashboard composed, restart | `PolicyController`; `Dashboard` by `INSTANCE` |
| `EvaluatorProofs`, `PolicyControllerProofs`, `AgentProofs`, `SensorProofs` | theorems about one component each | their component |
| `LoopProofs`, `ControllerProcessProofs` | theorems about the compositions | the composition and the proofs of the component it extends |
| `AgentProcessProofs` | theorems about one agent: address ranges, stream, main loop | `AgentProcess` |
| `PolicyStoreProofs` | lemmas about the logs of versions | `PolicyStore` |
| `MC*` | constants of the instances | |

Conventions. *Objects in the API server are logs*: the position in the log is
the resourceVersion, `Absent` marks a deletion, a reader holds a position, and
`Fresh` (`rv = Latest`) is the server's version check. A status or spec update
that would not change anything makes no new version. *Names* follow the source:
`UpsertPolicy`, `Match`, `ReportViolator`'s steps `GetPolicy` / `UpdateStatus`,
`buildTracingPolicy` as `DesiredRule`. Definitions marked *Faulty* are plausible
bugs of the operation that follows them; no specification uses them, they show
that the properties can fail (section 5).

How state and actions correspond to the code:

* **Evaluator.** `policies` is the Matcher's map. `Match` runs under the read
  lock, hence one step; map iteration gives the slice in any order (`Slices`).
  The slice holds pointers to objects that are replaced and never changed, hence
  copies of specs. Each turn of the loop is a step (`Chain`), between which
  `UpsertPolicy` and `RemovePolicy` may happen.
* **Agent.** `delivered` is the informer's position, `matcher` the map,
  `reported` the reporter's cache, `report` the one `ReportViolator` call that
  the main loop waits for, with its step and its try. `HandleEvent` is the main
  loop from the event to the mark; its effects that change no state (metrics,
  logs, Kubernetes events) are left out. `UpdateConflicts` is the retry loop's
  answer to a refused update, and `ApiError`, `ReplyLost` and `Crash` are the
  failures, each with the rollback the code performs. The evaluator's choice
  among violated policies is `\E p`, justified by `Linearizable`.
* **PolicyController.** `task` is the Reconcile call with the call it makes next
  (`pc`) and the version of its copy (`rv`). One worker, which is the default of
  the library. A name queued again while it is being reconciled stays queued.
  Rate limiting becomes the fairness of `Dequeue`. `ErrorSwallowed` is the
  read before a delete whose error the code drops; `ApiError` all others.
* **SensorController.** As above, plus `seen`: the children that the caches hold.
  `createIfNotExists` is `EnsureChild` (lookup in the cache) and `CreateChild`
  (the write). Writes to the cluster are split from what the call does next, so
  that `ReplyLost` can perform the write and lose the rest.
* **Dashboard.** A `request` is one HTTP request with the call its handler makes next;
  a tab has one at a time. `Get` reads the manager's cache: before the manager
  starts it answers 404 like for a missing policy, and while the cache is being
  filled it waits. `Update` writes the object back at the version that was read;
  `Fails` is every answer 500, as when the name is taken or the version old.
* **ControllerProcess.** `Start` takes the manager from "starting" over "syncing" to
  "ready"; events reach the cache before the workers run. `RestartAll` replaces the
  process with all of its goroutines and their requests.
* **GeoIP.** An address is its version, its first 16 bits and the rest, which is as
  far as the masks of the listed networks reach. The database is a constant.
* **AgentProcess.** `informer` and `known` are `WatchPolicies` of the first seconds, when
  the policies arrive one by one; later changes are Agent's. `connection` is drawn when
  the main loop takes the event, because nothing looks at it before. `JudgeEvent` is
  lookup and `Evaluate`, which `Linearizable` allows to be one step. `Announce` is the
  loop over the verdict's actions: it stops after the first that blocks. The early return of
  `EmitViolationEvent` (`reporter.go:77`) is left out, since every event that `parseEvent`
  lets through (`tetragon-client.go:81`) has a pod with a name and a namespace.
* **EventStream.** An event is its position among those emitted. `hand` holds the
  event that a blocked send waits with; `Cut` decides how much of what was on
  the wire still arrives. The process exits at any time after the signal.
* **ControlLoop.** Both components act on the one `log`. `loaded` is the hook of
  each kernel, which Tetragon copies from the TracingPolicies. An address is its family and
  its first 32 bits, `Slash32` the network that the suffix "/32" makes of it: the address
  alone in IPv4, all that share these bits in IPv6.

## 3. Runs

| Run | Question | Bounds | States |
|---|---|---|---|
| `Evaluator` | Is Evaluate linearizable, does it stop? | 3 policies, 4 specs (deny list, wildcard allow list, contradictory lists, empty), 1 namespace, 2 countries, host process and private address | 151 k |
| `AgentSafety` | Is the list an atomic ledger of condemned addresses? | 1 policy, 2 specs, 2 agents, 2 addresses, 2 tries, 1 fault, users stop at 3 versions | 463 k |
| `Controller` | Right at rest, Ready true when written, converging | 1 policy, 3 specs (kill, refuse, log), 1 address, users stop at 4 versions, errors, lost answers, restarts without limit | 66 k |
| `ControllerProcess` | Do dashboard and controller live together in one process? Does the resync repair? | 1 tab, 3 specs, a valid and an invalid form, 3 versions; stray deletions and dropped errors without limit, restarts until they stop | 26 k |
| `Loop` | Do the components fit, do matchers catch up, do violations get blocked and hooks released, and who else is blocked? | 1 policy, 2 specs, 1 node, 2 namespaces, an IPv6 address in the forbidden country, elsewhere its neighbour in the same /32 and an IPv4 address, 3 versions, 1 agent fault, controller errors | 43 k |
| `SensorSafety` | Is anything leaked or created for a dead sensor? | 2 target namespaces, users stop at 5 versions, 1 fault of any kind | 1.3 M |
| `SensorDeploys` | Does it deploy and clean up? | 1 namespace, 6 versions, 2 faults of any kind | 355 k |
| `AgentProcess` | Is an event lost, repeated, overtaken, stuck or judged without reason? | channel of 1, 3 events of 2 kinds, 4 connections, 2 policies, 2 breaks or failed subscriptions, backoff up to 2 | 171 k |

Four more runs each refute one statement of the documentation or of a comment:

| Run | Statement | What the program does |
|---|---|---|
| `AgentForgets` | "If the policy was simply deleted, we don't need to roll back" (`reporter.go:64`) | The policy is deleted while a report is between its read and its update, and created again. The agent keeps its mark, and no address is ever reported to the new policy by that node. |
| `ControllerSwallowed` | "We must delete the kernel hook." (`sovereigntypolicy_controller.go:97`) | A transient error of the read before the delete is dropped. The hook stays until the next event or resync. |
| `LoopNamespaces` | "List of target namespaces to enforce" (`docs/index.md:26`) | The hook has no namespace selector, so all workloads are blocked from a listed address. |
| `SensorMoved` | "3. Set owner references and create/update resources" (`sovereignsensor_controller.go:107`) | Nothing is ever updated. After an edit of `targetNamespace` the ClusterRoleBinding still names the ServiceAccount of the old namespace, at rest, and the sensor is Running. |

### Why the bounds are enough

* *One policy* in the controller, agent and loop runs: all state but the queue and
  the one task is indexed by policy, names share no object, and the one thing
  they compete for, the worker, is covered by the fairness of `Dequeue`. The
  Evaluator, whose subject is several policies, has three. The theorems have
  any number.
* *Versions*: a stale copy, an update on top of it, a deletion and a new object
  under the same name need three user writes; in the controller's run the
  address must be listed in between, hence four, and with the finalizer's
  versions of a sensor six.
* *Two tries*: the loop's behaviours are a retry and the last conflict; the real
  five add only more of the first.
* *Two agents*: conflicts are pairwise. Agents and addresses are symmetric, and
  symmetry is used in `AgentSafety` and `SensorSafety`, which have no liveness
  property.
* *One tab* and kubectl make every pair of editors: the lost update needs two. kubectl
  only edits and deletes in `ControllerProcess`; a policy is created by the form.
* *`MaxListed`* (1) is the length of a list from which the API server may refuse the
  object as too large (`UpdateTooLarge`): the second address may be refused for ever
  while the first stays listed.
* *Two policies* in `AgentProcess`, one that blocks in one namespace and one that logs
  everywhere, and neighbouring addresses on both sides of the end of 172.16.0.0/12.
* *Capacity 1* makes the channel full as soon as there are two events.
* *Faults* are counted where a property says that something eventually holds or
  where the state space asks for it, and unlimited elsewhere.
* `CHECK_DEADLOCK FALSE` in all runs but `Evaluator`: users stop writing at the
  bound, connections already reported cause no step, and a process that has
  exited does nothing.

### Fairness

* The evaluator, the stream and the main loop are goroutines that the runtime
  schedules: weak fairness of each as one process. Users, breaks, cancellation
  and faults have none.
* `Agent!Fairness`: the informer delivers; the main loop goes on; *connections
  recur*, so that an address which failed to be reported is judged again. Without
  that a failed report is never repeated, because the code itself never
  retries beyond the conflict loop.
* `PolicyController!Fairness`: the watch delivers, the garbage collector collects,
  and the calls of Reconcile do not fail every time they are retried (strong
  fairness of the success of each call, as the workqueue retries without limit).
  `FairSpec` adds that the process is not replaced for ever and leaves out the faults that
  the program does not notice (`Unnoticed`: a dropped error, a deletion by hand), which
  are steps of `Spec`, of `ControllerSwallowed` and of `ControllerProcess`. `Repairing` adds the
  cache's periodic resync and is used by `ControllerProcess` only: `Converges`
  holds without the resync.
* `ControllerProcess!ProcessFairSpec` adds a manager that gets to start and handlers that go
  on, but neither requests nor a success of their calls: a 500 is an answer.
* `AgentProcess!FairSpec`: the stream's goroutine, the informer's and the main loop
  run, and calls to the API server return with a result or a failure. Tetragon need
  not send anything.
* `SensorController!Fairness` includes the resync. The number of faults is bounded.
* Tetragon renews each node's hooks (`LoadRule`), which is an assumption about it.

## 4. Properties

* `ImplementsJudge`: the refinement maps the end of the chain to the instant of
  `Match` by saying what the rest of the chain is bound to answer (`Judgement`).
* `ImplementsLedger`: retries, conflicts and crashes are stutters of an atomic
  append. `Justified` and `MarksEarned` look at the history of each policy.
* `BlocklistCurrent` and `BlocklistRemoved` speak of the moments when the controller
  is at rest (`Settled`: its cache is up to date and nothing is queued or under
  way). `ReadyMeansActive` is an action property, because the condition can
  become stale a moment after it is written.
* `AgentsAsAlone` and `ControllerAsAlone`: in the composition each component is a
  behaviour of its own specification, so that what is checked or proved about
  it alone is true of the loop. In the agents' module the controller is
  `MarkReady`, in the controller's module the agents are `AgentReports`.
* `EventuallyBlocked` is restricted to policies that nobody has withdrawn or cleared
  (`Undisturbed`); `AgentForgets` shows that the restriction is needed.
* `RBACNotLeaked`: a ClusterRole or binding exists only while the sensor's finalizer
  does. `CreatesForTheLiving` holds although the controller works from stale
  copies, because the finalizer keeps the sensor in the store.
* `BlockedWithCause` looks at kernels, not at objects, and traces a refused connection back
  over hook and list to one version of a policy that blocks and to a violator. It says
  exactly how much the "/32" of the code blocks: in IPv4 the violator, in IPv6 also the
  addresses that share its first 32 bits, wherever they are. `Loop` has such a neighbour.
* `MatchersCatchUp` compares what agents judge by with the store itself: skipped versions,
  a deletion that only the relist shows and a crash leave no matcher behind for good.
* `BindingFollowsTarget` is what the comment of the controller promises of the child
  that edits of the sensor concern most; it does not hold.
* `HandlersAsUsers`: the process with the dashboard is a behaviour of `PolicyController`
  with its users, so all that is proved of the controller holds beside the dashboard.
* `EditsKeepTheRest`: an update that is taken changes three fields of the policy *as it
  is then*, though it was computed from a cache that lags. It holds because the object
  read carries its version. `Answered` includes requests before the manager runs.
* `OnlyExcusedMisses` states end to end what the main loop may fail to see, going by
  where the connection really leads: a connection that policies forbid passes without
  trace only if none of them was known when it was judged, or its lookup failed.
  `PoliciesArrive` says that the first excuse comes to an end, with one exception: if
  asking for the informer fails, the agent stays blind.
* `NothingLostOrReordered`: what was handled, is in hand, in the channel and on the wire
  forms one increasing sequence of events, and its connections of pods are those emitted
  and not missed.

## 5. Mutants

Each property of a passing run is paired with a faulty form of one operation:
a dropped guard (`ReadSkipsRemoval`, `UpdateUnchecked`), a lost rollback
(`ConflictsKeepMark`), an ignored tombstone (`DeliverWithoutRemove`), a predicate
that filters status changes (`CacheFiltersStatus`), an early exit
(`ReadSkipsReady`, `EnsureUnlessRunning`, `AnnounceFirst`), an unchecked input
(`ValidAction`), a wait for something that need not come (`GetWaits`), a swapped order
(`ReadWithoutFinalizing`), a lossy send (`SendOrDrop`) and so on. With it TLC
finds the property violated.

## 6. Proofs

All theorems hold for every value of the constants under the named assumptions of
the modules (`SpecsAssumption`: specs are records of the right type;
`NamesFinite`; the sentinels differ from real values).

**Evaluator.** `TypeCorrect` is inductive as it stands. `ChainCorrect` needs
`NoStaleSlice`: no slice survives from an earlier call. `Linearizable` maps each
step: `Match` is the judge's `Answer` (lemma `MatchAnswers`, on the contents of
the slices and the least position that forbids), the turns of the chain are
stutters (`JudgementPasses`, `JudgementStops`, `JudgementEnds`), updates of
policies are the judge's own.

**Policy controller.** `BlocklistCurrent` is far from inductive: it speaks of rest
only. `CtrlInv` adds what a Reconcile call under way has established:

* `CopyLive`: past its first step the call works on a live policy,
* `PlanFollowsCopy`: the branch it has taken is the one its copy asks for,
* `StatusFollowsRule`: when it is about to write the status *and the copy is still
  current*, the hook in the cluster is the one the copy asks for,
* `AtRest`: the property itself.

The argument: rest is reached only through a status write, which the server accepts
only from a fresh copy. A hook is changed by others only when its owner is
gone (`OrphansUnwanted`: no live policy wants such a hook). Any new version
makes the cache lag, and when it catches up the name is queued. `Matches` weakens
the invariant for the two faults that break it, so that one invariant serves
`ControllerTypes` (no assumption on faults), `RestMeansCurrent` (no deletion by
hand), `RestMeansRemoved` and `ReadyIsTrueWhenWritten` (moreover no dropped
error). `ControllerSwallowed` shows that the last assumption is needed.

`PolicyStoreProofs` holds the lemmas about logs: what a write appends and keeps, and that
what an older version condemned is condemned for good (`CondemnedBy` looks at all versions).

**Agents.** `Justified` is almost inductive, `MarksEarned` is not: when
a call ends, its mark has to be earned by what the call has read. `AgentInv` adds
`MatcherFaithful` (a matcher holds the specs of versions that its informer was given) and
`ReportSound`: a spec of the policy has condemned the address under way, and the version
from which an update is computed was live and did not list the address. From it follow
`AgentTypes`, `ListedIsJustified` and `MarksAreEarned`.
`AgentsImplementLedger` maps the logs to the current lists: an accepted update is the
ledger's report (the version check makes the version read the current one, so nothing that
another agent added in between is dropped), users' edits and deletions are its own, and every
read, retry, conflict, lost reply and crash is a stutter or a report.

**Loop.** `LoopInv` adds to `AgentInv` that every hook, in the cluster (`HooksSound`) or in a
kernel (`LoadedSound`), is the one that some single version of its policy asked for, and that a
Reconcile call has read a version that exists. Hooks come from copies that may be stale, but
versions stay in the log. `AgentsUndisturbed` and `ControllerUndisturbed` then show that each
step of either component is, to the other, one that its specification allows: a status
written by the controller is `MarkReady`, a list written by an agent is `AgentReports`. All
theorems about the agents and about the controller hold in the loop by these two.
`OnlyForTheCondemned` proves `BlockedWithCause` for addresses of both families: a hook is what
one version asked for (`HooksHaveCause`), what that version lists was condemned (`Justified`),
and `First32Assumption`, that no two IPv4 addresses have the same 32 bits, makes the network
of an IPv4 address that address.

**Sensors.** `RBACNotLeaked` speaks of the store, the controller acts on caches. `SensorInv` adds
`CacheHeld` (any version that the cache still can deliver and that would be deployed is of
the sensor now stored, still held by its finalizer) and `TaskHeld` (what the call has found:
a call that deploys works for a sensor that is still held; a call that releases the
finalizer has removed binding and role). The point of the argument is that only a release can
end the hold, that a release needs the newest version as its copy, and that the cache it
was read from has then seen the deletion. `SensorTypes`, `RolesAreCleanedUp` and
`NoOrphanIsBorn` follow.

**Controller process.** `ProcessInv` adds to the controller's `CtrlInv` that a request about to
update has read a live policy (`RequestsSound`). `HandlersAreUsers` maps each handler's write
to a user's; the controller's own theorems are true of the process by it.
`UpdatesKeepTheRest` needs that the write is refused unless the version read is the current
one; without that guard in `Update` the proof fails. The assumption `FormsMakeSpecs` (of an
existing country and action a form makes a policy) holds when users may write any spec:
`FormsMakePolicySpecs`.

**One agent.** `PrivateRanges`: the integer divisions by which networks are compared add up
to the documented ranges, for every address and not only for the two of the run.
`InternalLeftAlone`: a connection to an internal address violates no policy
whatsoever, also one with an allow list, which everything else must pass.
`StreamInOrder` holds for any capacity of the channel, length of the stream and number of
breaks. Its invariant `StreamInv` is the property, the types, and that the goroutine's hand is
empty when it receives. The two halves of the sequence, taken and on the wire, increase and
the first stays below the second (`ConcatIncreases`); a step that hands an event on regroups
one half (`HandOverKeeps`), a break cuts the other (`PrefixIncreases`).
`MissesAreExcused` assumes `DatabaseIsRight`: where the lookup resolves, the true country is the
database's, and internal addresses have none; nothing else about the world is needed. The
invariant follows the verdict from the instant of its judgement (`VerdictFollows`) through
the announced actions (`TraceFollows`); `PrivateRanges` turns the masks of the code into the
networks that the assumption speaks of, and `FirstBlock` says what the loop with its early
exit announces.

Assumptions that exist for the proofs only: `Absent` is no report, no version and no spec
(`NoReportAssumption`, `NoVersionAssumption`, `AbsentAssumption`), bounds are numbers.
TLC evaluates all of them.

Every invariant and every action property of a passing run is a theorem, and so are the five
properties that are specifications themselves. **Only model-checked** is liveness:
`CallsReturn`, `MatchersCatchUp`, `Converges`, `KeepsRepairing`, `Answered`, `EventuallyBlocked`,
`EventuallyReleased`, `EventuallyDeployed`, `EventuallyCleaned`, `SentIsHandled`,
`Resubscribes`, `PoliciesArrive`. Liveness under fairness and `ENABLED` are out of the
prover's reach. So is induction over data: nothing is proved by induction on a
sequence, and no module uses a RECURSIVE operator.

## 7. Plan

Section 8 says why no more of the code is modelled. What can still be proved are the safety
cores of the liveness properties, none of which is an invariant of a run yet:

1. For `EventuallyReleased` and `Converges`: from a state at rest no step but a user's, an
   agent's or a fault leaves it.
2. For `EventuallyBlocked`: a list that nobody clears only grows along the versions
   (`Undisturbed` is kept by every agent and by the controller).
3. For `Answered` and `SentIsHandled`: a request, and an event on its way, is always in exactly
   one place.

## 8. Not modelled

* *Metrics, logs and Kubernetes events*: nothing in the program reads them, the dashboard
  only displays events. *The dynamic client* in `internal/k8s/client.go` is never called.
  *Generated code* copies fields.
* *The web page's state*: what it displays and the text in its form. Its requests are
  modelled.
* *Handlers that only read*: the two lists, and the files of the page.
* *Flags, certificates, probes and leader election* of the controller process. The chart
  enables leader election with one replica; two controllers at once, during a
  rolling update, would be kept apart by the library's lease.
* *The sensor controller inside the controller's process*: it shares the process and
  nothing else; its own module restarts it.
* *The contents of the GeoIP database*: a constant function.
* *Tetragon, the API server, the garbage collector and kubectl* are modelled by what
  the code sees of them and marked external in `PROJECT.json`.

Observed while modelling, without a run of its own:

* The strictest policy wins, says the comment on the chain (`evaluator.go:45`). The order
  of a map decides which of several violated policies comes first, and with it whether
  the connection is blocked or logged. The properties admit any of them.
* "wait for the initial sync" (`cmd/agent/main.go:74`): the cache has no informer yet when
  `WaitForCacheSync` is called, so it returns at once, and the first events are
  judged by an empty matcher. `OnlyExcusedMisses` names this excuse.
* A failed `GetInformer` (`watcher.go:21`) is logged once and leaves an agent that
  watches and judges by no policy for as long as it runs. `PoliciesArrive` names it.
* Every address is blocked as a "/32" (`sovereigntypolicy_controller.go:179`), an IPv6
  address too, and with it all IPv6 addresses with the same first 32 bits.
  `BlockedWithCause` states this; without its last disjunct the run `Loop` refutes it,
  with a neighbour in an allowed country.
* The list of addresses only grows. When the object is too large the update is refused
  for good; the mark is rolled back and each further connection tries again.
* An edit of the countries keeps the addresses discovered under the old ones, and they
  stay blocked. `BlockedWithCause` admits what some earlier version condemned.
* An agent's marks outlive a list that a user clears: that agent does not list the
  address again.
* A TracingPolicy deleted by hand is missed until the resync although the policy says
  Ready (`KeepsRepairing` is about the resync).
* A sensor created again before the caches have noticed the cleanup of its predecessor
  finds the role in its cache, skips it and reports Running without it. A later
  resync creates it (`EventuallyDeployed`).
* The page's form takes the first namespace, country and action of the policy it edits
  (`frontend/src/App.jsx:87`), and the handler replaces all of them by these. Saving
  a policy with several, without changing anything, narrows it; and a page that shows
  an old version overwrites these three fields with it. `EditsKeepTheRest` protects
  the fields that the form does not have, and what others edit after the handler's read.

## 9. Running

```
tlc -workers 2 -config Controller.cfg MCPolicyController
tlapm PolicyControllerProofs.tla
```

Each configuration belongs to the module that `PROJECT.json` names for its run. The
longest takes about two minutes on two workers; all proofs together take three to four.
