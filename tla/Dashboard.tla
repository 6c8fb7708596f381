------------------------------ MODULE Dashboard ------------------------------
(***************************************************************************)
(* internal/api/server.go: the dashboard's HTTP handlers.  They run in the *)
(* controller's process, beside its manager, and serve from before the     *)
(* manager starts.  Creating and deleting are calls to the API server; an  *)
(* update first reads the policy from the manager's cache, which answers   *)
(* nothing until it is filled and lags afterwards, and then writes the     *)
(* whole object back.  Nothing is kept between two requests.               *)
(***************************************************************************)
EXTENDS PolicyStore

CONSTANTS
  Tabs,               \* browser tabs, each with one request at a time
  Typed,              \* what users type for a country
  UpperOf,            \* its upper case; NoCountry unless it has two characters
  Forms,              \* the forms they submit
  Blank,              \* an empty namespace field
  DefaultNamespace    \* the namespace "default"

VARIABLES
  cached,    \* per policy: the version in the manager's cache
  serving,   \* the manager: "starting", "syncing" its cache, or "ready"
  request    \* per tab: the request being handled, or Absent

\* A request: the next call its handler makes; an update's copy is version rv.
Request == [pc : {"create", "get", "update", "delete"}, policy : Names,
            form : Forms \cup {Absent}, rv : Nat]

DashboardInit == serving = "starting" /\ request = [t \in Tabs |-> Absent]

\* Faulty: only the action is looked at.
ValidAction(form) == form.action \in {"block-kill", "block-noconn", "log"}

\* Anything else is answered with 400 at once.
Valid(form) ==
  /\ UpperOf[form.country] # NoCountry
  /\ form.action \in {"block-kill", "block-noconn", "log"}

Target(form) == IF form.namespace = Blank THEN DefaultNamespace ELSE form.namespace

\* An update replaces three fields and keeps what it has read of the others.
EditedSpec(spec, form) ==
  [spec EXCEPT !.actions = << form.action >>,
               !.namespaces = {Target(form)},
               !.disallowed = {UpperOf[form.country]}]

NewSpec(form) ==
  [actions |-> << form.action >>, namespaces |-> {Target(form)},
   allowed |-> {}, disallowed |-> {UpperOf[form.country]}]
-----------------------------------------------------------------------------
(* Requests *)

Submit(t, pc, p, form) ==
  /\ request[t] = Absent
  /\ request' = [request EXCEPT ![t] = [pc |-> pc, policy |-> p, form |-> form, rv |-> 0]]
  /\ UNCHANGED <<log, cached, serving>>

\* The page offers to edit and delete what a list has shown it.
Listed(p) == \E i \in 1..Latest(p) : log[p][i] # Absent

PostPolicy(t, p, form) == Valid(form) /\ Submit(t, "create", p, form)
PutPolicy(t, p, form)  == Valid(form) /\ Listed(p) /\ Submit(t, "get", p, form)
DeleteRequest(t, p)    == Listed(p) /\ Submit(t, "delete", p, Absent)

Doing(t, pc) == request[t] # Absent /\ request[t].pc = pc
PolicyOf(t)   == request[t].policy
Copy(t)      == At(request[t].policy, request[t].rv)

Answer(t) == request' = [request EXCEPT ![t] = Absent] /\ UNCHANGED <<cached, serving>>

\* Faulty: a name that is taken is given to the new policy.
CreateOrReplace(t) ==
  /\ Doing(t, "create")
  /\ UserMay("create", PolicyOf(t))
  /\ Put(PolicyOf(t), [uid |-> Latest(PolicyOf(t)) + 1, spec |-> NewSpec(request[t].form),
                      ips |-> {}, ready |-> FALSE])
  /\ Answer(t)

Create(t) ==
  /\ Doing(t, "create")
  /\ CreatePolicy(PolicyOf(t), NewSpec(request[t].form))
  /\ Answer(t)

\* Faulty: the handler waits for the policy to appear in the cache.
GetWaits(t) ==
  LET p == PolicyOf(t)
  IN  /\ Doing(t, "get")
      /\ serving = "ready"
      /\ At(p, cached[p]) # Absent
      /\ request' = [request EXCEPT ![t].pc = "update", ![t].rv = cached[p]]
      /\ UNCHANGED <<log, cached, serving>>

\* The cache answers "not started" before the manager runs, which is a 404 too,
\* and makes the handler wait while it is being filled.
Get(t) ==
  LET p == PolicyOf(t)
  IN  /\ Doing(t, "get")
      /\ serving # "syncing"
      /\ IF serving = "starting" \/ At(p, cached[p]) = Absent
         THEN Answer(t)
         ELSE /\ request' = [request EXCEPT ![t].pc = "update", ![t].rv = cached[p]]
              /\ UNCHANGED <<cached, serving>>
      /\ UNCHANGED log

\* Faulty: the policy is written back without the version it was read at.
UpdateUnchecked(t) ==
  /\ Doing(t, "update")
  /\ Exists(PolicyOf(t))
  /\ EditPolicy(PolicyOf(t), EditedSpec(Copy(t).spec, request[t].form))
  /\ Answer(t)

\* The whole object is written, status excluded; the server takes it if it is
\* still at the version that was read.  Unchanged content is no new version.
Update(t) ==
  LET spec == EditedSpec(Copy(t).spec, request[t].form)
  IN  /\ Doing(t, "update")
      /\ request[t].rv = Latest(PolicyOf(t))
      /\ IF spec = Copy(t).spec
         THEN UNCHANGED log
         ELSE UserMay("edit", PolicyOf(t)) /\ Put(PolicyOf(t), [Copy(t) EXCEPT !.spec = spec])
      /\ Answer(t)

\* Delete by name, whatever version; NotFound is a success.
Delete(t) ==
  /\ Doing(t, "delete")
  /\ IF Exists(PolicyOf(t)) THEN DeletePolicy(PolicyOf(t)) ELSE UNCHANGED log
  /\ Answer(t)

\* The API server refuses the call (the name is taken, the policy has changed) or
\* the call fails: a 500, as when a write took effect and its answer was lost.
Fails(t) ==
  /\ request[t] # Absent
  /\ request[t].pc # "get"
  /\ Answer(t)
  /\ UNCHANGED log

Handle(t) == Create(t) \/ Get(t) \/ Update(t) \/ Delete(t) \/ Fails(t)

ServeTab(t) ==
  \/ \E p \in Names : \E form \in Forms : PostPolicy(t, p, form) \/ PutPolicy(t, p, form)
  \/ \E p \in Names : DeleteRequest(t, p)
  \/ Handle(t)
-----------------------------------------------------------------------------
(* The manager that owns the cache *)

StartManager == serving = "starting" /\ serving' = "syncing" /\ UNCHANGED <<log, cached, request>>

\* The first list is complete; it may come from a server that lags.
CacheSynced == serving = "syncing" /\ serving' = "ready" /\ UNCHANGED <<log, cached, request>>

DashboardOK ==
  /\ serving \in {"starting", "syncing", "ready"}
  /\ request \in [Tabs -> Request \cup {Absent}]
  /\ \A t \in Tabs : Doing(t, "update") => Copy(t) # Absent
=============================================================================
