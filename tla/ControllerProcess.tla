-------------------------- MODULE ControllerProcess --------------------------
(***************************************************************************)
(* cmd/controller/main.go: the manager with its cache and the policy       *)
(* controller (PolicyController), and the dashboard's server (Dashboard)   *)
(* in a goroutine beside it, which reads from the same cache.  Their       *)
(* policies are also edited with kubectl.  A restart ends all of them.     *)
(***************************************************************************)
EXTENDS PolicyController

CONSTANTS Tabs, Typed, UpperOf, Forms, Blank, DefaultNamespace   \* as of Dashboard

VARIABLES serving, request   \* the dashboard

D == INSTANCE Dashboard

ASSUME UpperOfAssumption == UpperOf \in [Typed -> Countries \cup {NoCountry}]
ASSUME FormsAssumption ==
  Forms \subseteq [namespace : Namespaces \cup {Blank}, country : Typed, action : STRING]
ASSUME BlankAssumption == Blank \notin Namespaces /\ DefaultNamespace \in Namespaces

\* Of a country and an action that exist the dashboard makes a policy that users
\* might write, and of such a policy another one.
ASSUME FormsMakeSpecs ==
  \A form \in Forms :
    UpperOf[form.country] \in Countries /\ form.action \in Actions =>
      D!NewSpec(form) \in Specs /\ \A spec \in Specs : D!EditedSpec(spec, form) \in Specs

served      == <<serving, request>>
processVars == <<vars, served>>

ProcessInit == Init /\ D!DashboardInit

\* The sources and workers of the controller start with the manager.
Manager ==
  \/ serving # "starting" /\ \E p \in Names : CacheAdvances(p)
  \/ serving = "ready" /\ \E p \in Names : Resync(p) \/ Dequeue(p)

Controller == (Manager \/ Reconcile \/ CallFails \/ ErrorSwallowed) /\ UNCHANGED served

\* The process is replaced: requests end with their connections.
RestartAll == Restart /\ serving' = "starting" /\ request' = [t \in Tabs |-> Absent]

Server(t) == D!ServeTab(t) /\ UNCHANGED <<rule, queue, task>>

Start == (D!StartManager \/ D!CacheSynced) /\ UNCHANGED <<rule, queue, task>>

\* Users who write to the API server themselves.  They edit and delete: that the
\* first version comes from the dashboard keeps the instance small.
Kubectl ==
  /\ \E p \in Names : DeletePolicy(p) \/ \E spec \in Specs : EditPolicy(p, spec)
  /\ UNCHANGED ctrlVars

Cluster ==
  /\ \/ \E p \in Names : CollectGarbage(p) \/ StrayDelete(p)
     \/ \E p \in Names, ip \in IPs : AgentReports(p, ip)
     \/ Kubectl
  /\ UNCHANGED served

ProcessNext == Controller \/ RestartAll \/ (\E t \in Tabs : Server(t)) \/ Start \/ Cluster

ProcessSpec == ProcessInit /\ [][ProcessNext]_processVars

\* The controller's fairness, the resync, a manager that gets to run, and
\* handlers that go on; users need not do anything.
ProcessFairSpec ==
  /\ ProcessSpec
  /\ Fairness
  /\ Repairing
  /\ <>[][~RestartAll]_processVars
  /\ WF_processVars(Start)
  /\ \A t \in Tabs : WF_processVars(D!Handle(t) /\ UNCHANGED <<rule, queue, task>>)
-----------------------------------------------------------------------------
ProcessTypeOK == TypeOK /\ D!DashboardOK

\* What the handlers do to policies is what the controller expects of users, so
\* all that is shown of the controller with users holds beside the dashboard.
HandlersAsUsers == Spec

\* An update that the API server takes changes the three fields of the form in
\* the policy as it is at that instant: no edit made since the handler read the
\* policy from its cache is undone.
EditsKeepTheRest ==
  [][ \A t \in Tabs :
        D!Doing(t, "update") /\ request'[t] = Absent /\ log' # log =>
          LET p == D!PolicyOf(t)
          IN  /\ Exists(p)
              /\ log'[p] = Append(log[p],
                   [Current(p) EXCEPT !.spec = D!EditedSpec(@, request[t].form)]) ]_processVars

\* Every request is answered, also one that comes before the manager has started
\* or whose policy the cache does not know.
Answered == \A t \in Tabs : []<>(request[t] = Absent)
=============================================================================
