----------------------- MODULE ControllerProcessProofs -----------------------
(***************************************************************************)
(* The controller's process for any number of browser tabs, policies and   *)
(* forms: the dashboard's handlers are users as the controller expects     *)
(* them, and no update that the API server takes undoes another edit.      *)
(***************************************************************************)
EXTENDS ControllerProcess, PolicyControllerProofs

\* What a request has been checked for and has read, in the log as it is.
RequestsSound(r) ==
  /\ r \in [Tabs -> D!Request \cup {Absent}]
  /\ \A t \in Tabs : r[t] # Absent =>
       /\ r[t].rv <= Latest(r[t].policy)
       /\ r[t].pc # "delete" => r[t].form \in Forms /\ D!Valid(r[t].form)
       /\ r[t].pc = "update" => At(r[t].policy, r[t].rv) # Absent

ServingOK(s) == s \in {"starting", "syncing", "ready"}

ProcessInv == CtrlInv /\ ServingOK(serving) /\ RequestsSound(request)

\* The dashboard and the controller read the same logs.
LEMMA SameReads ==
  /\ \A p : D!Latest(p) = Latest(p)
  /\ \A p : D!Current(p) = Current(p)
  /\ \A p : D!Exists(p) <=> Exists(p)
  /\ \A p, i : D!At(p, i) = At(p, i)
  BY DEF D!Latest, D!Current, D!Exists, D!At, Latest, Current, Exists, At

\* The assumption on forms is satisfiable: it holds of the set of all specs.
LEMMA FormsMakePolicySpecs ==
  ASSUME NEW form \in Forms, UpperOf[form.country] \in Countries, form.action \in Actions
  PROVE  /\ D!NewSpec(form) \in PolicySpec
         /\ \A spec \in PolicySpec : D!EditedSpec(spec, form) \in PolicySpec
<1>1. form.namespace \in Namespaces \cup {Blank}
  BY FormsAssumption
<1>2. << form.action >> \in Seq(Actions)
  OBVIOUS
<1>3. {D!Target(form)} \in SUBSET (Namespaces \cup {Wildcard})
  BY <1>1, BlankAssumption DEF D!Target
<1>4. {UpperOf[form.country]} \in SUBSET Countries
  OBVIOUS
<1>5. D!NewSpec(form) \in PolicySpec
  BY <1>2, <1>3, <1>4 DEF D!NewSpec, PolicySpec
<1>6. ASSUME NEW spec \in PolicySpec
      PROVE  D!EditedSpec(spec, form) \in PolicySpec
  BY <1>2, <1>3, <1>4 DEF D!EditedSpec, PolicySpec
<1> QED
  BY <1>5, <1>6

\* The forms that the server accepts have a country and an action that exist.
LEMMA AcceptedForms ==
  ASSUME NEW form \in Forms, D!Valid(form)
  PROVE  /\ D!NewSpec(form) \in Specs
         /\ \A spec \in Specs : D!EditedSpec(spec, form) \in Specs
<1>1. form.action \in Actions
  BY DEF D!Valid, Actions
<1>2. form.country \in Typed /\ UpperOf[form.country] # NoCountry
  BY FormsAssumption DEF D!Valid
<1>3. UpperOf[form.country] \in Countries
  BY <1>2, UpperOfAssumption
<1> QED
  BY <1>1, <1>3, FormsMakeSpecs

-----------------------------------------------------------------------------
(* The controller's steps, seen from the handlers *)

\* The log only grows.
LEMMA ControllerGrows ==
  ASSUME CtrlInv, [Next]_vars
  PROVE  OnlyGrows
<1> USE DEF CtrlInv
<1>1. StoreOK
  BY DEF TypeOK
<1>2. CASE UNCHANGED log
  BY <1>1, <1>2, SameGrows
<1>3. CASE /\ Doing("status")
           /\ Put(task.policy, [Copy EXCEPT !.ready = TRUE])
  <2>1. task.policy \in Names
    BY <1>3, TaskType DEF Doing
  <2> QED
    BY <1>1, <1>3, <2>1, ReadyFits, PutGrows
<1>4. ASSUME NEW p \in Names, NEW ip \in IPs, AgentReports(p, ip)
      PROVE  OnlyGrows
  BY <1>1, <1>4, ReportFits, PutGrows DEF AgentReports
<1>5. CASE Users
  BY <1>1, <1>5, UserAppends, PutGrows DEF Users
<1>6. CASE WriteStatus \/ ReplyLost
  BY <1>2, <1>3, <1>6 DEF WriteStatus, ReplyLost, InstallRule
<1>7. ASSUME NEW p \in Names,
             \/ CacheAdvances(p) \/ Resync(p) \/ Dequeue(p)
             \/ CollectGarbage(p) \/ StrayDelete(p)
      PROVE  UNCHANGED log
  BY <1>7 DEF CacheAdvances, Resync, Dequeue, CollectGarbage, StrayDelete
<1>8. ASSUME \/ ReadPolicy \/ GetForApply \/ ApplyRule \/ ApplyRefused \/ GetForRemove
             \/ DeleteRule \/ StatusConflicts \/ ApiError \/ Restart \/ ErrorSwallowed
      PROVE  UNCHANGED log
  BY <1>8 DEF ReadPolicy, GetForApply, ApplyRule, InstallRule, ApplyRefused, GetForRemove,
              DeleteRule, StatusConflicts, ApiError, Restart, ErrorSwallowed
<1>9. UNCHANGED vars => UNCHANGED log
  BY DEF vars
<1> QED
  BY <1>2, <1>4, <1>5, <1>6, <1>7, <1>8, <1>9
     DEF Next, Foreseen, Unnoticed, ControllerStep, Reconcile, Faults, CallFails

\* What a request has read stays true.
LEMMA RequestsKept ==
  ASSUME StoreOK, OnlyGrows, NEW r, RequestsSound(r)
  PROVE  RequestsSound(r)'
<1> SUFFICES ASSUME NEW t \in Tabs, r[t] # Absent
             PROVE  /\ r[t].rv <= Latest(r[t].policy)'
                    /\ r[t].pc = "update" => At(r[t].policy, r[t].rv)' # Absent
  BY DEF RequestsSound, D!Request, D!Valid
<1>1. /\ r[t].policy \in Names /\ r[t].rv \in Nat
      /\ r[t].rv <= Latest(r[t].policy)
      /\ r[t].pc = "update" => At(r[t].policy, r[t].rv) # Absent
  BY DEF RequestsSound, D!Request
<1>2. PICK p \in Names, i \in Nat : p = r[t].policy /\ i = r[t].rv
  BY <1>1
<1>3. Latest(p) \in Nat /\ Latest(p)' \in Nat /\ Latest(p) <= Latest(p)' /\ i <= Latest(p)
  BY <1>1, <1>2, LogTypes DEF OnlyGrows
<1>4. At(p, i)' = At(p, i)
  BY <1>3, AtKept
<1> QED
  BY <1>1, <1>2, <1>3, <1>4

-----------------------------------------------------------------------------
(* The handlers' steps, seen from the controller *)

LEMMA RequestType ==
  ASSUME ProcessInv, NEW t \in Tabs, request[t] # Absent
  PROVE  /\ request[t] \in D!Request
         /\ request[t].policy \in Names
         /\ request[t].rv \in 0..Latest(request[t].policy)
         /\ Latest(request[t].policy) \in Nat
         /\ request[t].pc # "delete" => request[t].form \in Forms /\ D!Valid(request[t].form)
         /\ request[t].pc = "update" => At(request[t].policy, request[t].rv) # Absent
<1>1. /\ request[t] \in D!Request /\ request[t].rv <= Latest(request[t].policy)
      /\ request[t].pc # "delete" => request[t].form \in Forms /\ D!Valid(request[t].form)
      /\ request[t].pc = "update" => At(request[t].policy, request[t].rv) # Absent
  BY DEF ProcessInv, RequestsSound
<1>2. request[t].policy \in Names /\ request[t].rv \in Nat
  BY <1>1 DEF D!Request
<1>3. Latest(request[t].policy) \in Nat
  BY <1>2, LogTypes DEF ProcessInv, CtrlInv, TypeOK
<1> QED
  BY <1>1, <1>2, <1>3

\* An update that is taken is an edit of the current version.
LEMMA UpdateEdits ==
  ASSUME ProcessInv, NEW t \in Tabs, D!Update(t)
  PROVE  \/ UNCHANGED log
         \/ LET p == request[t].policy
            IN  /\ p \in Names /\ Exists(p)
                /\ D!EditedSpec(Current(p).spec, request[t].form) \in Specs
                /\ EditPolicy(p, D!EditedSpec(Current(p).spec, request[t].form))
<1>1. request[t] # Absent /\ request[t].pc = "update"
  BY DEF D!Update, D!Doing
<1>2. PICK p \in Names : p = request[t].policy
  BY <1>1, RequestType
<1>3. /\ request[t].rv = Latest(p) /\ D!Copy(t) = Current(p) /\ Exists(p)
  BY <1>1, <1>2, RequestType, SameReads DEF D!Update, D!PolicyOf, D!Copy, Current, Exists
<1>4. PICK spec : spec = D!EditedSpec(Current(p).spec, request[t].form)
  OBVIOUS
<1>5. spec \in Specs
  <2>1. Current(p) \in Version
    BY <1>2, <1>3, CurrentVersion DEF ProcessInv, CtrlInv, TypeOK
  <2>2. Current(p).spec \in Specs
    BY <2>1 DEF Version
  <2> QED
    BY <1>1, <1>4, <2>2, RequestType, AcceptedForms
<1>6. CASE spec = Current(p).spec
  BY <1>3, <1>4, <1>6 DEF D!Update
<1>7. CASE spec # Current(p).spec
  <2>1. /\ UserMay("edit", p)
        /\ Put(p, [Current(p) EXCEPT !.spec = spec])
    BY <1>2, <1>3, <1>4, <1>7, SameReads
       DEF D!Update, D!PolicyOf, D!UserMay, UserMay, D!Put, Put
  <2> QED
    BY <1>2, <1>3, <1>4, <1>5, <1>7, <2>1 DEF EditPolicy
<1> QED
  BY <1>6, <1>7

LEMMA AnswerSound ==
  ASSUME RequestsSound(request), NEW t \in Tabs, request' = [request EXCEPT ![t] = Absent]
  PROVE  RequestsSound(request')
  BY DEF RequestsSound

LEMMA SubmitSound ==
  ASSUME ProcessInv, NEW t \in Tabs, NEW p \in Names, NEW form \in Forms \cup {Absent},
         NEW pc \in {"create", "get", "delete"},
         pc # "delete" => form \in Forms /\ D!Valid(form),
         D!Submit(t, pc, p, form)
  PROVE  RequestsSound(request')
<1> DEFINE r == [pc |-> pc, policy |-> p, form |-> form, rv |-> 0]
<1>1. r \in D!Request /\ r.policy = p /\ r.rv = 0 /\ r.pc = pc /\ r.form = form
  BY DEF D!Request
<1>2. request' = [request EXCEPT ![t] = r]
  BY DEF D!Submit
<1> HIDE DEF r
<1>3. 0 <= Latest(p)
  BY LogTypes DEF ProcessInv, CtrlInv, TypeOK
<1> QED
  BY <1>1, <1>2, <1>3 DEF ProcessInv, RequestsSound

LEMMA GetSound ==
  ASSUME ProcessInv, NEW t \in Tabs, D!Get(t)
  PROVE  RequestsSound(request') /\ UNCHANGED <<log, cached, serving>>
<1>1. UNCHANGED <<log, cached, serving>>
  BY DEF D!Get, D!Answer
<1>2. request[t] # Absent /\ request[t].pc = "get"
  BY DEF D!Get, D!Doing
<1>3. PICK p \in Names : p = request[t].policy
  BY <1>2, RequestType
<1>4. cached[p] \in Nat /\ cached[p] <= Latest(p)
  BY DEF ProcessInv, CtrlInv, TypeOK
<1>5. CASE serving = "starting" \/ At(p, cached[p]) = Absent
  BY <1>1, <1>3, <1>5, SameReads, AnswerSound DEF D!Get, D!PolicyOf, D!Answer, ProcessInv
<1>6. CASE ~(serving = "starting" \/ At(p, cached[p]) = Absent)
  <2>1. request' = [request EXCEPT ![t].pc = "update", ![t].rv = cached[p]]
    BY <1>3, <1>6, SameReads DEF D!Get, D!PolicyOf
  <2>2. PICK r \in D!Request : r = request[t]
    BY <1>2, RequestType
  <2>3. PICK n : n = [r EXCEPT !.pc = "update", !.rv = cached[p]]
    OBVIOUS
  <2>4. n \in D!Request /\ n.pc = "update" /\ n.rv = cached[p] /\ n.policy = p /\ n.form = r.form
    BY <1>3, <1>4, <2>2, <2>3 DEF D!Request
  <2>5. request' = [request EXCEPT ![t] = n]
    BY <2>1, <2>2, <2>3 DEF ProcessInv, RequestsSound
  <2>6. r.form \in Forms /\ D!Valid(r.form)
    BY <1>2, <2>2, RequestType
  <2> QED
    BY <1>1, <1>4, <1>6, <2>4, <2>5, <2>6 DEF ProcessInv, RequestsSound
<1> QED
  BY <1>1, <1>5, <1>6

\* A handler does to the policies what a user may do, and leaves the controller alone.
LEMMA HandlerIsUser ==
  ASSUME ProcessInv, NEW t \in Tabs, Server(t)
  PROVE  [Next]_vars /\ RequestsSound(request') /\ UNCHANGED serving
<1>1. UNCHANGED <<rule, queue, task>>
  BY DEF Server
<1>2. ASSUME NEW p \in Names, NEW form \in Forms, D!PostPolicy(t, p, form) \/ D!PutPolicy(t, p, form)
      PROVE  UNCHANGED <<log, cached, serving>> /\ RequestsSound(request')
  <2>1. PICK pc \in {"create", "get"} : D!Submit(t, pc, p, form) /\ D!Valid(form)
    BY <1>2 DEF D!PostPolicy, D!PutPolicy
  <2> QED
    BY <2>1, SubmitSound DEF D!Submit
<1>3. ASSUME NEW p \in Names, D!DeleteRequest(t, p)
      PROVE  UNCHANGED <<log, cached, serving>> /\ RequestsSound(request')
  BY <1>3, SubmitSound DEF D!DeleteRequest, D!Submit
<1>4. CASE D!Get(t)
  BY <1>1, <1>4, GetSound DEF vars, ctrlVars
<1>5. CASE D!Create(t) \/ D!Update(t) \/ D!Delete(t) \/ D!Fails(t)
  <2>1. RequestsSound(request') /\ UNCHANGED <<cached, serving>>
    BY <1>5, AnswerSound DEF D!Create, D!Update, D!Delete, D!Fails, D!Answer, ProcessInv
  <2>2. request[t] # Absent
    BY <1>5 DEF D!Create, D!Update, D!Delete, D!Fails, D!Doing
  <2>3. PICK p \in Names : p = request[t].policy
    BY <2>2, RequestType
  <2>4. UNCHANGED log \/ UserStep
    <3>1. CASE D!Create(t)
      <4>1. PICK spec \in Specs : spec = D!NewSpec(request[t].form)
        BY <2>2, <3>1, RequestType, AcceptedForms DEF D!Create, D!Doing
      <4>2. D!CreatePolicy(p, spec)
        BY <2>3, <3>1, <4>1 DEF D!Create, D!PolicyOf
      <4>3. CreatePolicy(p, spec)
        BY <4>2, SameReads DEF D!CreatePolicy, D!UserMay, D!Put, CreatePolicy, UserMay, Put
      <4> QED
        BY <4>3 DEF UserStep
    <3>2. CASE D!Update(t)
      BY <3>2, UpdateEdits DEF UserStep
    <3>3. CASE D!Delete(t)
      <4>1. UNCHANGED log \/ D!DeletePolicy(p)
        BY <2>3, <3>3 DEF D!Delete, D!PolicyOf
      <4>2. UNCHANGED log \/ DeletePolicy(p)
        BY <4>1, SameReads DEF D!DeletePolicy, D!UserMay, D!Put, DeletePolicy, UserMay, Put
      <4> QED
        BY <4>2 DEF UserStep
    <3>4. CASE D!Fails(t)
      BY <3>4 DEF D!Fails
    <3> QED
      BY <1>5, <3>1, <3>2, <3>3, <3>4
  <2> QED
    BY <1>1, <2>1, <2>4 DEF Next, Foreseen, Users, vars, ctrlVars
<1> QED
  BY <1>1, <1>2, <1>3, <1>4, <1>5 DEF Server, D!ServeTab, D!Handle, vars, ctrlVars

LEMMA ProcessMoves ==
  ASSUME ProcessInv, [ProcessNext]_processVars
  PROVE  [Next]_vars /\ RequestsSound(request') /\ ServingOK(serving')
<1> USE DEF ProcessInv
<1>1. CASE Controller
  BY <1>1 DEF Controller, Manager, served, Next, Foreseen, Unnoticed, ControllerStep, Faults
<1>2. CASE RestartAll
  <2>1. Next /\ serving' = "starting" /\ request' = [t \in Tabs |-> Absent]
    BY <1>2 DEF RestartAll, Next, Foreseen, ControllerStep, Faults
  <2> QED
    BY <2>1 DEF RequestsSound, ServingOK
<1>3. ASSUME NEW t \in Tabs, Server(t)
      PROVE  [Next]_vars /\ RequestsSound(request') /\ ServingOK(serving')
  BY <1>3, HandlerIsUser
<1>4. CASE Start
  BY <1>4 DEF Start, D!StartManager, D!CacheSynced, vars, ctrlVars, ServingOK
<1>5. CASE Cluster
  <2>1. UNCHANGED <<serving, request>>
    BY <1>5 DEF Cluster, served
  <2>2. Kubectl => Users
    BY DEF Kubectl, Users, UserStep
  <2>3. Next
    BY <1>5, <2>2 DEF Cluster, Next, Foreseen, Unnoticed
  <2> QED
    BY <2>1, <2>3
<1>6. CASE UNCHANGED processVars
  BY <1>6 DEF processVars, served
<1> QED
  BY <1>1, <1>2, <1>3, <1>4, <1>5, <1>6 DEF ProcessNext

-----------------------------------------------------------------------------
(* The theorems *)

LEMMA ProcessStarts == ProcessInit => ProcessInv
<1> SUFFICES ASSUME ProcessInit PROVE ProcessInv
  OBVIOUS
<1>1. Init /\ serving = "starting" /\ request = [t \in Tabs |-> Absent]
  BY DEF ProcessInit, D!DashboardInit
<1> QED
  BY <1>1, CtrlInit DEF ProcessInv, ServingOK, RequestsSound

LEMMA ProcessStep == ProcessInv /\ [ProcessNext]_processVars => ProcessInv'
<1> SUFFICES ASSUME ProcessInv, [ProcessNext]_processVars PROVE ProcessInv'
  OBVIOUS
<1>1. [Next]_vars /\ RequestsSound(request') /\ ServingOK(serving')
  BY ProcessMoves
<1>2. CtrlInv' /\ OnlyGrows /\ StoreOK
  BY <1>1, CtrlStep, ControllerGrows DEF ProcessInv, CtrlInv, TypeOK
<1>3. PICK r : r = request' /\ RequestsSound(r)
  BY <1>1
<1>4. RequestsSound(r)'
  BY <1>2, <1>3, RequestsKept
<1> QED
  BY <1>1, <1>2, <1>3, <1>4
     DEF ProcessInv, ServingOK, RequestsSound, D!Request, D!Valid, Latest, At

LEMMA ProcessInvariant == ProcessSpec => []ProcessInv
<1>1. ProcessInit => ProcessInv
  BY ProcessStarts
<1>2. ProcessInv /\ [ProcessNext]_processVars => ProcessInv'
  BY ProcessStep
<1> QED
  BY <1>1, <1>2, PTL DEF ProcessSpec

\* The process is well typed, and the copy that an update was computed from was a
\* live policy.
THEOREM ProcessTypes == ProcessSpec => []ProcessTypeOK
<1>1. ProcessInv => ProcessTypeOK
  BY SameReads
     DEF ProcessInv, CtrlInv, ProcessTypeOK, ServingOK, RequestsSound, D!DashboardOK, D!Doing, D!Copy
<1> QED
  BY <1>1, ProcessInvariant, PTL

\* With the dashboard beside it the controller is in an environment that it
\* expects: every theorem about the controller alone holds in the process.
THEOREM HandlersAreUsers == ProcessSpec => HandlersAsUsers
<1>1. ProcessInit => Init
  BY DEF ProcessInit
<1>2. ProcessInv /\ [ProcessNext]_processVars => [Next]_vars
  BY ProcessMoves
<1> QED
  BY <1>1, <1>2, ProcessInvariant, PTL DEF ProcessSpec, HandlersAsUsers, Spec

\* An update that is taken edits the version of that instant, whatever the cache
\* held when the handler read it.
THEOREM UpdatesKeepTheRest == ProcessSpec => EditsKeepTheRest
<1> DEFINE Kept ==
      \A t \in Tabs :
        D!Doing(t, "update") /\ request'[t] = Absent /\ log' # log =>
          LET p == D!PolicyOf(t)
          IN  /\ Exists(p)
              /\ log'[p] = Append(log[p],
                   [Current(p) EXCEPT !.spec = D!EditedSpec(@, request[t].form)])
<1>1. ProcessInv /\ [ProcessNext]_processVars => Kept
  <2> SUFFICES ASSUME ProcessInv, [ProcessNext]_processVars, NEW t \in Tabs,
                      D!Doing(t, "update"), request'[t] = Absent, log' # log
               PROVE  LET p == D!PolicyOf(t)
                      IN  /\ Exists(p)
                          /\ log'[p] = Append(log[p],
                               [Current(p) EXCEPT !.spec = D!EditedSpec(@, request[t].form)])
    OBVIOUS
  <2>1. request[t] # Absent /\ request[t].pc = "update"
    BY DEF D!Doing
  <2>2. \E u \in Tabs : Server(u)
    BY <2>1 DEF ProcessNext, processVars, vars, served, Controller, Cluster, RestartAll, Restart,
                Start, D!StartManager, D!CacheSynced
  <2>3. PICK u \in Tabs : Server(u)
    BY <2>2
  <2>4. u = t
    <3>1. request' = [request EXCEPT ![u] = request'[u]]
      BY <2>3 DEF Server, D!ServeTab, D!PostPolicy, D!PutPolicy, D!DeleteRequest, D!Submit,
                  D!Handle, D!Create, D!Get, D!Update, D!Delete, D!Fails, D!Answer,
                  ProcessInv, RequestsSound
    <3> QED
      BY <2>1, <3>1 DEF ProcessInv, RequestsSound
  <2>5. D!Update(t)
    BY <2>1, <2>3, <2>4
       DEF Server, D!ServeTab, D!PostPolicy, D!PutPolicy, D!DeleteRequest, D!Submit, D!Handle,
           D!Create, D!Get, D!Delete, D!Fails, D!Doing
  <2>6. PICK p \in Names : /\ p = request[t].policy /\ Exists(p)
                           /\ EditPolicy(p, D!EditedSpec(Current(p).spec, request[t].form))
    BY <2>5, UpdateEdits
  <2>7. Put(p, [Current(p) EXCEPT !.spec = D!EditedSpec(Current(p).spec, request[t].form)])
    BY <2>6 DEF EditPolicy
  <2>8. log'[p] = Append(log[p],
          [Current(p) EXCEPT !.spec = D!EditedSpec(Current(p).spec, request[t].form)])
    BY <2>7 DEF Put, ProcessInv, CtrlInv, TypeOK, StoreOK
  <2> QED
    BY <2>6, <2>8 DEF D!PolicyOf
<1> QED
  BY <1>1, ProcessInvariant, PTL DEF ProcessSpec, EditsKeepTheRest
=============================================================================
