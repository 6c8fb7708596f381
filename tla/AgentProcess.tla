---------------------------- MODULE AgentProcess ----------------------------
(***************************************************************************)
(* cmd/agent/main.go: the goroutines of one agent.  The stream of events   *)
(* and its channel (EventStream) start together with the informer that     *)
(* hands the policies to the matcher (internal/k8s/watcher.go), and the    *)
(* main loop looks up, judges, announces and reports one event at a time.  *)
(* The policies stand still here; what becomes of a report when they do    *)
(* not, and of the agent's memory of it, is the module Agent's.            *)
(***************************************************************************)
EXTENDS GeoIP

CONSTANTS
  Connections,   \* the workloads' namespaces and the destinations they connect to
  Kinds, Capacity, MaxBackoff, MaxEvents, MaxBreaks,   \* as of EventStream
  PolicyOf,      \* per name: the spec of the policy in the cluster
  TrueCountry    \* per destination: its country, NoCountry for an internal one

ASSUME KindsAssumption ==
  Kinds \subseteq {"tcp_connect", "tcp_v4_connect", "other_kprobe", "no_pod", "no_kprobe"}
ASSUME BoundsAssumption ==
  Capacity \in Nat \ {0} /\ MaxBackoff \in Nat \ {0} /\ MaxEvents \in Nat /\ MaxBreaks \in Nat
ASSUME PolicyOfAssumption == PolicyOf \in [Names -> Specs]
ASSUME TrueCountryAssumption == TrueCountry \in [Dests -> Countries \cup {NoCountry}]
ASSUME ConnectionsAssumption ==
  Connections \subseteq [ns : Namespaces, dest : Dests] /\ Absent \notin Connections

VARIABLES
  emitted, link, wire, missed, pc, backoff, hand, channel, current, handled, cancelled,
  breaks,       \* the stream of events
  informer,     \* WatchPolicies: "asking" for its informer, "synced" or "failed"
  known,        \* policies handed to the matcher
  step,         \* of the main loop: "waiting", "judge", "announce", "report", "finish"
  connection,   \* the current event's: nothing looks at it before the main loop does
  judgedBy,     \* the policies known when the current event was judged
  verdict,      \* of the current event
  announced,    \* the actions announced for it as Kubernetes events
  reported      \* ReportViolator was called for it

S == INSTANCE EventStream

streamVars == <<emitted, link, wire, missed, pc, backoff, hand, channel, current, handled,
                cancelled, breaks>>
watchVars  == <<informer, known>>
eventVars  == <<step, connection, judgedBy, verdict, announced, reported>>
vars       == <<streamVars, watchVars, eventVars>>

\* The country the evaluator is given: none after a failure.
Country ==
  LET found == LookupCountry(connection.dest) IN IF found = Failed THEN NoCountry ELSE found

Question == [ns |-> connection.ns, country |-> Country]

matcher == [n \in Names |-> IF n \in known THEN PolicyOf[n] ELSE Absent]

J == INSTANCE Judge WITH
       policies <- matcher,
       phase    <- step,
       event    <- Question

NoVerdict == J!Permit(J!NoPolicy)

Init ==
  /\ S!Init
  /\ informer = "asking" /\ known = {}
  /\ step = "waiting" /\ connection = Absent /\ judgedBy = {} /\ verdict = NoVerdict
  /\ announced = << >> /\ reported = FALSE
-----------------------------------------------------------------------------
(* WatchPolicies *)

Running == pc # "exited"

\* The answer waits for the first list of the policies.
GetInformer ==
  /\ Running
  /\ informer = "asking"
  /\ informer' = "synced"
  /\ UNCHANGED <<streamVars, known, eventVars>>

\* The API server cannot be reached or does not know the resource: the goroutine
\* logs it and returns, the rest of the agent goes on.
GetInformerFails ==
  /\ Running
  /\ informer = "asking"
  /\ informer' = "failed"
  /\ UNCHANGED <<streamVars, known, eventVars>>

\* Faulty: the goroutine is done with the first policy.
AddFirst(n) ==
  /\ Running
  /\ informer = "synced"
  /\ known = {}
  /\ known' = known \cup {n}
  /\ UNCHANGED <<streamVars, informer, eventVars>>

\* The handler is called with each policy there is, one after the other.
AddPolicy(n) ==
  /\ Running
  /\ informer = "synced"
  /\ n \notin known
  /\ known' = known \cup {n}
  /\ UNCHANGED <<streamVars, informer, eventVars>>
-----------------------------------------------------------------------------
(* The main loop *)

Take ==
  /\ S!TakeEvent
  /\ step = "waiting"
  /\ step' = "judge"
  /\ connection' \in Connections
  /\ UNCHANGED <<watchVars, judgedBy, verdict, announced, reported>>

\* Lookup and evaluation.
JudgeEvent ==
  /\ Running
  /\ step = "judge"
  /\ verdict' \in J!Verdicts(matcher, Question)
  /\ judgedBy' = known
  /\ step' = IF verdict'.violated /\ verdict'.actions # << >> THEN "announce" ELSE "finish"
  /\ UNCHANGED <<streamVars, watchVars, connection, announced, reported>>

Blocking(action) == action \in {"block-kill", "block-noconn"}

\* The actions up to the first that blocks.
UpToBlock(actions) ==
  SubSeq(actions, 1, CHOOSE n \in 1..Len(actions) :
                       /\ n = Len(actions) \/ Blocking(actions[n])
                       /\ \A i \in 1..n - 1 : ~Blocking(actions[i]))

\* Faulty: only the first action is looked at.
AnnounceFirst ==
  /\ Running
  /\ step = "announce"
  /\ announced' = << verdict.actions[1] >>
  /\ step' = IF Blocking(verdict.actions[1]) THEN "report" ELSE "finish"
  /\ UNCHANGED <<streamVars, watchVars, connection, judgedBy, verdict, reported>>

\* EmitViolationEvent, which does not wait, for each action up to the first that
\* blocks; that one is also reported.  Its early return for an event without a pod
\* is never taken: parseEvent keeps events of pods only, which have names.
Announce ==
  /\ Running
  /\ step = "announce"
  /\ announced' = UpToBlock(verdict.actions)
  /\ step' = IF \E i \in DOMAIN verdict.actions : Blocking(verdict.actions[i])
             THEN "report" ELSE "finish"
  /\ UNCHANGED <<streamVars, watchVars, connection, judgedBy, verdict, reported>>

\* Faulty: a report is tried again until it succeeds.
ReportForever ==
  /\ Running
  /\ step = "report"
  /\ reported' = TRUE
  /\ UNCHANGED <<streamVars, watchVars, step, connection, judgedBy, verdict, announced>>

\* ReportViolator, whatever comes of it (Agent); no action after it is looked at.
ReportViolator ==
  /\ Running
  /\ step = "report"
  /\ reported' = TRUE
  /\ step' = "finish"
  /\ UNCHANGED <<streamVars, watchVars, connection, judgedBy, verdict, announced>>

Finish ==
  /\ S!FinishEvent
  /\ step = "finish"
  /\ step' = "waiting" /\ judgedBy' = {} /\ verdict' = NoVerdict
  /\ connection' = Absent /\ announced' = << >> /\ reported' = FALSE
  /\ UNCHANGED watchVars

MainLoop == Take \/ JudgeEvent \/ Announce \/ ReportViolator \/ Finish

Stream == S!Stream /\ UNCHANGED <<watchVars, eventVars>>

\* What Tetragon does after the agent's end is no longer of interest.
Around ==
  /\ Running
  /\ (\E kind \in Kinds : S!Emit(kind)) \/ S!Break \/ S!Cancel \/ S!Exit
  /\ UNCHANGED <<watchVars, eventVars>>

Next ==
  \/ Around
  \/ Stream
  \/ GetInformer \/ GetInformerFails
  \/ \E n \in Names : AddPolicy(n)
  \/ MainLoop

Spec == Init /\ [][Next]_vars

\* Goroutines run and calls to the API server return; Tetragon is free to stop.
FairSpec ==
  /\ Spec
  /\ WF_vars(Stream)
  /\ WF_vars(GetInformer \/ GetInformerFails)
  /\ \A n \in Names : WF_vars(AddPolicy(n))
  /\ WF_vars(MainLoop)
-----------------------------------------------------------------------------
TypeOK ==
  /\ S!TypeOK
  /\ informer \in {"asking", "synced", "failed"} /\ known \subseteq Names
  /\ step \in {"waiting", "judge", "announce", "report", "finish"}
  /\ step = "waiting" <=> current = << >>
  /\ connection \in IF step = "waiting" THEN {Absent} ELSE Connections
  /\ judgedBy \subseteq known
  /\ announced \in Seq(Actions) /\ reported \in BOOLEAN

\* Of the connections of pods none is lost, repeated or overtaken on its way to
\* the main loop, except those that a broken stream or its absence cost.
NothingLostOrReordered == S!NothingLostOrReordered

\* A connection that Tetragon has sent is handled, however slow the main loop
\* and full the channel, unless its stream breaks or the agent shuts down first.
SentIsHandled == S!SentIsHandled

\* The subscription is renewed after every break, until the agent shuts down.
Resubscribes == S!Resubscribes

\* The policies that forbid the event in hand going by where it really leads.
Forbidding == {n \in Names : Violates(PolicyOf[n], connection.ns, TrueCountry[connection.dest])}

Resolves(dest) == AddressOf[dest] # Absent /\ IsoOf[dest] # Broken

\* What has been done about the event in hand is what its policies ask for.
Accounted ==
  IF Forbidding \cap judgedBy = {} \/ ~Resolves(connection.dest)
  THEN announced = << >> /\ ~reported
  ELSE \E n \in Forbidding \cap judgedBy :
         LET spec     == PolicyOf[n]
             blocking == {i \in DOMAIN spec.actions :
                            spec.actions[i] \in {"block-kill", "block-noconn"}}
         IN  /\ reported <=> Blocks(spec)
             /\ \A i \in DOMAIN spec.actions :
                  i \in DOMAIN announced <=> \A k \in blocking : i <= k
             /\ \A i \in DOMAIN announced : announced[i] = spec.actions[i]

\* The main loop lets a forbidden connection pass without a trace only if it
\* came before every policy that forbids it was known, or the lookup failed; of
\* the others it announces each action up to the first that blocks, which it
\* reports.  It does neither for a connection that no policy forbids.
OnlyExcusedMisses == [][Finish => Accounted]_vars

\* Every policy of the cluster reaches the matcher, unless the agent shuts down
\* or its informer failed: then it stays blind, however long it runs.
PoliciesArrive == <>(known = Names \/ informer = "failed" \/ cancelled)
=============================================================================
