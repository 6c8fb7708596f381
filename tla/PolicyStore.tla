----------------------------- MODULE PolicyStore -----------------------------
(***************************************************************************)
(* SovereigntyPolicy objects in the API server, and what users do to them. *)
(* Each name keeps the log of its versions; its length is the object's     *)
(* resourceVersion.  Readers may hold any version, and a status write      *)
(* names the version it was computed from: the server refuses it when the  *)
(* log has grown since.  The dashboard's handlers (internal/api/server.go) *)
(* and kubectl are the users.                                              *)
(***************************************************************************)
EXTENDS Policy

CONSTANTS
  IPs,         \* destination addresses that workloads connect to
  CountryOf,   \* what the GeoIP lookup answers for each of them
  UserOps,     \* which of "create", "edit", "delete", "clear" users perform
  MaxLog       \* users stop writing to a policy with this many versions

ASSUME CountryOfAssumption == CountryOf \in [IPs -> Countries \cup {NoCountry}]
ASSUME MaxLogAssumption    == MaxLog \in Nat

\* One stored version of a SovereigntyPolicy: its UID, spec and status.
Version == [uid : Nat, spec : Specs, ips : SUBSET IPs, ready : BOOLEAN]

ASSUME NoVersionAssumption == Absent \notin Version /\ \A S \in SUBSET IPs : S # Absent

VARIABLE log

Latest(p)  == Len(log[p])
At(p, i)   == IF i = 0 THEN Absent ELSE log[p][i]
Current(p) == At(p, Latest(p))
Exists(p)  == Current(p) # Absent

\* The spec asks for a kernel block of some workload's connections to ip.
Condemns(spec, ip) ==
  Blocks(spec) /\ \E ns \in Namespaces : Violates(spec, ns, CountryOf[ip])

\* Some version among the first n had a spec that condemned ip.
CondemnedBy(p, n, ip) == \E i \in 1..n : log[p][i] # Absent /\ Condemns(log[p][i].spec, ip)

StoreInit == log = [p \in Names |-> << >>]

Put(p, version) == log' = [log EXCEPT ![p] = Append(log[p], version)]

UserMay(op, p) == op \in UserOps /\ Latest(p) < MaxLog

CreatePolicy(p, spec) ==
  /\ UserMay("create", p)
  /\ ~Exists(p)
  /\ Put(p, [uid |-> Latest(p) + 1, spec |-> spec, ips |-> {}, ready |-> FALSE])

\* A spec update leaves the status, and the addresses in it, as they were.
EditPolicy(p, spec) ==
  /\ UserMay("edit", p)
  /\ Exists(p)
  /\ spec # Current(p).spec
  /\ Put(p, [Current(p) EXCEPT !.spec = spec])

DeletePolicy(p) ==
  /\ UserMay("delete", p)
  /\ Exists(p)
  /\ Put(p, Absent)

\* kubectl edit --subresource=status: the user clears the addresses.
ClearAddresses(p) ==
  /\ UserMay("clear", p)
  /\ Exists(p)
  /\ Current(p).ips # {}
  /\ Put(p, [Current(p) EXCEPT !.ips = {}])

UserStep ==
  \E p \in Names :
    \/ \E spec \in Specs : CreatePolicy(p, spec) \/ EditPolicy(p, spec)
    \/ DeletePolicy(p)
    \/ ClearAddresses(p)

StoreOK ==
  /\ log \in [Names -> Seq(Version \cup {Absent})]
  /\ \A p \in Names : \A i \in 1..Latest(p) :
       log[p][i] # Absent => log[p][i].uid \in 1..i
=============================================================================
