--------------------------- MODULE ViolatorLedger ---------------------------
(***************************************************************************)
(* What the agents together promise about status.discoveredViolatorIPs:    *)
(* the list of a policy grows by one address at a time, only by addresses  *)
(* that a published spec of that policy condemned, and no agent ever takes *)
(* back what another has written.  Retries, conflicts, crashes and         *)
(* duplicate reports cannot be seen at this level.                         *)
(***************************************************************************)
CONSTANTS Names, IPs, Absent

VARIABLES
  ledger,      \* name -> set of addresses, or Absent
  condemned    \* the pairs <<name, address>> that some spec has condemned

vars == <<ledger, condemned>>

Init ==
  /\ ledger = [p \in Names |-> Absent]
  /\ condemned = {}

Judge(p, judged) == condemned' = condemned \cup {<<p, ip>> : ip \in judged}

Publish(p, judged) ==
  /\ ledger[p] = Absent
  /\ ledger' = [ledger EXCEPT ![p] = {}]
  /\ Judge(p, judged)

Revise(p, judged) ==
  /\ ledger[p] # Absent
  /\ Judge(p, judged)
  /\ UNCHANGED ledger

Report(p, ip) ==
  /\ ledger[p] # Absent
  /\ ip \notin ledger[p]
  /\ <<p, ip>> \in condemned
  /\ ledger' = [ledger EXCEPT ![p] = @ \cup {ip}]
  /\ UNCHANGED condemned

\* Only users withdraw a policy or clear its list.
Withdraw(p) ==
  /\ ledger[p] # Absent
  /\ ledger' = [ledger EXCEPT ![p] = Absent]
  /\ UNCHANGED condemned

Clear(p) ==
  /\ ledger[p] # Absent
  /\ ledger' = [ledger EXCEPT ![p] = {}]
  /\ UNCHANGED condemned

Next ==
  \E p \in Names :
    \/ \E judged \in SUBSET IPs : Publish(p, judged) \/ Revise(p, judged)
    \/ \E ip \in IPs : Report(p, ip)
    \/ Withdraw(p)
    \/ Clear(p)

Spec == Init /\ [][Next]_vars
=============================================================================
