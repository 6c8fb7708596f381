-------------------------- MODULE PolicyStoreProofs --------------------------
(***************************************************************************)
(* What a write to the API server does to the logs, for the proofs about   *)
(* the agents and the controller.                                          *)
(***************************************************************************)
EXTENDS PolicyStore, TLAPS

\* A version that may be appended to p's log.
Fits(p, v) == v \in Version \cup {Absent} /\ (v # Absent => v.uid \in 1..Latest(p) + 1)

LEMMA StoreInitOK == StoreInit => StoreOK
  BY DEF StoreInit, StoreOK, Latest

LEMMA LogTypes ==
  ASSUME StoreOK, NEW p \in Names
  PROVE  /\ log[p] \in Seq(Version \cup {Absent})
         /\ Latest(p) \in Nat
         /\ \A i \in 1..Latest(p) : log[p][i] \in Version \cup {Absent}
  BY DEF StoreOK, Latest

LEMMA VersionAt ==
  ASSUME StoreOK, NEW p \in Names, NEW i \in 0..Latest(p), At(p, i) # Absent
  PROVE  i \in 1..Latest(p) /\ At(p, i) = log[p][i] /\ At(p, i) \in Version
         /\ At(p, i).uid \in 1..Latest(p)
<1>1. i # 0
  BY DEF At
<1>2. Latest(p) \in Nat /\ \A k \in 1..Latest(p) : log[p][k] \in Version \cup {Absent}
  BY LogTypes
<1>3. i \in 1..Latest(p)
  BY <1>1, <1>2
<1>4. At(p, i) = log[p][i]
  BY <1>1 DEF At
<1>5. log[p][i].uid \in 1..i
  BY <1>3, <1>4 DEF StoreOK
<1> QED
  BY <1>2, <1>3, <1>4, <1>5

LEMMA CurrentVersion ==
  ASSUME StoreOK, NEW p \in Names, Exists(p)
  PROVE  /\ Latest(p) \in Nat \ {0}
         /\ Current(p) = log[p][Latest(p)]
         /\ Current(p) \in Version
         /\ Current(p).uid \in 1..Latest(p)
<1>1. Latest(p) \in 0..Latest(p)
  BY LogTypes
<1> QED
  BY <1>1, VersionAt DEF Exists, Current

\* An append changes nothing but the end of one log.
LEMMA PutAppends ==
  ASSUME StoreOK, NEW p \in Names, NEW v, Fits(p, v), Put(p, v)
  PROVE  /\ StoreOK'
         /\ Latest(p)' = Latest(p) + 1
         /\ log'[p][Latest(p) + 1] = v
         /\ \A i \in 1..Latest(p) : log'[p][i] = log[p][i]
         /\ \A q \in Names : q # p => log'[q] = log[q]
<1> DEFINE R == Version \cup {Absent}
<1>1. /\ log \in [Names -> Seq(R)]
      /\ log[p] \in Seq(R)
      /\ v \in R
  BY LogTypes DEF StoreOK, Fits
<1>2. log' = [log EXCEPT ![p] = Append(log[p], v)]
  BY DEF Put
<1> HIDE DEF R
<1>3. log'[p] = Append(log[p], v) /\ \A q \in Names : q # p => log'[q] = log[q]
  BY <1>1, <1>2
<1>4. /\ Append(log[p], v) \in Seq(R)
      /\ Len(Append(log[p], v)) = Len(log[p]) + 1
      /\ Append(log[p], v)[Len(log[p]) + 1] = v
      /\ \A i \in 1..Len(log[p]) : Append(log[p], v)[i] = log[p][i]
  BY <1>1
<1>5. /\ Latest(p)' = Latest(p) + 1
      /\ log'[p][Latest(p) + 1] = v
      /\ \A i \in 1..Latest(p) : log'[p][i] = log[p][i]
  BY <1>3, <1>4 DEF Latest
<1>6. log' \in [Names -> Seq(R)]
  BY <1>1, <1>2, <1>4
<1>7. ASSUME NEW q \in Names, NEW i \in 1..Latest(q)', log'[q][i] # Absent
      PROVE  log'[q][i].uid \in 1..i
  <2>1. CASE q # p
    BY <1>3, <1>7, <2>1 DEF StoreOK, Latest
  <2>2. CASE q = p /\ i = Latest(p) + 1
    BY <1>5, <1>7, <2>2 DEF Fits
  <2>3. CASE q = p /\ i # Latest(p) + 1
    <3>1. Latest(p) \in Nat /\ i \in 1..Latest(p) + 1
      BY <1>5, <1>7, <2>3, LogTypes
    <3>2. i \in 1..Latest(p)
      BY <2>3, <3>1
    <3> QED
      BY <1>5, <1>7, <2>3, <3>2 DEF StoreOK
  <2> QED
    BY <2>1, <2>2, <2>3
<1>8. StoreOK'
  BY <1>6, <1>7 DEF StoreOK, R
<1> QED
  BY <1>3, <1>5, <1>8

\* No version is ever taken back.
OnlyGrows ==
  \A q \in Names :
    /\ Latest(q)' \in Nat /\ Latest(q) <= Latest(q)'
    /\ \A i \in 1..Latest(q) : log'[q][i] = log[q][i]

LEMMA PutGrows ==
  ASSUME StoreOK, NEW p \in Names, NEW v, Fits(p, v), Put(p, v)
  PROVE  OnlyGrows
<1>1. \A q \in Names : Latest(q) \in Nat
  BY LogTypes
<1>2. \A q \in Names : q # p => Latest(q)' = Latest(q)
  BY PutAppends DEF Latest
<1> QED
  BY <1>1, <1>2, PutAppends DEF OnlyGrows

LEMMA SameGrows ==
  ASSUME StoreOK, UNCHANGED log
  PROVE  OnlyGrows
  BY LogTypes DEF OnlyGrows, Latest

\* What was condemned stays condemned.
LEMMA CondemnedKept ==
  ASSUME StoreOK, OnlyGrows, NEW p \in Names, NEW ip, NEW n \in 0..Latest(p), CondemnedBy(p, n, ip)
  PROVE  /\ CondemnedBy(p, n, ip)'
         /\ CondemnedBy(p, Latest(p), ip)'
         /\ CondemnedBy(p, Latest(p), ip)
<1>1. PICK i \in 1..n : log[p][i] # Absent /\ Condemns(log[p][i].spec, ip)
  BY DEF CondemnedBy
<1>2. Latest(p) \in Nat /\ i \in 1..Latest(p)
  BY LogTypes
<1>3. log'[p][i] = log[p][i] /\ Latest(p) <= Latest(p)'
  BY <1>2 DEF OnlyGrows
<1>4. i \in 1..n /\ i \in 1..Latest(p)'
  BY <1>2, <1>3 DEF Latest
<1> QED
  BY <1>1, <1>2, <1>3, <1>4 DEF CondemnedBy, Condemns

\* A version stays where it was.
LEMMA AtKept ==
  ASSUME StoreOK, OnlyGrows, NEW p \in Names, NEW i \in 0..Latest(p)
  PROVE  At(p, i)' = At(p, i)
<1>1. Latest(p) \in Nat
  BY LogTypes
<1>2. CASE i = 0
  BY <1>2 DEF At
<1>3. CASE i # 0
  <2>1. i \in 1..Latest(p)
    BY <1>1, <1>3
  <2> QED
    BY <1>3, <2>1 DEF At, OnlyGrows
<1> QED
  BY <1>2, <1>3

\* Every step of a user appends one version to one log, leaves the Ready condition
\* of a live policy alone, and lists no new address.
LEMMA UserAppends ==
  ASSUME StoreOK, UserStep
  PROVE  \E p \in Names, v \in Version \cup {Absent} :
           /\ Put(p, v)
           /\ Fits(p, v)
           /\ Exists(p) /\ v # Absent => v.ready = Current(p).ready
           /\ v # Absent /\ v.ips # {} => Exists(p) /\ v.ips = Current(p).ips
<1>1. PICK p \in Names :
        \/ \E spec \in Specs : CreatePolicy(p, spec) \/ EditPolicy(p, spec)
        \/ DeletePolicy(p)
        \/ ClearAddresses(p)
  BY DEF UserStep
<1>2. Latest(p) \in Nat
  BY LogTypes
<1>3. ASSUME NEW spec \in Specs, CreatePolicy(p, spec)
      PROVE \E v \in Version \cup {Absent} :
              /\ Put(p, v) /\ Fits(p, v)
              /\ Exists(p) /\ v # Absent => v.ready = Current(p).ready
              /\ v # Absent /\ v.ips # {} => Exists(p) /\ v.ips = Current(p).ips
  <2> DEFINE v == [uid |-> Latest(p) + 1, spec |-> spec, ips |-> {}, ready |-> FALSE]
  <2>1. v \in Version /\ v.uid \in 1..Latest(p) + 1
    BY <1>2 DEF Version
  <2>2. Put(p, v) /\ ~Exists(p)
    BY <1>3 DEF CreatePolicy
  <2> QED
    BY <2>1, <2>2 DEF Fits
<1>4. ASSUME NEW spec \in Specs, EditPolicy(p, spec)
      PROVE \E v \in Version \cup {Absent} :
              /\ Put(p, v) /\ Fits(p, v)
              /\ Exists(p) /\ v # Absent => v.ready = Current(p).ready
              /\ v # Absent /\ v.ips # {} => Exists(p) /\ v.ips = Current(p).ips
  <2> DEFINE v == [Current(p) EXCEPT !.spec = spec]
  <2>1. Current(p) \in Version /\ Current(p).uid \in 1..Latest(p)
    BY <1>4, CurrentVersion DEF EditPolicy
  <2>2. v \in Version /\ v.uid \in 1..Latest(p) + 1 /\ v.ready = Current(p).ready
      /\ (v.ips # {} => v.ips = Current(p).ips)
    BY <1>2, <2>1 DEF Version
  <2>3. Put(p, v) /\ Exists(p)
    BY <1>4 DEF EditPolicy
  <2> QED
    BY <2>2, <2>3 DEF Fits
<1>5. CASE DeletePolicy(p)
  BY <1>5 DEF DeletePolicy, Fits
<1>6. CASE ClearAddresses(p)
  <2> DEFINE v == [Current(p) EXCEPT !.ips = {}]
  <2>1. Current(p) \in Version /\ Current(p).uid \in 1..Latest(p)
    BY <1>6, CurrentVersion DEF ClearAddresses
  <2>2. v \in Version /\ v.uid \in 1..Latest(p) + 1 /\ v.ready = Current(p).ready
      /\ (v.ips # {} => v.ips = Current(p).ips)
    BY <1>2, <2>1 DEF Version
  <2>3. Put(p, v) /\ Exists(p)
    BY <1>6 DEF ClearAddresses
  <2> QED
    BY <2>2, <2>3 DEF Fits
<1> QED
  BY <1>1, <1>3, <1>4, <1>5, <1>6
=============================================================================
