------------------------- MODULE AgentProcessProofs -------------------------
(***************************************************************************)
(* One agent, for every stream of events, capacity, table of addresses and *)
(* set of policies: what its lookup takes for internal, that the stream's  *)
(* goroutine and the main loop hand every event on in order, and that the  *)
(* main loop misses a forbidden connection only with an excuse.            *)
(***************************************************************************)
EXTENDS AgentProcess, SequenceTheorems, WellFoundedInduction, TLAPS

-----------------------------------------------------------------------------
(* LookupCountry *)

\* The intervals of the comment "loopback, RFC1918 private, link-local", bound by
\* bound, in first 16 bits.
Internal(address) ==
  \/ /\ address.v = 4
     /\ \/ address.head \in 2560..2815                \* 10.0 to 10.255
        \/ address.head \in 44048..44063              \* 172.16 to 172.31
        \/ address.head = 49320                       \* 192.168
        \/ address.head \in 32512..32767              \* 127.0 to 127.255
        \/ address.head = 43518                       \* 169.254
  \/ /\ address.v = 6
     /\ \/ address.head \in 64512..65023              \* fc00 to fdff
        \/ address.head \in 65152..65215              \* fe80 to febf
        \/ address.head = 0 /\ address.rest = 1       \* ::1

\* isPrivate answers yes for the internal addresses and for no other: no range is
\* misaligned, none reaches into public addresses.
THEOREM PrivateRanges ==
  ASSUME NEW address \in Address
  PROVE  isPrivate(address) <=> Internal(address)
<1> DEFINE In(v, head, size) == Contains(Network(v, head, size), address)
<1>1. address.head \in Nat
  BY DEF Address
<1>2. address = Loopback6 <=> address.v = 6 /\ address.head = 0 /\ address.rest = 1
  BY DEF Loopback6, Address
<1>3. In(4, 10 * 256, 256) <=> address.v = 4 /\ address.head \in 2560..2815
  <2>1. In(4, 10 * 256, 256) <=> address.v = 4 /\ address.head \div 256 = (10 * 256) \div 256
    BY DEF Contains, Network
  <2>2. address.head \div 256 = (10 * 256) \div 256 <=> address.head \in 2560..2815
    BY ONLY <1>1, SMTT(30)
  <2> QED
    BY ONLY <2>1, <2>2
<1>4. In(4, 172 * 256 + 16, 16) <=> address.v = 4 /\ address.head \in 44048..44063
  <2>1. In(4, 172 * 256 + 16, 16) <=> address.v = 4 /\ address.head \div 16 = (172 * 256 + 16) \div 16
    BY DEF Contains, Network
  <2>2. address.head \div 16 = (172 * 256 + 16) \div 16 <=> address.head \in 44048..44063
    BY ONLY <1>1, SMTT(30)
  <2> QED
    BY ONLY <2>1, <2>2
<1>5. In(4, 192 * 256 + 168, 1) <=> address.v = 4 /\ address.head = 49320
  <2>1. In(4, 192 * 256 + 168, 1) <=> address.v = 4 /\ address.head \div 1 = (192 * 256 + 168) \div 1
    BY DEF Contains, Network
  <2>2. address.head \div 1 = (192 * 256 + 168) \div 1 <=> address.head = 49320
    BY ONLY <1>1, SMTT(30)
  <2> QED
    BY ONLY <2>1, <2>2
<1>6. In(4, 127 * 256, 256) <=> address.v = 4 /\ address.head \in 32512..32767
  <2>1. In(4, 127 * 256, 256) <=> address.v = 4 /\ address.head \div 256 = (127 * 256) \div 256
    BY DEF Contains, Network
  <2>2. address.head \div 256 = (127 * 256) \div 256 <=> address.head \in 32512..32767
    BY ONLY <1>1, SMTT(30)
  <2> QED
    BY ONLY <2>1, <2>2
<1>7. In(4, 169 * 256 + 254, 1) <=> address.v = 4 /\ address.head = 43518
  <2>1. In(4, 169 * 256 + 254, 1) <=> address.v = 4 /\ address.head \div 1 = (169 * 256 + 254) \div 1
    BY DEF Contains, Network
  <2>2. address.head \div 1 = (169 * 256 + 254) \div 1 <=> address.head = 43518
    BY ONLY <1>1, SMTT(30)
  <2> QED
    BY ONLY <2>1, <2>2
<1>8. In(6, 64512, 512) <=> address.v = 6 /\ address.head \in 64512..65023
  <2>1. In(6, 64512, 512) <=> address.v = 6 /\ address.head \div 512 = 64512 \div 512
    BY DEF Contains, Network
  <2>2. address.head \div 512 = 64512 \div 512 <=> address.head \in 64512..65023
    BY ONLY <1>1, SMTT(30)
  <2> QED
    BY ONLY <2>1, <2>2
<1>9. In(6, 65152, 64) <=> address.v = 6 /\ address.head \in 65152..65215
  <2>1. In(6, 65152, 64) <=> address.v = 6 /\ address.head \div 64 = 65152 \div 64
    BY DEF Contains, Network
  <2>2. address.head \div 64 = 65152 \div 64 <=> address.head \in 65152..65215
    BY ONLY <1>1, SMTT(30)
  <2> QED
    BY ONLY <2>1, <2>2
<1>10. (\E net \in privateRanges : Contains(net, address)) <=>
         \/ In(4, 10 * 256, 256) \/ In(4, 172 * 256 + 16, 16) \/ In(4, 192 * 256 + 168, 1)
         \/ In(4, 127 * 256, 256) \/ In(4, 169 * 256 + 254, 1)
         \/ In(6, 64512, 512) \/ In(6, 65152, 64)
  BY DEF privateRanges
<1> HIDE DEF In
<1> QED
  BY <1>2, <1>3, <1>4, <1>5, <1>6, <1>7, <1>8, <1>9, <1>10 DEF isPrivate, Internal

\* Whatever the policies say, a connection to an internal address is judged to be
\* none of their business: it has no country, so it violates nothing.
THEOREM InternalLeftAlone ==
  ASSUME NEW dest \in Dests, AddressOf[dest] \in Address, Internal(AddressOf[dest]),
         NEW spec, NEW ns
  PROVE  ~Violates(spec, ns, LookupCountry(dest))
<1>1. isPrivate(AddressOf[dest]) /\ AddressOf[dest] # Absent
  BY PrivateRanges, AddressAssumption
<1>2. LookupCountry(dest) = NoCountry
  BY <1>1 DEF LookupCountry
<1> QED
  BY <1>2 DEF Violates

-----------------------------------------------------------------------------
(* Sequences *)

LEMMA HeadTail ==
  ASSUME NEW R, NEW q \in Seq(R), q # << >>
  PROVE  << Head(q) >> \o Tail(q) = q /\ Head(q) \in R /\ Tail(q) \in Seq(R)
  OBVIOUS

LEMMA Regroup ==
  \A R : \A q, r, s \in Seq(R) : (q \o r) \o s = q \o (r \o s)
  BY ConcatAssociative

LEMMA SameRange == \A q : S!Range(q) = Range(q)
  BY DEF S!Range, Range

\* Two sequences in a row increase if each does and the first stays below the second.
LEMMA ConcatIncreases ==
  ASSUME NEW q \in Seq(Nat), NEW r \in Seq(Nat)
  PROVE  S!Increasing(q \o r) <=>
           /\ S!Increasing(q) /\ S!Increasing(r)
           /\ \A m \in Range(q), n \in Range(r) : m < n
<1>1. PICK s : s = q \o r
  OBVIOUS
<1>2. PICK a \in Nat, b \in Nat : a = Len(q) /\ b = Len(r)
  OBVIOUS
<1>3. DOMAIN s = 1..a + b /\ DOMAIN q = 1..a /\ DOMAIN r = 1..b
  BY <1>1, <1>2
<1>4. \A i \in 1..a : s[i] = q[i]
  BY <1>1, <1>2
<1>5. \A i \in 1..b : s[a + i] = r[i]
  BY <1>1, <1>2
<1>6. /\ \A i \in 1..a : i \in 1..a + b
      /\ \A i \in 1..b : a + i \in 1..a + b
      /\ \A i \in 1..a, j \in 1..b : i < a + j
      /\ \A i, j \in 1..b : i < j => a + i < a + j
  OBVIOUS
<1>7. \A i \in 1..a + b : i \in 1..a \/ \E k \in 1..b : i = a + k
  <2> SUFFICES ASSUME NEW i \in 1..a + b, i \notin 1..a PROVE \E k \in 1..b : i = a + k
    OBVIOUS
  <2>1. i - a \in 1..b /\ i = a + (i - a)
    OBVIOUS
  <2> QED
    BY <2>1
<1>8. ASSUME S!Increasing(s)
      PROVE  /\ S!Increasing(q) /\ S!Increasing(r)
             /\ \A m \in Range(q), n \in Range(r) : m < n
  <2>1. ASSUME NEW i \in 1..a, NEW j \in 1..a, i < j PROVE q[i] < q[j]
    <3>1. s[i] < s[j]
      BY <1>3, <1>6, <1>8, <2>1 DEF S!Increasing
    <3> QED
      BY <1>4, <3>1
  <2>2. ASSUME NEW i \in 1..b, NEW j \in 1..b, i < j PROVE r[i] < r[j]
    <3>1. s[a + i] < s[a + j]
      BY <1>3, <1>6, <1>8, <2>2 DEF S!Increasing
    <3> QED
      BY <1>5, <3>1
  <2>3. ASSUME NEW i \in 1..a, NEW j \in 1..b PROVE q[i] < r[j]
    <3>1. s[i] < s[a + j]
      BY <1>3, <1>6, <1>8 DEF S!Increasing
    <3> QED
      BY <1>4, <1>5, <3>1
  <2> QED
    BY <1>3, <2>1, <2>2, <2>3 DEF S!Increasing, Range
<1>9. ASSUME S!Increasing(q), S!Increasing(r), \A m \in Range(q), n \in Range(r) : m < n
      PROVE  S!Increasing(s)
  <2> SUFFICES ASSUME NEW i \in 1..a + b, NEW j \in 1..a + b, i < j PROVE s[i] < s[j]
    BY <1>3 DEF S!Increasing
  <2>1. CASE i \in 1..a /\ j \in 1..a
    <3>1. q[i] < q[j]
      BY <1>3, <1>9, <2>1 DEF S!Increasing
    <3> QED
      BY <1>4, <2>1, <3>1
  <2>2. ASSUME NEW k \in 1..b, NEW l \in 1..b, i = a + k, j = a + l PROVE s[i] < s[j]
    <3>1. k < l
      BY <2>2
    <3>2. r[k] < r[l]
      BY <1>3, <1>9, <3>1 DEF S!Increasing
    <3> QED
      BY <1>5, <2>2, <3>2
  <2>3. ASSUME i \in 1..a, NEW l \in 1..b, j = a + l PROVE s[i] < s[j]
    <3>1. q[i] \in Range(q) /\ r[l] \in Range(r)
      BY <1>3, <2>3 DEF Range
    <3> QED
      BY <1>4, <1>5, <1>9, <2>3, <3>1
  <2>4. ~(i \notin 1..a /\ j \in 1..a)
    OBVIOUS
  <2> QED
    BY <1>7, <2>1, <2>2, <2>3, <2>4
<1> QED
  BY <1>1, <1>8, <1>9

LEMMA AppendRange ==
  ASSUME NEW R, NEW q \in Seq(R), NEW e \in R
  PROVE  Range(Append(q, e)) = Range(q) \cup {e}
<1>1. Range(<< e >>) = {e} /\ << e >> \in Seq(R)
  BY DEF Range
<1>2. Range(q \o << e >>) = Range(q) \cup Range(<< e >>)
  BY <1>1, RangeConcatenation
<1> QED
  BY <1>1, <1>2, AppendIsConcat

\* A queue that loses its head, or all but its first elements.
LEMMA TailIncreases ==
  ASSUME NEW q \in Seq(Nat), q # << >>, S!Increasing(q)
  PROVE  /\ S!Increasing(Tail(q))
         /\ Range(q) = Range(Tail(q)) \cup {Head(q)}
<1>1. << Head(q) >> \o Tail(q) = q /\ << Head(q) >> \in Seq(Nat) /\ Tail(q) \in Seq(Nat)
  BY HeadTail
<1>2. Range(<< Head(q) >>) = {Head(q)}
  BY DEF Range
<1>3. Range(<< Head(q) >> \o Tail(q)) = Range(<< Head(q) >>) \cup Range(Tail(q))
  BY <1>1, RangeConcatenation
<1> QED
  BY <1>1, <1>2, <1>3, ConcatIncreases

LEMMA PrefixIncreases ==
  ASSUME NEW R \in SUBSET Nat, NEW q \in Seq(R), S!Increasing(q), NEW k \in 0..Len(q)
  PROVE  /\ SubSeq(q, 1, k) \in Seq(R)
         /\ S!Increasing(SubSeq(q, 1, k))
         /\ Range(SubSeq(q, 1, k)) = Range(q) \ {q[i] : i \in k + 1..Len(q)}
<1>1. PICK n \in Nat : n = Len(q)
  OBVIOUS
<1>2. k \in 0..n /\ DOMAIN q = 1..n /\ \A i \in 1..n : q[i] \in R
  BY <1>1
<1>3. PICK t : t = SubSeq(q, 1, k)
  OBVIOUS
<1>4. \A i \in 1..k : i \in 1..n /\ q[i] \in R
  BY <1>2
<1>5. t \in Seq(R) /\ Len(t) = k
  BY <1>2, <1>3, <1>4, SubSeqProperties
<1>6. DOMAIN t = 1..k
  BY <1>5
<1>7. \A i \in 1..k : t[i] = q[i]
  BY <1>2, <1>3
<1>8. S!Increasing(t)
  BY <1>2, <1>4, <1>6, <1>7 DEF S!Increasing
<1>9. ASSUME NEW m PROVE m \in Range(t) <=> m \in Range(q) \ {q[i] : i \in k + 1..n}
  <2>1. m \in Range(t) <=> \E i \in 1..k : m = q[i]
    BY <1>6, <1>7 DEF Range
  <2>2. m \in Range(q) <=> \E i \in 1..n : m = q[i]
    BY <1>2 DEF Range
  <2>3. \A i \in 1..k, l \in k + 1..n : q[i] # q[l]
    <3> SUFFICES ASSUME NEW i \in 1..k, NEW l \in k + 1..n PROVE q[i] # q[l]
      OBVIOUS
    <3>1. i \in 1..n /\ l \in 1..n /\ i < l
      BY <1>2
    <3>2. q[i] < q[l] /\ q[i] \in Nat /\ q[l] \in Nat
      BY <1>2, <3>1 DEF S!Increasing
    <3> QED
      BY <3>2
  <2>4. \A i \in 1..n : i \in 1..k \/ i \in k + 1..n
    BY <1>2
  <2> QED
    BY <1>4, <2>1, <2>2, <2>3, <2>4
<1> QED
  BY <1>1, <1>3, <1>5, <1>8, <1>9

-----------------------------------------------------------------------------
(* The stream's goroutine, the channel and the main loop's end of it *)

\* Nothing is in the goroutine's hand when it receives.
StreamInv ==
  /\ S!TypeOK
  /\ S!NothingLostOrReordered
  /\ pc \in {"connect", "recv"} => hand = << >>

\* The last event that Tetragon has emitted, and all before it.
Events == 1..Len(emitted)

LEMMA QueueTypes ==
  ASSUME S!TypeOK
  PROVE  /\ Len(emitted) \in Nat /\ Events \subseteq Nat
         /\ \A q \in {wire, hand, channel, current, handled} : q \in Seq(Events) /\ q \in Seq(Nat)
         /\ S!Taken \in Seq(Events) /\ S!Taken \in Seq(Nat)
<1>1. Len(emitted) \in Nat /\ Events \subseteq Nat
  BY DEF S!TypeOK, Events
<1>2. \A q \in {wire, hand, channel, current, handled} : q \in Seq(Events)
  BY DEF S!TypeOK, Events
<1>3. S!Taken \in Seq(Events)
  BY <1>2 DEF S!Taken
<1> QED
  BY <1>1, <1>2, <1>3, SeqMonotonic

Connect(em, n) == em[n] \in {"tcp_connect", "tcp_v4_connect"}

\* What NothingLostOrReordered says of the events taken, those on the wire, all
\* that were emitted and those that were missed.
InOrder(t, w, em, ms) ==
  /\ S!Increasing(t) /\ S!Increasing(w)
  /\ \A m \in Range(t), n \in Range(w) : m < n
  /\ Range(t) \cup {n \in Range(w) : Connect(em, n)} =
       {n \in 1..Len(em) : Connect(em, n) /\ n \notin ms}

LEMMA OrderHolds ==
  ASSUME S!TypeOK, S!NothingLostOrReordered
  PROVE  InOrder(S!Taken, wire, emitted, missed)
  BY QueueTypes, ConcatIncreases, SameRange
     DEF S!NothingLostOrReordered, InOrder, S!Parsed, Connect

LEMMA OrderHoldsNext ==
  ASSUME S!TypeOK', InOrder(S!Taken', wire', emitted', missed')
  PROVE  S!NothingLostOrReordered'
<1>1. Len(emitted') \in Nat /\ 1..Len(emitted') \subseteq Nat
  BY DEF S!TypeOK
<1>2. \A q \in {wire', hand', channel', current', handled'} : q \in Seq(1..Len(emitted'))
  BY DEF S!TypeOK
<1>3. S!Taken' \in Seq(1..Len(emitted')) /\ wire' \in Seq(1..Len(emitted'))
  BY <1>2 DEF S!Taken
<1>4. S!Taken' \in Seq(Nat) /\ wire' \in Seq(Nat)
  BY <1>1, <1>3, SeqMonotonic
<1>5. S!Increasing(S!Taken' \o wire')
  BY <1>4, ConcatIncreases DEF InOrder
<1> QED
  BY <1>5, SameRange DEF S!NothingLostOrReordered, S!Increasing, InOrder, S!Parsed, Connect

\* A step that hands an event on, or none.
LEMMA TakenKept ==
  ASSUME StreamInv, S!TypeOK', S!Taken' = S!Taken, UNCHANGED <<wire, emitted, missed>>,
         pc' \in {"connect", "recv"} => hand' = << >>
  PROVE  StreamInv'
<1>1. InOrder(S!Taken', wire', emitted', missed')
  BY OrderHolds DEF StreamInv
<1> QED
  BY <1>1, OrderHoldsNext DEF StreamInv

LEMMA HandOverKeeps ==
  ASSUME StreamInv, S!Send \/ S!TakeEvent \/ S!FinishEvent
  PROVE  StreamInv'
<1>1. S!TypeOK /\ (pc \in {"connect", "recv"} => hand = << >>)
  BY DEF StreamInv
<1>2. /\ handled \in Seq(Events) /\ current \in Seq(Events)
      /\ channel \in Seq(Events) /\ hand \in Seq(Events)
  BY <1>1, QueueTypes
<1>3. CASE S!Send
  <2>1. /\ channel' = channel \o hand /\ hand' = << >> /\ pc' = "recv" /\ Len(channel) < Capacity
        /\ UNCHANGED <<emitted, link, wire, missed, backoff, current, handled, cancelled, breaks>>
    BY <1>3 DEF S!Send, S!loopVars
  <2>2. S!Taken' = S!Taken
    <3>1. S!Taken' = (handled \o current) \o (channel \o hand)
      BY <1>2, <2>1 DEF S!Taken
    <3>2. handled \o current \in Seq(Events)
      BY <1>2
    <3>3. ((handled \o current) \o channel) \o hand = (handled \o current) \o (channel \o hand)
      BY <1>2, <3>2, Regroup
    <3> QED
      BY <3>1, <3>3 DEF S!Taken
  <2>3. channel' \in Seq(Events) /\ Len(channel') <= Capacity /\ hand' \in Seq(Events) /\ Len(hand') = 0
    <3>1. Len(channel \o hand) = Len(channel) + Len(hand) /\ channel \o hand \in Seq(Events)
      BY <1>2
    <3>2. Len(hand) <= 1 /\ Len(channel) \in Nat /\ Len(hand) \in Nat /\ Capacity \in Nat
      BY <1>1, <1>2, BoundsAssumption DEF S!TypeOK
    <3> QED
      BY <2>1, <3>1, <3>2
  <2>4. S!TypeOK'
    BY <1>1, <2>1, <2>3 DEF S!TypeOK, Events
  <2> QED
    BY <2>1, <2>2, <2>4, TakenKept
<1>4. CASE S!TakeEvent
  <2>1. /\ current = << >> /\ channel # << >>
        /\ current' = << Head(channel) >> /\ channel' = Tail(channel)
        /\ UNCHANGED <<emitted, link, wire, missed, pc, backoff, hand, handled, cancelled, breaks>>
    BY <1>4 DEF S!TakeEvent, S!readerVars
  <2>2. /\ << Head(channel) >> \in Seq(Events) /\ Tail(channel) \in Seq(Events)
        /\ << Head(channel) >> \o Tail(channel) = channel /\ Head(channel) \in Events
    BY <1>2, <2>1, HeadTail
  <2>3. S!Taken' = S!Taken
    <3>1. S!Taken' = ((handled \o << Head(channel) >>) \o Tail(channel)) \o hand
      BY <2>1 DEF S!Taken
    <3>2. (handled \o << Head(channel) >>) \o Tail(channel) = handled \o channel
      <4>1. (handled \o << Head(channel) >>) \o Tail(channel) =
              handled \o (<< Head(channel) >> \o Tail(channel))
        BY <1>2, <2>2, Regroup
      <4> QED
        BY <2>2, <4>1
    <3>3. handled \o current = handled
      BY <1>2, <2>1
    <3> QED
      BY <3>1, <3>2, <3>3 DEF S!Taken
  <2>4. Len(channel') <= Capacity /\ Len(current') = 1
    <3>1. Len(Tail(channel)) = Len(channel) - 1 /\ Len(channel) \in Nat /\ Len(channel) <= Capacity
      BY <1>1, <1>2, <2>1, HeadTailProperties DEF S!TypeOK
    <3> QED
      BY <2>1, <3>1, BoundsAssumption
  <2>5. S!TypeOK'
    BY <1>1, <2>1, <2>2, <2>4 DEF S!TypeOK, Events
  <2> QED
    BY <1>1, <2>1, <2>3, <2>5, TakenKept
<1>5. CASE S!FinishEvent
  <2>1. /\ handled' = handled \o current /\ current' = << >>
        /\ UNCHANGED <<emitted, link, wire, missed, pc, backoff, hand, channel, cancelled, breaks>>
    BY <1>5 DEF S!FinishEvent, S!readerVars
  <2>2. handled \o current \in Seq(Events) /\ (handled \o current) \o << >> = handled \o current
    BY <1>2
  <2>3. S!Taken' = S!Taken
    BY <2>1, <2>2 DEF S!Taken
  <2>4. S!TypeOK'
    BY <1>1, <2>1, <2>2 DEF S!TypeOK, Events
  <2> QED
    BY <1>1, <2>1, <2>3, <2>4, TakenKept
<1> QED
  BY <1>3, <1>4, <1>5

\* Steps of the goroutine and of the process that move no event.
LEMMA QuietKeeps ==
  ASSUME StreamInv,
         S!Subscribe \/ S!SubscribeFails \/ S!Disconnect \/ S!ReturnWhenDone \/ S!Exit
  PROVE  StreamInv'
<1>1. S!TypeOK /\ (pc \in {"connect", "recv"} => hand = << >>)
  BY DEF StreamInv
<1>2. /\ UNCHANGED <<emitted, wire, missed, hand, channel, current, handled, cancelled>>
      /\ pc' \in {"connect", "recv"} => pc \in {"connect", "recv"}
      /\ pc' \in {"connect", "recv", "returned", "exited"} /\ link' \in BOOLEAN
  BY <1>1 DEF S!Subscribe, S!SubscribeFails, S!Disconnect, S!ReturnWhenDone, S!Exit, S!loopVars,
              S!TypeOK
<1>3. backoff' \in 1..MaxBackoff /\ breaks' \in 0..MaxBreaks
  <2>1. backoff \in 1..MaxBackoff /\ breaks \in 0..MaxBreaks /\ MaxBackoff \in Nat \ {0} /\ MaxBreaks \in Nat
    BY <1>1, BoundsAssumption DEF S!TypeOK
  <2>2. CASE S!SubscribeFails
    BY <2>1, <2>2 DEF S!SubscribeFails
  <2>3. CASE S!Subscribe
    BY <2>1, <2>3 DEF S!Subscribe
  <2>4. CASE S!Disconnect \/ S!ReturnWhenDone \/ S!Exit
    BY <2>1, <2>4 DEF S!Disconnect, S!ReturnWhenDone, S!Exit
  <2> QED
    BY <2>2, <2>3, <2>4
<1>4. S!TypeOK'
  BY <1>1, <1>2, <1>3 DEF S!TypeOK
<1>5. S!Taken' = S!Taken
  BY <1>2 DEF S!Taken
<1> QED
  BY <1>1, <1>2, <1>4, <1>5, TakenKept

LEMMA ReceiveKeeps ==
  ASSUME StreamInv, S!Receive
  PROVE  StreamInv'
<1>1. S!TypeOK /\ InOrder(S!Taken, wire, emitted, missed)
  BY OrderHolds DEF StreamInv
<1>2. /\ pc = "recv" /\ hand = << >> /\ wire # << >> /\ wire' = Tail(wire)
      /\ UNCHANGED <<emitted, link, missed, backoff, channel, current, handled, cancelled, breaks>>
  BY DEF S!Receive, StreamInv, S!loopVars
<1>3. PICK t, w, h : t = S!Taken /\ w = wire /\ h = Head(w)
  OBVIOUS
<1>4. /\ t \in Seq(Events) /\ w \in Seq(Events) /\ t \in Seq(Nat) /\ w \in Seq(Nat) /\ w # << >>
      /\ h \in Events /\ Tail(w) \in Seq(Events)
  BY <1>1, <1>2, <1>3, QueueTypes, HeadTail
<1>5. S!Increasing(Tail(w)) /\ Range(w) = Range(Tail(w)) \cup {h}
  BY <1>1, <1>3, <1>4, TailIncreases DEF InOrder
<1>6. /\ S!Increasing(t)
      /\ \A m \in Range(t), n \in Range(w) : m < n
      /\ Range(t) \cup {n \in Range(w) : Connect(emitted, n)} =
           {n \in Events : Connect(emitted, n) /\ n \notin missed}
  BY <1>1, <1>3 DEF InOrder, Events
<1>7. CASE S!Parsed(h)
  <2>1. pc' = "send" /\ hand' = << h >>
    BY <1>3, <1>7 DEF S!Receive
  <2>2. S!Taken' = t \o << h >>
    <3>1. handled \o current \o channel \in Seq(Events) /\ t = (handled \o current \o channel) \o << >>
      BY <1>1, <1>2, <1>3, QueueTypes DEF S!Taken
    <3>2. t = handled \o current \o channel
      BY <3>1
    <3> QED
      BY <1>2, <2>1, <3>2 DEF S!Taken
  <2>3. << h >> \in Seq(Events) /\ << h >> \in Seq(Nat) /\ Range(<< h >>) = {h}
    BY <1>4, QueueTypes, <1>1 DEF Range
  <2>4. Range(S!Taken') = Range(t) \cup {h}
    <3>1. t \in Seq(Events) /\ h \in Events
      BY <1>4
    <3>2. Append(t, h) = t \o << h >>
      BY ONLY <3>1
    <3>3. Range(Append(t, h)) = Range(t) \cup {h}
      BY ONLY <3>1, AppendRange
    <3> QED
      BY ONLY <2>2, <3>2, <3>3, Zenon
  <2>5. /\ S!Increasing(<< h >>) /\ S!Increasing(Tail(w))
        /\ \A n \in Range(Tail(w)) : h < n
    <3>1. << h >> \o Tail(w) = w /\ Tail(w) \in Seq(Nat)
      BY <1>3, <1>4, HeadTail
    <3>2. S!Increasing(<< h >> \o Tail(w))
      BY <1>1, <1>3, <3>1 DEF InOrder
    <3>3. \A m \in Range(<< h >>), n \in Range(Tail(w)) : m < n
      BY ONLY <2>3, <3>1, <3>2, ConcatIncreases
    <3> QED
      BY <1>5, <2>3, <3>2, <3>3, <3>1, ConcatIncreases
  <2>6. S!Increasing(S!Taken')
    BY <1>4, <1>5, <1>6, <2>2, <2>3, <2>5, ConcatIncreases
  <2>7. InOrder(S!Taken', wire', emitted', missed')
    <3>1. \A m \in Range(S!Taken'), n \in Range(Tail(w)) : m < n
      BY <1>5, <1>6, <2>4, <2>5
    <3>2. Range(S!Taken') \cup {n \in Range(Tail(w)) : Connect(emitted, n)} =
            {n \in Events : Connect(emitted, n) /\ n \notin missed}
      BY <1>3, <1>5, <1>6, <1>7, <2>4 DEF Connect, S!Parsed
    <3> QED
      BY <1>2, <1>3, <2>5, <2>6, <3>1, <3>2 DEF InOrder, Events
  <2>8. S!TypeOK'
    BY <1>1, <1>2, <1>3, <1>4, <2>1, <2>3 DEF S!TypeOK, Events
  <2> QED
    BY <2>1, <2>7, <2>8, OrderHoldsNext DEF StreamInv
<1>8. CASE ~S!Parsed(h)
  <2>1. UNCHANGED <<pc, hand>>
    BY <1>3, <1>8 DEF S!Receive
  <2>2. S!Taken' = t
    BY <1>2, <1>3, <2>1 DEF S!Taken
  <2>3. InOrder(S!Taken', wire', emitted', missed')
    <3>1. {n \in Range(Tail(w)) : Connect(emitted, n)} = {n \in Range(w) : Connect(emitted, n)}
      BY <1>5, <1>8 DEF Connect, S!Parsed
    <3> QED
      BY <1>2, <1>3, <1>5, <1>6, <2>2, <3>1 DEF InOrder, Events
  <2>4. S!TypeOK'
    BY <1>1, <1>2, <1>3, <1>4, <2>1 DEF S!TypeOK, Events
  <2> QED
    BY <1>2, <2>1, <2>3, <2>4, OrderHoldsNext DEF StreamInv
<1> QED
  BY <1>7, <1>8

\* The stream ends: of what is on the wire a prefix arrives, the rest is missed.
LEMMA CutKeeps ==
  ASSUME StreamInv, S!Break \/ S!Cancel
  PROVE  StreamInv'
<1>1. S!TypeOK /\ InOrder(S!Taken, wire, emitted, missed)
      /\ (pc \in {"connect", "recv"} => hand = << >>)
  BY OrderHolds DEF StreamInv
<1>2. /\ S!Cut
      /\ UNCHANGED <<emitted, pc, backoff, hand, channel, current, handled>>
      /\ cancelled' \in BOOLEAN /\ breaks' \in 0..MaxBreaks
  <2>1. breaks \in 0..MaxBreaks /\ MaxBreaks \in Nat /\ cancelled \in BOOLEAN
    BY <1>1, BoundsAssumption DEF S!TypeOK
  <2>2. CASE S!Break
    BY <2>1, <2>2 DEF S!Break, S!readerVars, S!loopVars
  <2>3. CASE S!Cancel
    BY <2>1, <2>3 DEF S!Cancel, S!readerVars, S!loopVars
  <2> QED
    BY <2>2, <2>3
<1>3. PICK t, w : t = S!Taken /\ w = wire
  OBVIOUS
<1>4. PICK k \in 0..Len(w) :
        /\ link' = FALSE /\ wire' = SubSeq(w, 1, k)
        /\ missed' = missed \cup {w[i] : i \in k + 1..Len(w)}
  BY <1>2, <1>3 DEF S!Cut
<1>5. t \in Seq(Events) /\ w \in Seq(Events) /\ Events \in SUBSET Nat
  BY <1>1, <1>3, QueueTypes
<1>6. PICK rest : rest = {w[i] : i \in k + 1..Len(w)}
  OBVIOUS
<1>7. rest \subseteq Range(w) /\ rest \subseteq Events
  <2>1. \A i \in k + 1..Len(w) : i \in 1..Len(w)
    BY <1>5
  <2>2. \A i \in 1..Len(w) : w[i] \in Events /\ i \in DOMAIN w
    BY <1>5
  <2> QED
    BY <1>6, <2>1, <2>2 DEF Range
<1>8. /\ S!Increasing(t) /\ S!Increasing(w)
      /\ \A m \in Range(t), n \in Range(w) : m < n
      /\ Range(t) \cup {n \in Range(w) : Connect(emitted, n)} =
           {n \in Events : Connect(emitted, n) /\ n \notin missed}
  BY <1>1, <1>3 DEF InOrder, Events
<1>9. wire' \in Seq(Events) /\ S!Increasing(wire') /\ Range(wire') = Range(w) \ rest
  BY <1>4, <1>5, <1>6, <1>8, PrefixIncreases
<1>10. S!Taken' = t
  BY <1>2, <1>3 DEF S!Taken
<1>11. rest \cap Range(t) = {}
  <2> SUFFICES ASSUME NEW m \in rest, m \in Range(t) PROVE FALSE
    OBVIOUS
  <2>1. m < m /\ m \in Nat
    BY <1>5, <1>7, <1>8
  <2> QED
    BY <2>1
<1>12. Range(t) \cup {n \in Range(wire') : Connect(emitted, n)} =
         {n \in Events : Connect(emitted, n) /\ n \notin missed'}
  BY <1>4, <1>6, <1>8, <1>9, <1>11
<1>13. InOrder(S!Taken', wire', emitted', missed')
  BY <1>2, <1>8, <1>9, <1>10, <1>12 DEF InOrder, Events
<1>14. S!TypeOK'
  BY <1>1, <1>2, <1>4, <1>6, <1>7, <1>9 DEF S!TypeOK, Events
<1> QED
  BY <1>1, <1>2, <1>13, <1>14, OrderHoldsNext DEF StreamInv

\* Tetragon emits an event: it goes on the wire behind the others, or is missed.
LEMMA EmitKeeps ==
  ASSUME StreamInv, NEW kind \in Kinds, S!Emit(kind)
  PROVE  StreamInv'
<1>1. S!TypeOK /\ InOrder(S!Taken, wire, emitted, missed)
      /\ (pc \in {"connect", "recv"} => hand = << >>)
  BY OrderHolds DEF StreamInv
<1>2. Len(emitted) \in Nat /\ Events \subseteq Nat
  BY <1>1, QueueTypes
<1>3. PICK t, w, l, e : t = S!Taken /\ w = wire /\ l = Len(emitted) /\ e = Len(emitted) + 1
  OBVIOUS
<1>4. /\ emitted' = Append(emitted, kind)
      /\ \/ wire' = Append(w, e) /\ missed' = missed
         \/ wire' = w /\ missed' = missed \cup {e}
      /\ UNCHANGED <<link, pc, backoff, hand, channel, current, handled, cancelled, breaks>>
  BY <1>2, <1>3 DEF S!Emit, S!readerVars, S!loopVars
<1>5. /\ emitted' \in Seq(Kinds) /\ Len(emitted') = e /\ emitted'[e] = kind
      /\ \A n \in 1..l : emitted'[n] = emitted[n]
  BY <1>1, <1>2, <1>3, <1>4 DEF S!TypeOK
<1>6. /\ 1..e = (1..l) \cup {e} /\ e \in Nat /\ e \notin 1..l /\ e \in 1..e
      /\ \A m \in 1..l : m < e
  BY <1>2, <1>3
<1>7. /\ \A q \in {wire, hand, channel, current, handled} : q \in Seq(1..l)
      /\ t \in Seq(1..l) /\ t \in Seq(Nat) /\ w \in Seq(1..l) /\ w \in Seq(Nat)
  BY <1>1, <1>2, <1>3, QueueTypes DEF Events
<1>8. /\ \A q \in {wire, hand, channel, current, handled} : q \in Seq(1..e)
      /\ w \in Seq(1..e)
  BY <1>6, <1>7, SeqMonotonic
<1>9. Range(t) \subseteq 1..l /\ Range(w) \subseteq 1..l
  BY <1>7, RangeOfSeq
<1>10. S!TypeOK'
  <2>1. wire' \in Seq(1..e)
    <3>1. w \in Seq(1..e) /\ e \in 1..e
      BY <1>6, <1>8
    <3>2. Append(w, e) \in Seq(1..e)
      BY ONLY <3>1
    <3> QED
      BY <1>4, <3>1, <3>2
  <2>2. missed \subseteq 1..l
    BY <1>1, <1>2, <1>3 DEF S!TypeOK
  <2>3. missed' \subseteq 1..e
    BY <1>4, <1>6, <2>2
  <2> QED
    BY <1>1, <1>4, <1>5, <1>8, <2>1, <2>3 DEF S!TypeOK
<1>11. S!Taken' = t
  BY <1>2, <1>3, <1>4 DEF S!Taken
<1>12. /\ S!Increasing(t) /\ S!Increasing(w)
       /\ \A m \in Range(t), n \in Range(w) : m < n
       /\ Range(t) \cup {n \in Range(w) : Connect(emitted, n)} =
            {n \in 1..l : Connect(emitted, n) /\ n \notin missed}
  BY <1>1, <1>2, <1>3 DEF InOrder
<1>13. \A n \in 1..l : Connect(emitted', n) <=> Connect(emitted, n)
  BY <1>5 DEF Connect
<1>14. missed \subseteq 1..l
  BY <1>1, <1>2, <1>3 DEF S!TypeOK
<1>15. CASE wire' = Append(w, e) /\ missed' = missed
  <2>1. Range(wire') = Range(w) \cup {e}
    <3>1. w \in Seq(Nat) /\ e \in Nat
      BY <1>6, <1>7
    <3>2. Range(Append(w, e)) = Range(w) \cup {e}
      BY ONLY <3>1, AppendRange
    <3> QED
      BY ONLY <1>15, <3>2, Zenon
  <2>2. S!Increasing(wire')
    <3>1. << e >> \in Seq(Nat) /\ Range(<< e >>) = {e} /\ S!Increasing(<< e >>)
      BY <1>6 DEF Range, S!Increasing
    <3>2. \A m \in Range(w), n \in Range(<< e >>) : m < n
      BY <1>6, <1>9, <3>1
    <3>3. S!Increasing(w \o << e >>)
      BY <1>7, <1>12, <3>1, <3>2, ConcatIncreases
    <3>4. wire' = w \o << e >>
      BY ONLY <1>6, <1>7, <1>15
    <3> QED
      BY <3>3, <3>4
  <2>3. \A m \in Range(t), n \in Range(wire') : m < n
    BY <1>6, <1>9, <1>12, <2>1
  <2>4. Range(t) \cup {n \in Range(wire') : Connect(emitted', n)} =
          {n \in 1..e : Connect(emitted', n) /\ n \notin missed'}
    BY <1>6, <1>9, <1>12, <1>13, <1>14, <1>15, <2>1
  <2> QED
    BY <1>4, <1>5, <1>10, <1>11, <1>12, <1>1, <2>2, <2>3, <2>4, OrderHoldsNext DEF StreamInv, InOrder
<1>16. CASE wire' = w /\ missed' = missed \cup {e}
  <2>1. Range(t) \cup {n \in Range(wire') : Connect(emitted', n)} =
          {n \in 1..e : Connect(emitted', n) /\ n \notin missed'}
    BY <1>6, <1>9, <1>12, <1>13, <1>14, <1>16
  <2> QED
    BY <1>4, <1>5, <1>10, <1>11, <1>12, <1>1, <1>16, <2>1, OrderHoldsNext DEF StreamInv, InOrder
<1> QED
  BY <1>4, <1>15, <1>16

LEMMA StreamInit == S!Init => StreamInv
<1> SUFFICES ASSUME S!Init PROVE StreamInv
  OBVIOUS
<1>1. /\ emitted = << >> /\ link = FALSE /\ wire = << >> /\ missed = {}
      /\ pc = "connect" /\ backoff = 1 /\ hand = << >>
      /\ channel = << >> /\ current = << >> /\ handled = << >>
      /\ cancelled = FALSE /\ breaks = 0
  BY DEF S!Init
<1>2. S!TypeOK
  <2>1. /\ << >> \in Seq(Kinds) /\ Len(<< >>) = 0 /\ << >> \in Seq(1..0)
        /\ 1 \in 1..MaxBackoff /\ 0 \in 0..MaxBreaks /\ 0 <= Capacity
    BY BoundsAssumption
  <2>2. Len(emitted) = 0 /\ \A q \in {wire, hand, channel, current, handled} : q = << >>
    BY <1>1
  <2>3. \A q \in {wire, hand, channel, current, handled} : q \in Seq(1..Len(emitted))
    BY <2>1, <2>2
  <2>4. Len(channel) <= Capacity /\ Len(hand) <= 1 /\ Len(current) <= 1
    BY <1>1, <2>1
  <2>5. missed \subseteq 1..Len(emitted) /\ emitted \in Seq(Kinds)
    BY <1>1
  <2> QED
    BY <1>1, <2>1, <2>3, <2>4, <2>5 DEF S!TypeOK
<1>3. S!Taken = << >> /\ S!Taken \o wire = << >>
  BY <1>1 DEF S!Taken
<1>4. S!NothingLostOrReordered
  <2>1. S!Range(<< >>) = {}
    BY DEF S!Range
  <2> QED
    BY <1>1, <1>3, <2>1 DEF S!NothingLostOrReordered, S!Increasing
<1> QED
  BY <1>1, <1>2, <1>4 DEF StreamInv

LEMMA StreamKeeps ==
  ASSUME StreamInv, S!Stream
  PROVE  StreamInv'
  BY HandOverKeeps, QuietKeeps, ReceiveKeeps DEF S!Stream

LEMMA AroundKeeps ==
  ASSUME StreamInv, Around
  PROVE  StreamInv'
  BY EmitKeeps, CutKeeps, QuietKeeps DEF Around

\* What the other goroutines do to the stream: nothing.
LEMMA StreamUnchanged ==
  ASSUME StreamInv, UNCHANGED streamVars
  PROVE  StreamInv'
<1>1. S!TypeOK'
  BY DEF streamVars, StreamInv, S!TypeOK
<1>2. S!Taken' = S!Taken
  BY DEF streamVars, S!Taken
<1> QED
  BY <1>1, <1>2, TakenKept DEF streamVars, StreamInv

LEMMA StreamStep == StreamInv /\ [Next]_vars => StreamInv'
<1> SUFFICES ASSUME StreamInv, [Next]_vars PROVE StreamInv'
  OBVIOUS
<1>1. CASE Around
  BY <1>1, AroundKeeps
<1>2. CASE Stream
  BY <1>2, StreamKeeps DEF Stream
<1>3. CASE GetInformer \/ GetInformerFails \/ \E n \in Names : AddPolicy(n)
  BY <1>3, StreamUnchanged DEF GetInformer, GetInformerFails, AddPolicy
<1>4. CASE Take \/ Finish
  BY <1>4, HandOverKeeps DEF Take, Finish
<1>5. CASE JudgeEvent \/ Announce \/ ReportViolator
  BY <1>5, StreamUnchanged DEF JudgeEvent, Announce, ReportViolator
<1>6. CASE UNCHANGED vars
  BY <1>6, StreamUnchanged DEF vars
<1> QED
  BY <1>1, <1>2, <1>3, <1>4, <1>5, <1>6 DEF Next, MainLoop

LEMMA StreamInvariant == Spec => []StreamInv
<1>1. Init => StreamInv
  BY StreamInit DEF Init
<1> QED
  BY <1>1, StreamStep, PTL DEF Spec

\* However the goroutines interleave, whatever the capacity of the channel and
\* wherever the stream breaks: the connections of pods reach the main loop in the
\* order in which Tetragon saw them, each once, and only breaks cost any.
THEOREM StreamInOrder == Spec => []NothingLostOrReordered
<1>1. StreamInv => NothingLostOrReordered
  BY DEF StreamInv, NothingLostOrReordered
<1> QED
  BY <1>1, StreamInvariant, PTL

-----------------------------------------------------------------------------
(* The actions up to the first that blocks *)

LEMMA LeastElement ==
  ASSUME NEW Q, Q \subseteq Nat, Q # {}
  PROVE  \E j \in Q : \A k \in Q : j <= k
<1>1. PICK j \in Q : \A k \in Q : ~(<<k, j>> \in OpToRel(<, Nat))
  BY NatLessThanWellFounded, WFMin
<1>2. \A k \in Q : ~(k < j)
  BY <1>1 DEF OpToRel
<1> QED
  BY <1>2

BlockingIn(actions) == {i \in DOMAIN actions : Blocking(actions[i])}

LEMMA FirstBlock ==
  ASSUME NEW actions \in Seq(Actions), actions # << >>
  PROVE  /\ UpToBlock(actions) \in Seq(Actions)
         /\ \A i \in DOMAIN UpToBlock(actions) : UpToBlock(actions)[i] = actions[i]
         /\ \A i \in DOMAIN actions :
              i \in DOMAIN UpToBlock(actions) <=> \A k \in BlockingIn(actions) : i <= k
<1> DEFINE Last(n) == /\ n = Len(actions) \/ Blocking(actions[n])
                      /\ \A i \in 1..n - 1 : ~Blocking(actions[i])
           first   == CHOOSE n \in 1..Len(actions) : Last(n)
<1>1. PICK l \in Nat \ {0} : l = Len(actions)
  OBVIOUS
<1>2. DOMAIN actions = 1..l /\ \A i \in 1..l : actions[i] \in Actions
  BY <1>1
<1>3. \E n \in 1..l : Last(n)
  <2> DEFINE Q == {n \in 1..l : n = l \/ Blocking(actions[n])}
  <2>1. Q \subseteq Nat /\ l \in Q
    OBVIOUS
  <2>2. PICK n \in Q : \A k \in Q : n <= k
    BY <2>1, LeastElement
  <2>3. n \in 1..l /\ (n = l \/ Blocking(actions[n]))
    OBVIOUS
  <2>4. \A i \in 1..n - 1 : ~Blocking(actions[i])
    <3> SUFFICES ASSUME NEW i \in 1..n - 1, Blocking(actions[i]) PROVE FALSE
      OBVIOUS
    <3>1. i \in 1..l /\ i < n
      BY <2>3
    <3>2. i \in Q
      BY <3>1
    <3> QED
      BY <2>2, <2>3, <3>1, <3>2
  <2> QED
    BY <1>1, <2>3, <2>4
<1>4. first \in 1..l /\ Last(first)
  <2> HIDE DEF Last
  <2> QED
    BY <1>1, <1>3
<1>5. UpToBlock(actions) = SubSeq(actions, 1, first)
  BY DEF UpToBlock
<1>6. PICK n \in 1..l : n = first /\ Last(n)
  BY <1>4
<1> HIDE DEF first
<1>7. PICK t : t = UpToBlock(actions)
  OBVIOUS
<1>8. \A i \in 1..n : i \in 1..l
  OBVIOUS
<1>9. t \in Seq(Actions) /\ Len(t) = n
  BY <1>2, <1>5, <1>6, <1>7, <1>8, SubSeqProperties
<1>10. DOMAIN t = 1..n /\ \A i \in 1..n : t[i] = actions[i]
  BY <1>1, <1>5, <1>6, <1>7, <1>9
<1>11. ASSUME NEW i \in 1..l PROVE i \in 1..n <=> \A k \in BlockingIn(actions) : i <= k
  <2>1. CASE i \in 1..n
    <3> SUFFICES ASSUME NEW k \in BlockingIn(actions) PROVE i <= k
      BY <2>1
    <3>1. k \in 1..l /\ Blocking(actions[k])
      BY <1>2 DEF BlockingIn
    <3>2. k \notin 1..n - 1
      BY <1>6, <3>1
    <3> QED
      BY <2>1, <3>1, <3>2
  <2>2. CASE i \notin 1..n
    <3>1. n < i /\ n # l
      BY <2>2
    <3>2. n \in BlockingIn(actions)
      BY <1>1, <1>2, <1>6, <3>1 DEF BlockingIn
    <3>3. ~(i <= n)
      BY <3>1
    <3> QED
      BY <2>2, <3>2, <3>3
  <2> QED
    BY <2>1, <2>2
<1> QED
  BY <1>2, <1>7, <1>9, <1>10, <1>11

-----------------------------------------------------------------------------
(* The main loop *)

\* The verdict asks for something to be done.
Asks == verdict.violated /\ verdict.actions # << >>

\* The policies known when the event was judged that forbid it, going by the
\* country the lookup gave.
Condemning == {n \in judgedBy : Violates(PolicyOf[n], connection.ns, Country)}

VerdictFollows ==
  step \in {"announce", "report", "finish"} =>
    /\ verdict.violated <=> Condemning # {}
    /\ verdict.violated => \E n \in Condemning : verdict.actions = PolicyOf[n].actions

\* What has been announced and reported, step by step.
TraceFollows ==
  /\ step \in {"waiting", "judge", "announce"} => announced = << >> /\ ~reported
  /\ step \in {"announce", "report"} => Asks
  /\ step = "report" =>
       announced = UpToBlock(verdict.actions) /\ BlockingIn(verdict.actions) # {} /\ ~reported
  /\ step = "finish" =>
       IF Asks THEN /\ announced = UpToBlock(verdict.actions)
                    /\ reported <=> BlockingIn(verdict.actions) # {}
               ELSE announced = << >> /\ ~reported

ProcessInv == StreamInv /\ TypeOK /\ VerdictFollows /\ TraceFollows

\* The verdict of one instant, from the policies known then.
LEMMA JudgedRight ==
  ASSUME TypeOK, JudgeEvent
  PROVE  VerdictFollows'
<1>1. /\ step = "judge" /\ step' \in {"announce", "finish"} /\ judgedBy' = known
      /\ verdict' \in J!Verdicts(matcher, Question) /\ connection' = connection
      /\ known \subseteq Names
  BY DEF JudgeEvent, TypeOK
<1> DEFINE violated == {n \in Names : matcher[n] # Absent
                                       /\ Violates(matcher[n], connection.ns, Country)}
<1>2. violated = {n \in known : Violates(PolicyOf[n], connection.ns, Country)}
  BY <1>1, PolicyOfAssumption, AbsentAssumption DEF matcher
<1>3. Country' = Country
  BY <1>1 DEF Country
<1>4. Condemning' = violated
  BY <1>1, <1>2, <1>3 DEF Condemning
<1>5. J!Verdicts(matcher, Question) =
        IF violated # {} THEN {J!Deny(n, matcher[n]) : n \in violated}
        ELSE IF \/ Question.country = NoCountry \/ Question.ns = NoNamespace
                \/ J!Matching(matcher, Question) = {}
             THEN {J!Permit(J!NoPolicy)}
        ELSE {J!Permit(J!Multiple)}
  <2>1. Question.ns = connection.ns /\ Question.country = Country
    BY DEF Question
  <2>2. \A n : J!Violates(matcher[n], Question.ns, Question.country) <=>
                 Violates(matcher[n], connection.ns, Country)
    BY <2>1 DEF J!Violates, Violates, J!Covers, Covers, J!Forbids, Forbids
  <2>3. {n \in Names : matcher[n] # Absent
                        /\ J!Violates(matcher[n], Question.ns, Question.country)} = violated
    BY <2>2
  <2> HIDE DEF violated
  <2> QED
    BY <2>3 DEF J!Verdicts
<1>6. CASE violated # {}
  <2>1. PICK n \in violated : verdict' = J!Deny(n, matcher[n])
    <3> HIDE DEF violated
    <3> QED
      BY <1>1, <1>5, <1>6
  <2>2. verdict'.violated /\ verdict'.actions = PolicyOf[n].actions
    BY <1>1, <1>2, <2>1 DEF J!Deny, matcher
  <2> HIDE DEF violated
  <2> QED
    BY <1>4, <1>6, <2>1, <2>2 DEF VerdictFollows
<1>7. CASE violated = {}
  <2> HIDE DEF violated
  <2>1. ~verdict'.violated
    BY <1>1, <1>5, <1>7 DEF J!Permit
  <2> QED
    BY <1>4, <1>7, <2>1 DEF VerdictFollows
<1> QED
  BY <1>6, <1>7

\* An actions list that has to be acted on is one of a policy.
LEMMA AskedActions ==
  ASSUME TypeOK, VerdictFollows, Asks, step \in {"announce", "report", "finish"}
  PROVE  verdict.actions \in Seq(Actions) /\ verdict.actions # << >>
<1>1. PICK n \in Condemning : verdict.actions = PolicyOf[n].actions
  BY DEF VerdictFollows, Asks
<1>2. PolicyOf[n] \in PolicySpec
  BY PolicyOfAssumption, SpecsAssumption DEF Condemning, TypeOK
<1> QED
  BY <1>1, <1>2 DEF PolicySpec, Asks

LEMMA ProcessInit == Init => ProcessInv
<1> SUFFICES ASSUME Init PROVE ProcessInv
  OBVIOUS
<1>1. StreamInv /\ current = << >>
  BY StreamInit DEF Init, S!Init
<1>2. << >> \in Seq(Actions)
  OBVIOUS
<1>3. TypeOK
  BY <1>1, <1>2 DEF Init, StreamInv, TypeOK
<1>4. VerdictFollows /\ TraceFollows
  BY DEF Init, VerdictFollows, TraceFollows
<1> QED
  BY <1>1, <1>3, <1>4 DEF ProcessInv

\* The variables of the main loop are the main loop's.
LEMMA OthersLeaveTheLoop ==
  ASSUME ProcessInv, StreamInv', UNCHANGED <<eventVars, current>>,
         informer' \in {"asking", "synced", "failed"}, known' \subseteq Names,
         known \subseteq known'
  PROVE  ProcessInv'
<1>1. TypeOK'
  BY DEF ProcessInv, TypeOK, StreamInv, eventVars
<1>2. VerdictFollows'
  BY DEF ProcessInv, VerdictFollows, Condemning, Country, eventVars
<1>3. TraceFollows'
  BY DEF ProcessInv, TraceFollows, Asks, eventVars
<1> QED
  BY <1>1, <1>2, <1>3 DEF ProcessInv

LEMMA ProcessStep == ProcessInv /\ [Next]_vars => ProcessInv'
<1> SUFFICES ASSUME ProcessInv, [Next]_vars PROVE ProcessInv'
  OBVIOUS
<1>1. StreamInv' /\ TypeOK /\ VerdictFollows /\ TraceFollows
  BY StreamStep DEF ProcessInv
<1>2. S!TypeOK' /\ known \subseteq Names /\ informer \in {"asking", "synced", "failed"}
  BY <1>1 DEF StreamInv, TypeOK
<1>3. CASE Around \/ Stream
  <2>1. UNCHANGED <<current, watchVars, eventVars>>
    BY <1>3 DEF Around, S!Emit, S!Break, S!Cancel, S!Exit, Stream, S!Stream, S!Subscribe,
                S!SubscribeFails, S!Receive, S!Send, S!Disconnect, S!ReturnWhenDone, S!loopVars
  <2> QED
    BY <1>1, <1>2, <2>1, OthersLeaveTheLoop DEF watchVars
<1>4. CASE GetInformer \/ GetInformerFails \/ \E n \in Names : AddPolicy(n)
  <2>1. UNCHANGED <<current, eventVars>>
    BY <1>4 DEF GetInformer, GetInformerFails, AddPolicy, streamVars
  <2>2. /\ known' \subseteq Names /\ known \subseteq known'
        /\ informer' \in {"asking", "synced", "failed"}
    BY <1>2, <1>4 DEF GetInformer, GetInformerFails, AddPolicy
  <2> QED
    BY <1>1, <2>1, <2>2, OthersLeaveTheLoop
<1>5. CASE Take
  <2>1. current' # << >>
    BY <1>5 DEF Take, S!TakeEvent
  <2>2. TypeOK'
    BY <1>1, <1>2, <1>5, <2>1 DEF Take, TypeOK, watchVars
  <2>3. VerdictFollows' /\ TraceFollows'
    BY <1>1, <1>5 DEF Take, VerdictFollows, TraceFollows
  <2> QED
    BY <1>1, <2>2, <2>3 DEF ProcessInv
<1>6. CASE JudgeEvent
  <2>1. VerdictFollows'
    BY <1>1, <1>6, JudgedRight
  <2>2. TypeOK'
    BY <1>1, <1>2, <1>6 DEF JudgeEvent, TypeOK, watchVars, streamVars
  <2>3. TraceFollows'
    BY <1>1, <1>6 DEF JudgeEvent, TraceFollows, Asks
  <2> QED
    BY <1>1, <2>1, <2>2, <2>3 DEF ProcessInv
<1>7. CASE Announce
  <2>1. /\ step = "announce" /\ Asks /\ ~reported
        /\ UNCHANGED <<streamVars, watchVars, connection, judgedBy, verdict, reported>>
        /\ announced' = UpToBlock(verdict.actions)
        /\ step' = IF BlockingIn(verdict.actions) # {} THEN "report" ELSE "finish"
    BY <1>1, <1>7 DEF Announce, TraceFollows, BlockingIn
  <2>2. announced' \in Seq(Actions)
    BY <1>1, <2>1, AskedActions, FirstBlock
  <2>3. TypeOK'
    BY <1>1, <1>2, <2>1, <2>2 DEF TypeOK, watchVars, streamVars
  <2>4. VerdictFollows'
    BY <1>1, <2>1 DEF VerdictFollows, Condemning, Country
  <2>5. TraceFollows'
    BY <2>1 DEF TraceFollows, Asks
  <2> QED
    BY <1>1, <2>3, <2>4, <2>5 DEF ProcessInv
<1>8. CASE ReportViolator
  <2>1. /\ step = "report" /\ step' = "finish" /\ reported' = TRUE
        /\ UNCHANGED <<streamVars, watchVars, connection, judgedBy, verdict, announced>>
    BY <1>8 DEF ReportViolator
  <2>2. TypeOK'
    BY <1>1, <1>2, <2>1 DEF TypeOK, watchVars, streamVars
  <2>3. VerdictFollows'
    BY <1>1, <2>1 DEF VerdictFollows, Condemning, Country
  <2>4. TraceFollows'
    BY <1>1, <2>1 DEF TraceFollows, Asks
  <2> QED
    BY <1>1, <2>2, <2>3, <2>4 DEF ProcessInv
<1>9. CASE Finish
  <2>1. current' = << >>
    BY <1>9 DEF Finish, S!FinishEvent
  <2>2. << >> \in Seq(Actions)
    OBVIOUS
  <2>3. TypeOK'
    BY <1>1, <1>2, <1>9, <2>1, <2>2 DEF Finish, TypeOK, watchVars
  <2>4. VerdictFollows' /\ TraceFollows'
    BY <1>9 DEF Finish, VerdictFollows, TraceFollows
  <2> QED
    BY <1>1, <2>3, <2>4 DEF ProcessInv
<1>10. CASE UNCHANGED vars
  BY <1>1, <1>2, <1>10, OthersLeaveTheLoop DEF vars, watchVars, streamVars
<1> QED
  BY <1>3, <1>4, <1>5, <1>6, <1>7, <1>8, <1>9, <1>10 DEF Next, MainLoop

LEMMA ProcessInvariant == Spec => []ProcessInv
  BY ProcessInit, ProcessStep, PTL DEF Spec

\* The queues, the informer's answers and the main loop's locals keep their types,
\* and the main loop has an event in hand exactly when it is not waiting for one.
THEOREM AgentProcessTypes == Spec => []TypeOK
<1>1. ProcessInv => TypeOK
  BY DEF ProcessInv
<1> QED
  BY <1>1, ProcessInvariant, PTL

-----------------------------------------------------------------------------
(* Only excused misses *)

\* The country a destination really lies in is what the database says, once it
\* says anything; the networks bound to be internal lie in none.
DatabaseIsRight ==
  \A dest \in Dests : Resolves(dest) =>
    TrueCountry[dest] = IF Internal(AddressOf[dest]) THEN NoCountry
                        ELSE IF IsoOf[dest] = NoIso THEN Unknown ELSE IsoOf[dest]

LEMMA LookupTells ==
  ASSUME DatabaseIsRight, connection \in Connections
  PROVE  Country = IF Resolves(connection.dest) THEN TrueCountry[connection.dest] ELSE NoCountry
<1>1. PICK dest \in Dests : dest = connection.dest
  BY ConnectionsAssumption
<1>2. CASE Resolves(dest)
  <2>1. AddressOf[dest] \in Address /\ AddressOf[dest] # Absent /\ IsoOf[dest] # Broken
    BY <1>2, AddressAssumption DEF Resolves
  <2>2. isPrivate(AddressOf[dest]) <=> Internal(AddressOf[dest])
    BY <2>1, PrivateRanges
  <2>3. LookupCountry(dest) = TrueCountry[dest]
    BY <1>2, <2>1, <2>2 DEF LookupCountry, DatabaseIsRight
  <2>4. LookupCountry(dest) # Failed
    BY <2>3, TrueCountryAssumption, IsoAssumption
  <2> QED
    BY <1>1, <1>2, <2>3, <2>4 DEF Country
<1>3. CASE ~Resolves(dest)
  <2>1. LookupCountry(dest) \in {Failed, NoCountry}
    BY <1>3 DEF Resolves, LookupCountry
  <2> QED
    BY <1>1, <1>3, <2>1 DEF Country
<1> QED
  BY <1>1, <1>2, <1>3

LEMMA FinishExcused ==
  ASSUME DatabaseIsRight, ProcessInv, Finish
  PROVE  Accounted
<1>1. /\ TypeOK /\ VerdictFollows /\ TraceFollows /\ step = "finish"
      /\ connection \in Connections /\ judgedBy \subseteq Names
  BY DEF ProcessInv, TypeOK, Finish
<1>2. Country = IF Resolves(connection.dest) THEN TrueCountry[connection.dest] ELSE NoCountry
  BY <1>1, LookupTells
<1>3. CASE Forbidding \cap judgedBy = {} \/ ~Resolves(connection.dest)
  <2>1. Condemning = {}
    BY <1>1, <1>2, <1>3 DEF Condemning, Forbidding, Violates
  <2>2. ~verdict.violated
    BY <1>1, <2>1 DEF VerdictFollows
  <2> QED
    BY <1>1, <1>3, <2>2 DEF TraceFollows, Asks, Accounted
<1>4. CASE ~(Forbidding \cap judgedBy = {} \/ ~Resolves(connection.dest))
  <2>1. Condemning = Forbidding \cap judgedBy
    BY <1>1, <1>2, <1>4 DEF Condemning, Forbidding
  <2>2. verdict.violated
    BY <1>1, <1>4, <2>1 DEF VerdictFollows
  <2>3. PICK n \in Forbidding \cap judgedBy : verdict.actions = PolicyOf[n].actions
    BY <1>1, <2>1, <2>2 DEF VerdictFollows
  <2>4. PICK actions : actions = PolicyOf[n].actions
    OBVIOUS
  <2>5. PolicyOf[n] \in PolicySpec
    BY <2>3, PolicyOfAssumption, SpecsAssumption DEF Forbidding
  <2>6. actions \in Seq(Actions)
    BY <2>4, <2>5 DEF PolicySpec
  <2>7. Blocks(PolicyOf[n]) <=> BlockingIn(actions) # {}
    BY <2>4 DEF Blocks, HasAction, BlockingIn, Blocking
  <2>8. /\ reported <=> BlockingIn(actions) # {}
        /\ \A i \in DOMAIN actions :
             i \in DOMAIN announced <=> \A k \in BlockingIn(actions) : i <= k
        /\ \A i \in DOMAIN announced : announced[i] = actions[i]
    <3>1. CASE actions = << >>
      <4>1. announced = << >> /\ ~reported
        BY <1>1, <2>3, <2>4, <3>1 DEF TraceFollows, Asks
      <4>2. DOMAIN actions = {} /\ DOMAIN announced = {}
        BY <3>1, <4>1
      <4> QED
        BY <4>1, <4>2 DEF BlockingIn
    <3>2. CASE actions # << >>
      <4>1. announced = UpToBlock(actions) /\ (reported <=> BlockingIn(actions) # {})
        BY <1>1, <2>2, <2>3, <2>4, <3>2 DEF TraceFollows, Asks
      <4> QED
        BY <2>6, <3>2, <4>1, FirstBlock
    <3> QED
      BY <3>1, <3>2
  <2>9. BlockingIn(actions) =
          {i \in DOMAIN PolicyOf[n].actions :
             PolicyOf[n].actions[i] \in {"block-kill", "block-noconn"}}
    BY <2>4 DEF BlockingIn, Blocking
  <2> QED
    BY <1>4, <2>3, <2>4, <2>7, <2>8, <2>9 DEF Accounted
<1> QED
  BY <1>3, <1>4

\* If the database is right about the addresses it knows, a forbidden connection
\* passes the main loop without a trace only because the policies that forbid it
\* were not known yet or the lookup failed; for every other the actions up to the
\* first that blocks are announced, and that one is reported.
THEOREM MissesAreExcused ==
  ASSUME DatabaseIsRight
  PROVE  Spec => OnlyExcusedMisses
<1>1. ProcessInv /\ [Next]_vars => [Finish => Accounted]_vars
  BY FinishExcused
<1> QED
  BY <1>1, ProcessInvariant, PTL DEF Spec, OnlyExcusedMisses

=============================================================================
