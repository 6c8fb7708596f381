----------------------------- MODULE EventStream -----------------------------
(***************************************************************************)
(* internal/k8s/tetragon-client.go and the channel to the main loop of     *)
(* cmd/agent/main.go: one goroutine subscribes to Tetragon's event stream, *)
(* keeps the connection events of pods and sends them on a buffered        *)
(* channel, waiting when it is full; the main loop handles them one by one.*)
(* The stream breaks and is subscribed to again; what Tetragon emits in    *)
(* between, or drops because the agent is slow to receive, is gone.        *)
(***************************************************************************)
EXTENDS Naturals, Sequences, Functions

CONSTANTS
  Kinds,       \* kinds of event that Tetragon emits; see Parsed for those kept
  Capacity,    \* the channel's buffer, not 0
  MaxBackoff,  \* seconds, not 0
  MaxEvents,   \* events that Tetragon emits
  MaxBreaks    \* failed subscriptions and broken streams

VARIABLES
  emitted,     \* the kinds of the events so far; an event is its position
  link,        \* Tetragon serves the subscription
  wire,        \* events sent by Tetragon and not yet received
  missed,      \* events that reached nobody
  pc,          \* the stream goroutine: "connect", "recv", "send" or "returned";
               \* "exited" once the process has
  backoff,     \* currentBackoff
  hand,        \* the event it is about to send, in a sequence of at most one
  channel,     \* eventsChan
  current,     \* the event the main loop handles, in a sequence of at most one
  handled,     \* those it has handled
  cancelled,   \* the context is done
  breaks       \* breaks so far

readerVars == <<pc, backoff, hand>>
loopVars   == <<current, handled>>
vars == <<emitted, link, wire, missed, readerVars, channel, loopVars, cancelled, breaks>>

Init ==
  /\ emitted = << >> /\ link = FALSE /\ wire = << >> /\ missed = {}
  /\ pc = "connect" /\ backoff = 1 /\ hand = << >>
  /\ channel = << >> /\ current = << >> /\ handled = << >>
  /\ cancelled = FALSE /\ breaks = 0

\* parseEvent: connects observed by a kprobe in the process of a pod.
Parsed(event) == emitted[event] \in {"tcp_connect", "tcp_v4_connect"}
-----------------------------------------------------------------------------
(* Tetragon *)

\* A server that cannot keep up with its reader drops events.
Emit(kind) ==
  LET event == Len(emitted) + 1
  IN  /\ Len(emitted) < MaxEvents
      /\ emitted' = Append(emitted, kind)
      /\ \/ link /\ wire' = Append(wire, event) /\ UNCHANGED missed
         \/ missed' = missed \cup {event} /\ UNCHANGED wire
      /\ UNCHANGED <<link, readerVars, channel, loopVars, cancelled, breaks>>

\* Of what is on the wire when the stream ends, a prefix still arrives.
Cut ==
  \E k \in 0..Len(wire) :
    /\ link' = FALSE
    /\ wire' = SubSeq(wire, 1, k)
    /\ missed' = missed \cup {wire[i] : i \in k + 1..Len(wire)}

Break ==
  /\ link
  /\ breaks < MaxBreaks
  /\ breaks' = breaks + 1
  /\ Cut
  /\ UNCHANGED <<emitted, readerVars, channel, loopVars, cancelled>>
-----------------------------------------------------------------------------
(* StreamTetragonEvents *)

Subscribe ==
  /\ pc = "connect"
  /\ ~cancelled
  /\ pc' = "recv"
  /\ link' = TRUE
  /\ backoff' = 1
  /\ UNCHANGED <<emitted, wire, missed, hand, channel, loopVars, cancelled, breaks>>

\* Faulty: the backoff is doubled without a limit.
SubscribeFailsUncapped ==
  /\ pc = "connect"
  /\ ~cancelled
  /\ breaks < MaxBreaks
  /\ breaks' = breaks + 1
  /\ backoff' = 2 * backoff
  /\ UNCHANGED <<emitted, link, wire, missed, pc, hand, channel, loopVars, cancelled>>

SubscribeFails ==
  /\ pc = "connect"
  /\ ~cancelled
  /\ breaks < MaxBreaks
  /\ breaks' = breaks + 1
  /\ backoff' = IF 2 * backoff < MaxBackoff THEN 2 * backoff ELSE MaxBackoff
  /\ UNCHANGED <<emitted, link, wire, missed, pc, hand, channel, loopVars, cancelled>>

Receive ==
  /\ pc = "recv"
  /\ wire # << >>
  /\ wire' = Tail(wire)
  /\ IF Parsed(Head(wire)) THEN pc' = "send" /\ hand' = << Head(wire) >>
                           ELSE UNCHANGED <<pc, hand>>
  /\ UNCHANGED <<emitted, link, missed, backoff, channel, loopVars, cancelled, breaks>>

\* Faulty: a full channel drops the event instead of blocking the sender.
SendOrDrop ==
  /\ pc = "send"
  /\ channel' = IF Len(channel) < Capacity THEN channel \o hand ELSE channel
  /\ hand' = << >>
  /\ pc' = "recv"
  /\ UNCHANGED <<emitted, link, wire, missed, backoff, loopVars, cancelled, breaks>>

\* The send blocks while the channel is full.
Send ==
  /\ pc = "send"
  /\ Len(channel) < Capacity
  /\ channel' = channel \o hand
  /\ hand' = << >>
  /\ pc' = "recv"
  /\ UNCHANGED <<emitted, link, wire, missed, backoff, loopVars, cancelled, breaks>>

\* Faulty: the goroutine ends with its first stream.
DisconnectForGood ==
  /\ pc = "recv"
  /\ ~link /\ wire = << >>
  /\ pc' = "returned"
  /\ UNCHANGED <<emitted, link, wire, missed, backoff, hand, channel, loopVars, cancelled,
                 breaks>>

\* Recv returns an error once the stream has ended and its rest is received.
Disconnect ==
  /\ pc = "recv"
  /\ ~link /\ wire = << >>
  /\ pc' = "connect"
  /\ UNCHANGED <<emitted, link, wire, missed, backoff, hand, channel, loopVars, cancelled,
                 breaks>>

\* The context is looked at only between two subscriptions.
ReturnWhenDone ==
  /\ pc = "connect"
  /\ cancelled
  /\ pc' = "returned"
  /\ UNCHANGED <<emitted, link, wire, missed, backoff, hand, channel, loopVars, cancelled,
                 breaks>>
-----------------------------------------------------------------------------
(* The main loop, and the shutdown handler *)

TakeEvent ==
  /\ pc # "exited"
  /\ current = << >>
  /\ channel # << >>
  /\ current' = << Head(channel) >>
  /\ channel' = Tail(channel)
  /\ UNCHANGED <<emitted, link, wire, missed, readerVars, handled, cancelled, breaks>>

FinishEvent ==
  /\ pc # "exited"
  /\ current # << >>
  /\ handled' = handled \o current
  /\ current' = << >>
  /\ UNCHANGED <<emitted, link, wire, missed, readerVars, channel, cancelled, breaks>>

\* A signal cancels the context, and with it the stream.
Cancel ==
  /\ ~cancelled
  /\ cancelled' = TRUE
  /\ Cut
  /\ UNCHANGED <<emitted, readerVars, channel, loopVars, breaks>>

\* A second later the process exits, whatever its goroutines are doing.
Exit ==
  /\ cancelled
  /\ pc # "exited"
  /\ pc' = "exited"
  /\ UNCHANGED <<emitted, link, wire, missed, backoff, hand, channel, loopVars, cancelled,
                 breaks>>

Stream ==
  Subscribe \/ SubscribeFails \/ Receive \/ Send \/ Disconnect \/ ReturnWhenDone

MainLoop == TakeEvent \/ FinishEvent

Next ==
  \/ \E kind \in Kinds : Emit(kind)
  \/ Break
  \/ Stream
  \/ MainLoop
  \/ Cancel
  \/ Exit

Spec == Init /\ [][Next]_vars
-----------------------------------------------------------------------------
TypeOK ==
  /\ emitted \in Seq(Kinds)
  /\ link \in BOOLEAN /\ cancelled \in BOOLEAN
  /\ \A q \in {wire, hand, channel, current, handled} : q \in Seq(1..Len(emitted))
  /\ missed \subseteq 1..Len(emitted)
  /\ pc \in {"connect", "recv", "send", "returned", "exited"}
  /\ backoff \in 1..MaxBackoff
  /\ Len(channel) <= Capacity /\ Len(hand) <= 1 /\ Len(current) <= 1
  /\ breaks \in 0..MaxBreaks

\* Oldest first: what the goroutine has taken off the wire and kept.
Taken == handled \o current \o channel \o hand

Increasing(q) == \A i, j \in DOMAIN q : i < j => q[i] < q[j]

\* Of the connections of pods none is lost, repeated or overtaken on its way to
\* the main loop, except those that a broken stream or its absence cost.
NothingLostOrReordered ==
  /\ Increasing(Taken \o wire)
  /\ Range(Taken) \cup {n \in Range(wire) : Parsed(n)} =
       {n \in 1..Len(emitted) : Parsed(n) /\ n \notin missed}

\* A connection that Tetragon has sent is handled, however slow the main loop
\* and full the channel, unless its stream breaks or the agent shuts down first.
SentIsHandled ==
  \A n \in 1..MaxEvents :
    (\E i \in DOMAIN wire : wire[i] = n) /\ Parsed(n) ~>
      n \in missed \/ cancelled \/ \E i \in DOMAIN handled : handled[i] = n

\* The subscription is renewed after every break, until the agent shuts down.
Resubscribes == []<>(link \/ cancelled)
=============================================================================
