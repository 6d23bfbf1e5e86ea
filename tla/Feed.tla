--------------------------------- MODULE Feed ---------------------------------
(***************************************************************************)
(* The dashboard's event streams (handleEvents in control/sse.go) over the   *)
(* broker (events/broker.go): a handler counts itself in, subscribes, and     *)
(* writes the events of its agent to a client that may read slowly or leave;  *)
(* Publish never waits for it.                                             *)
(***************************************************************************)
EXTENDS Naturals, Sequences, FiniteSets

CONSTANTS
  Clients,
  Agents, AllAgents,             \* what a client asks for: one agent's events, or all
  maxSSEClients, subscriberBuffer,
  MaxEvents, MaxVisits           \* bounds

ASSUME FeedAssumption ==
  /\ AllAgents \notin Agents
  /\ maxSSEClients \in Nat \ {0} /\ subscriberBuffer \in Nat \ {0}
  /\ MaxEvents \in Nat /\ MaxVisits \in Nat

Event == [number : 1 .. MaxEvents, agent : Agents]

Heartbeat == [number |-> 0, agent |-> AllAgents]

VARIABLES
  published,    \* the events so far
  subs, chan,   \* the broker's subscribers and their queues
  sseClients,   \* the server's counter
  handlerAt, agent,    \* where a client's handler is, and what it asks for
  frame,        \* the frame it writes
  sent,         \* the events its client got
  since,        \* how many events there were when it subscribed
  missed,       \* those that found its queue full
  visits

broker   == <<published, subs, chan>>
handler  == <<handlerAt, agent, frame>>
receipts == <<sent, since, missed, visits>>
feedVars == <<broker, sseClients, handler, receipts>>

FeedTypeOK ==
  /\ published \in Seq(Event) /\ Len(published) <= MaxEvents
  /\ subs \subseteq Clients /\ chan \in [Clients -> Seq(Event)]
  /\ \A c \in Clients : Len(chan[c]) <= subscriberBuffer
  /\ sseClients \in Nat
  /\ handlerAt \in [Clients -> {"out", "reject", "admit", "stream", "write", "cancel", "leave"}]
  /\ agent \in [Clients -> Agents \cup {AllAgents}]
  /\ frame \in [Clients -> Event \cup {Heartbeat}]
  /\ sent \in [Clients -> Seq(Event)]
  /\ since \in [Clients -> 0 .. MaxEvents] /\ missed \in [Clients -> SUBSET Event]
  /\ visits \in 0 .. MaxVisits

FeedInit ==
  /\ published = <<>> /\ subs = {} /\ chan = [c \in Clients |-> <<>>]
  /\ sseClients = 0
  /\ handlerAt = [c \in Clients |-> "out"] /\ agent = [c \in Clients |-> AllAgents]
  /\ frame = [c \in Clients |-> Heartbeat]
  /\ sent = [c \in Clients |-> <<>>] /\ since = [c \in Clients |-> 0]
  /\ missed = [c \in Clients |-> {}] /\ visits = 0

-----------------------------------------------------------------------------
(* The broker.                                                               *)

HasFreeSlot(c) == Len(chan[c]) < subscriberBuffer

\* Publish: who has no free slot loses the event.
Publish(a) ==
  /\ Len(published) < MaxEvents
  /\ LET event == [number |-> Len(published) + 1, agent |-> a] IN
       /\ published' = Append(published, event)
       /\ chan' = [c \in Clients |->
            IF c \in subs /\ HasFreeSlot(c) THEN Append(chan[c], event) ELSE chan[c]]
       /\ missed' = [c \in Clients |->
            IF c \in subs /\ ~HasFreeSlot(c) THEN missed[c] \cup {event} ELSE missed[c]]
  /\ UNCHANGED <<subs, sseClients, handler, sent, since, visits>>

-----------------------------------------------------------------------------
(* A handler.                                                                *)

HandlerGoto(c, label) == handlerAt' = [handlerAt EXCEPT ![c] = label]

\* A client connects: Add(1) decides.
Connect(c, a) ==
  /\ handlerAt[c] = "out" /\ visits < MaxVisits /\ visits' = visits + 1
  /\ agent' = [agent EXCEPT ![c] = a] /\ sseClients' = sseClients + 1
  /\ HandlerGoto(c, IF sseClients + 1 > maxSSEClients THEN "reject" ELSE "admit")
  /\ UNCHANGED <<broker, frame, sent, since, missed>>

\* Mutant: the handler that is turned away stays counted.
CountedOutLeavers(c) == IF handlerAt[c] = "reject" THEN sseClients ELSE sseClients - 1

\* Add(-1).
CountedOut(c) == sseClients - 1

TurnAway(c) ==
  /\ handlerAt[c] = "reject" /\ HandlerGoto(c, "out") /\ sseClients' = CountedOut(c)
  /\ UNCHANGED <<broker, agent, frame, receipts>>

\* Subscribe: a queue of its own.
Subscribe(c) ==
  /\ handlerAt[c] = "admit" /\ HandlerGoto(c, "stream")
  /\ subs' = subs \cup {c} /\ chan' = [chan EXCEPT ![c] = <<>>]
  /\ sent' = [sent EXCEPT ![c] = <<>>] /\ since' = [since EXCEPT ![c] = Len(published)]
  /\ missed' = [missed EXCEPT ![c] = {}]
  /\ UNCHANGED <<published, sseClients, agent, frame, visits>>

IsAsked(c, event) == agent[c] \in {AllAgents, event.agent}

\* The select takes an event; another agent's is passed over.
Take(c) ==
  /\ handlerAt[c] = "stream" /\ chan[c] # <<>> /\ chan' = [chan EXCEPT ![c] = Tail(@)]
  /\ IF IsAsked(c, Head(chan[c]))
     THEN HandlerGoto(c, "write") /\ frame' = [frame EXCEPT ![c] = Head(chan[c])]
     ELSE UNCHANGED <<handlerAt, frame>>
  /\ UNCHANGED <<published, subs, sseClients, agent, receipts>>

\* Or the heartbeat.
Beat(c) ==
  /\ handlerAt[c] = "stream" /\ HandlerGoto(c, "write") /\ frame' = [frame EXCEPT ![c] = Heartbeat]
  /\ UNCHANGED <<broker, sseClients, agent, receipts>>

\* writeFrame, which a slow client holds up; it fails at its deadline or with the connection.
WriteFrame(c) ==
  /\ handlerAt[c] = "write"
  /\ \/ /\ HandlerGoto(c, "stream")
        /\ sent' = IF frame[c] = Heartbeat THEN sent ELSE [sent EXCEPT ![c] = Append(@, frame[c])]
     \/ HandlerGoto(c, "cancel") /\ UNCHANGED sent
  /\ UNCHANGED <<broker, sseClients, agent, frame, since, missed, visits>>

\* Or the request's context is done.
Disconnect(c) ==
  /\ handlerAt[c] = "stream" /\ HandlerGoto(c, "cancel")
  /\ UNCHANGED <<broker, sseClients, agent, frame, receipts>>

\* The deferred calls: cancel, then Add(-1).
Cancel(c) ==
  /\ handlerAt[c] = "cancel" /\ HandlerGoto(c, "leave") /\ subs' = subs \ {c}
  /\ UNCHANGED <<published, chan, sseClients, agent, frame, receipts>>

Leave(c) ==
  /\ handlerAt[c] = "leave" /\ HandlerGoto(c, "out") /\ sseClients' = CountedOut(c)
  /\ UNCHANGED <<broker, agent, frame, receipts>>

FeedNext ==
  \/ \E a \in Agents : Publish(a)
  \/ \E c \in Clients :
       \/ \E a \in Agents \cup {AllAgents} : Connect(c, a)
       \/ TurnAway(c) \/ Subscribe(c) \/ Take(c) \/ Beat(c) \/ WriteFrame(c)
       \/ Disconnect(c) \/ Cancel(c) \/ Leave(c)

FeedSpec == FeedInit /\ [][FeedNext]_feedVars

-----------------------------------------------------------------------------
(* Properties.                                                               *)

InHand(c) == IF handlerAt[c] = "write" /\ frame[c] # Heartbeat THEN <<frame[c]>> ELSE <<>>

\* What a client got, has in hand or has waiting, in the order it gets it.
Flow(c) == sent[c] \o InHand(c) \o chan[c]

\* The events it is to get: its agent's since it subscribed.
Due(c) ==
  {n \in since[c] + 1 .. Len(published) :
     IsAsked(c, published[n]) /\ published[n] \notin missed[c]}

\* A client has got, or has coming, its agent's events since it subscribed, each once and
\* in order, but for those that were published while its queue was full: a client that
\* writes slowly, comes back or is turned away costs nobody else an event (Publish,
\* handleEvents).
InOrder(c) ==
  LET flow == Flow(c) IN
    /\ \A k, m \in DOMAIN flow : k < m => flow[k].number < flow[m].number
    /\ \A k \in DOMAIN sent[c] : IsAsked(c, sent[c][k])
    /\ {e \in {flow[k] : k \in DOMAIN flow} : IsAsked(c, e)} = {published[n] : n \in Due(c)}

\* Whoever leaves, in whatever way, leaves no place counted, and no more clients are
\* served than there are places (handleEvents).
PlacesCounted ==
  /\ sseClients = Cardinality({c \in Clients : handlerAt[c] # "out"})
  /\ Cardinality({c \in Clients : handlerAt[c] \in {"admit", "stream", "write"}}) <= maxSSEClients

\* Both.
FeedInOrder ==
  /\ \A c \in Clients : handlerAt[c] \in {"stream", "write"} => InOrder(c)
  /\ PlacesCounted

=============================================================================
