----------------------------- MODULE HubBridge -----------------------------
(***************************************************************************)
(* The channel hub (hub.go) and the Redis bridge (redis.go) of one server, *)
(* driven by the reader goroutines of its sockets (socket.go).             *)
(*                                                                         *)
(* Hub.Add and Hub.Remove change the hub's map under hub.mu and call the   *)
(* bridge's hook only after the mutex is released; EnsureSubscribed and    *)
(* EnsureUnsubscribed change the bridge's map under bridge.mu and send the *)
(* Redis command only after that one is released.  So one subscribe is     *)
(* three separate steps here, and the goroutines of different sockets      *)
(* interleave between them.                                                *)
(*                                                                         *)
(* The PubSub connection belongs to go-redis and is modelled from how      *)
(* redis.go relies on it: it keeps its own channel set, records a channel  *)
(* even when the command fails, and replays the set on every reconnect.    *)
(***************************************************************************)
CONSTANTS Sockets,     \* names a connection may carry, reused once it is gone
          Channels,    \* SocketCluster channels, which are Redis channels too
          NoChannel    \* "no channel": what a reader outside an operation names

ASSUME NoChannelAssumption == NoChannel \notin Channels

VARIABLES
    subs,        \* subs[s]: Socket.subs, written by the socket's own reader
    hub,         \* hub[c]: Hub.subs, the sockets that a publish on c reaches
    reader,      \* reader[s]: the step the reader goroutine of s takes next
    leaving,     \* the sockets whose reader runs cleanup()
    todo,        \* todo[s]: the channels cleanup() has still to take off the hub
    subscribed,  \* redisBridge.subscribed
    recorded,    \* the channel set go-redis' PubSub keeps
    served,      \* the channels Redis delivers on the present connection
    linkUp,      \* the PubSub connection is established
    raced        \* history: the channels whose latest first subscriber joined
                 \* while a last-unsubscriber hook of the channel was running

vars == <<subs, hub, reader, leaving, todo, subscribed, recorded, served, linkUp, raced>>
bridgeVars == <<subscribed, recorded, served, linkUp>>

AddSteps    == {"hubAdd", "hookFirst", "sendSubscribe"}
RemoveSteps == {"hubRemove", "hookLast", "sendUnsubscribe"}
RestSteps   == {"gone", "idle", "cleanup"}

ReaderState == [at: AddSteps \cup RemoveSteps, ch: Channels]
                 \cup [at: RestSteps, ch: {NoChannel}]

Rest(step)  == [at |-> step, ch |-> NoChannel]
Step(at, c) == [at |-> at, ch |-> c]
At(s, at)   == reader[s].at = at

\* The readers inside a hook of channel c: between the unlock of hub.mu and the
\* return of Hub.Add (first) or of Hub.Remove (last).
ReadersAt(at, c) == {s \in Sockets : reader[s] = Step(at, c)}
FirstHooks(c)    == ReadersAt("hookFirst", c) \cup ReadersAt("sendSubscribe", c)
LastHooks(c)     == ReadersAt("hookLast", c) \cup ReadersAt("sendUnsubscribe", c)

\* Broken variant of AfterRemove: the reader keeps the channel it worked on.
AfterRemove_StaleChannel(s) ==
    Step(IF s \in leaving THEN "cleanup" ELSE "idle", reader[s].ch)

\* After Hub.Remove handleUnsubscribe answers and the read loop goes on, while
\* cleanup() takes the next channel of its list.
AfterRemove(s) == Rest(IF s \in leaving THEN "cleanup" ELSE "idle")
---------------------------------------------------------------------------
Init == /\ subs       = [s \in Sockets |-> {}]
        /\ hub        = [c \in Channels |-> {}]
        /\ reader     = [s \in Sockets |-> Rest("gone")]
        /\ leaving    = {}
        /\ todo       = [s \in Sockets |-> {}]
        /\ subscribed = {}
        /\ recorded   = {}
        /\ served     = {}
        /\ linkUp     = FALSE
        /\ raced      = {}

\* newSocket: a connection is accepted and its reader waits for frames.
Connect(s) ==
    /\ At(s, "gone")
    /\ reader' = [reader EXCEPT ![s] = Rest("idle")]
    /\ UNCHANGED <<subs, hub, leaving, todo, raced>> /\ UNCHANGED bridgeVars

\* handleSubscribe, an accepted request, up to its call of hub.Add.  A channel
\* the socket already holds is added once more.
Subscribe(s, c) ==
    /\ At(s, "idle")
    /\ subs' = [subs EXCEPT ![s] = @ \cup {c}]
    /\ reader' = [reader EXCEPT ![s] = Step("hubAdd", c)]
    /\ UNCHANGED <<hub, leaving, todo, raced>> /\ UNCHANGED bridgeVars

\* handleUnsubscribe of a channel the socket holds, up to its call of hub.Remove.
Unsubscribe(s, c) ==
    /\ At(s, "idle")
    /\ c \in subs[s]
    /\ subs' = [subs EXCEPT ![s] = @ \ {c}]
    /\ reader' = [reader EXCEPT ![s] = Step("hubRemove", c)]
    /\ UNCHANGED <<hub, leaving, todo, raced>> /\ UNCHANGED bridgeVars

\* The read loop ends; cleanup() copies the channels and empties Socket.subs.
Disconnect(s) ==
    /\ At(s, "idle")
    /\ leaving' = leaving \cup {s}
    /\ todo' = [todo EXCEPT ![s] = subs[s]]
    /\ subs' = [subs EXCEPT ![s] = {}]
    /\ reader' = [reader EXCEPT ![s] = Rest("cleanup")]
    /\ UNCHANGED <<hub, raced>> /\ UNCHANGED bridgeVars

\* cleanup() goes to the next channel of its list, in map order.
CleanupNext(s, c) ==
    /\ At(s, "cleanup")
    /\ c \in todo[s]
    /\ todo' = [todo EXCEPT ![s] = @ \ {c}]
    /\ reader' = [reader EXCEPT ![s] = Step("hubRemove", c)]
    /\ UNCHANGED <<subs, hub, leaving, raced>> /\ UNCHANGED bridgeVars

\* Broken variant of CleanupDone: the list is dropped after its first channel.
CleanupDone_FirstOnly(s) ==
    /\ At(s, "cleanup")
    /\ leaving' = leaving \ {s}
    /\ todo' = [todo EXCEPT ![s] = {}]
    /\ reader' = [reader EXCEPT ![s] = Rest("gone")]
    /\ UNCHANGED <<subs, hub, raced>> /\ UNCHANGED bridgeVars

CleanupDone(s) ==
    /\ At(s, "cleanup")
    /\ todo[s] = {}
    /\ leaving' = leaving \ {s}
    /\ reader' = [reader EXCEPT ![s] = Rest("gone")]
    /\ UNCHANGED <<subs, hub, todo, raced>> /\ UNCHANGED bridgeVars
---------------------------------------------------------------------------
\* Hub.Add under hub.mu: the first local subscriber goes on to the hook.
HubAdd(s, c) ==
    /\ reader[s] = Step("hubAdd", c)
    /\ hub' = [hub EXCEPT ![c] = @ \cup {s}]
    /\ IF hub[c] = {}
         THEN /\ reader' = [reader EXCEPT ![s] = Step("hookFirst", c)]
              /\ raced' = IF LastHooks(c) = {} THEN raced \ {c} ELSE raced \cup {c}
         ELSE /\ reader' = [reader EXCEPT ![s] = Rest("idle")]
              /\ UNCHANGED raced
    /\ UNCHANGED <<subs, leaving, todo>> /\ UNCHANGED bridgeVars

\* Broken variant of HubRemove: cleanup() drops the socket without the hook.
HubRemove_NoHookInCleanup(s, c) ==
    /\ reader[s] = Step("hubRemove", c)
    /\ hub' = [hub EXCEPT ![c] = @ \ {s}]
    /\ reader' = [reader EXCEPT ![s] =
                    IF hub[c] = {s} /\ s \notin leaving THEN Step("hookLast", c) ELSE AfterRemove(s)]
    /\ UNCHANGED <<subs, leaving, todo, raced>> /\ UNCHANGED bridgeVars

\* Hub.Remove under hub.mu: the last local subscriber goes on to the hook.
HubRemove(s, c) ==
    /\ reader[s] = Step("hubRemove", c)
    /\ hub' = [hub EXCEPT ![c] = @ \ {s}]
    /\ reader' = [reader EXCEPT ![s] =
                    IF hub[c] = {s} THEN Step("hookLast", c) ELSE AfterRemove(s)]
    /\ UNCHANGED <<subs, leaving, todo, raced>> /\ UNCHANGED bridgeVars

\* EnsureSubscribed under bridge.mu: a channel already in the map needs nothing.
MarkSubscribed(s, c) ==
    /\ reader[s] = Step("hookFirst", c)
    /\ subscribed' = subscribed \cup {c}
    /\ reader' = [reader EXCEPT ![s] =
                    IF c \in subscribed THEN Rest("idle") ELSE Step("sendSubscribe", c)]
    /\ UNCHANGED <<subs, hub, leaving, todo, recorded, served, linkUp, raced>>

\* Broken variant of SendSubscribe: a failed command is not recorded.
SendSubscribe_NotRecorded(s, c) ==
    /\ reader[s] = Step("sendSubscribe", c)
    /\ recorded' = IF linkUp THEN recorded \cup {c} ELSE recorded
    /\ served' = IF linkUp THEN served \cup {c} ELSE served
    /\ reader' = [reader EXCEPT ![s] = Rest("idle")]
    /\ UNCHANGED <<subs, hub, leaving, todo, subscribed, linkUp, raced>>

\* PubSub.Subscribe: recorded in any case, served when there is a connection.
SendSubscribe(s, c) ==
    /\ reader[s] = Step("sendSubscribe", c)
    /\ recorded' = recorded \cup {c}
    /\ served' = IF linkUp THEN served \cup {c} ELSE served
    /\ reader' = [reader EXCEPT ![s] = Rest("idle")]
    /\ UNCHANGED <<subs, hub, leaving, todo, subscribed, linkUp, raced>>

\* EnsureUnsubscribed under bridge.mu.
MarkUnsubscribed(s, c) ==
    /\ reader[s] = Step("hookLast", c)
    /\ subscribed' = subscribed \ {c}
    /\ reader' = [reader EXCEPT ![s] =
                    IF c \in subscribed THEN Step("sendUnsubscribe", c) ELSE AfterRemove(s)]
    /\ UNCHANGED <<subs, hub, leaving, todo, recorded, served, linkUp, raced>>

\* PubSub.Unsubscribe, always with the channel named.
SendUnsubscribe(s, c) ==
    /\ reader[s] = Step("sendUnsubscribe", c)
    /\ recorded' = recorded \ {c}
    /\ served' = served \ {c}
    /\ reader' = [reader EXCEPT ![s] = AfterRemove(s)]
    /\ UNCHANGED <<subs, hub, leaving, todo, subscribed, linkUp, raced>>
---------------------------------------------------------------------------
\* The PubSub connection breaks: Redis forgets what it served on it.
LinkDown ==
    /\ linkUp
    /\ linkUp' = FALSE
    /\ served' = {}
    /\ UNCHANGED <<subs, hub, reader, leaving, todo, subscribed, recorded, raced>>

\* Broken variant of Reconnect: a new connection starts without channels.
Reconnect_NoReplay ==
    /\ ~linkUp
    /\ linkUp' = TRUE
    /\ UNCHANGED <<subs, hub, reader, leaving, todo, subscribed, recorded, served, raced>>

\* receiveLoop (or a command) makes go-redis dial again: every recorded channel
\* is subscribed anew on the new connection.
Reconnect ==
    /\ ~linkUp
    /\ linkUp' = TRUE
    /\ served' = recorded
    /\ UNCHANGED <<subs, hub, reader, leaving, todo, subscribed, recorded, raced>>

\* The steps inside an operation, which the reader takes without waiting for
\* anyone: the hooks are bounded by subscribeTimeout.
Operation(s) ==
    \/ CleanupDone(s)
    \/ \E c \in Channels : CleanupNext(s, c)
    \/ \E c \in Channels : HubAdd(s, c)
    \/ \E c \in Channels : HubRemove(s, c)
    \/ \E c \in Channels : MarkSubscribed(s, c)
    \/ \E c \in Channels : SendSubscribe(s, c)
    \/ \E c \in Channels : MarkUnsubscribed(s, c)
    \/ \E c \in Channels : SendUnsubscribe(s, c)

\* What the peer of the socket decides.
Peer(s) ==
    \/ Connect(s)
    \/ Disconnect(s)
    \/ \E c \in Channels : Subscribe(s, c)
    \/ \E c \in Channels : Unsubscribe(s, c)

Next == \/ \E s \in Sockets : Operation(s) \/ Peer(s)
        \/ LinkDown
        \/ Reconnect

Spec == Init /\ [][Next]_vars

\* A runnable goroutine is scheduled, and receiveLoop keeps redialling; nothing
\* is assumed of the peers or of when the link breaks.
FairSpec == Spec /\ (\A s \in Sockets : WF_vars(Operation(s))) /\ WF_vars(Reconnect)
---------------------------------------------------------------------------
\* Types, and no more than the one channel a reader works on.
TypeOK == /\ subs \in [Sockets -> SUBSET Channels]
          /\ hub \in [Channels -> SUBSET Sockets]
          /\ reader \in [Sockets -> ReaderState]
          /\ leaving \subseteq Sockets
          /\ todo \in [Sockets -> SUBSET Channels]
          /\ subscribed \subseteq Channels
          /\ recorded \subseteq Channels
          /\ served \subseteq Channels
          /\ linkUp \in BOOLEAN
          /\ raced \subseteq Channels

\* Socket.subs and Hub.subs are two maps under two mutexes.  Whenever the reader
\* of a socket is between operations they agree on what the socket holds, and a
\* connection that is gone is left in neither.
SubsMatchHub ==
    \A s \in Sockets : At(s, "idle") \/ At(s, "gone") =>
        /\ \A c \in Channels : c \in subs[s] <=> s \in hub[c]
        /\ At(s, "gone") => subs[s] = {}

\* However the hooks overlap, the bridge never holds a channel nobody wants: once
\* the channel has no local subscriber and no last-unsubscriber hook is still to
\* take the bridge's mutex, the channel is out of redisBridge.subscribed.
ForgottenWhenDrained ==
    \A c \in subscribed : hub[c] # {} \/ ReadersAt("hookLast", c) # {}

\* Hub, bridge, go-redis and Redis agree on a channel with no hook in flight,
\* provided its latest first subscriber did not join while the previous last one
\* was still inside its hook.  The link may break and come back at any time.
UnracedAgreement ==
    \A c \in Channels \ raced : FirstHooks(c) \cup LastHooks(c) = {} =>
        /\ c \in subscribed <=> hub[c] # {}
        /\ c \in recorded <=> hub[c] # {}
        /\ linkUp => (c \in served <=> hub[c] # {})

\* README "Redis channels are subscribed on the first local subscriber of a channel"
\* (also hub.go: first is "when Redis has to be subscribed too"), for every order
\* of the hooks: a channel with local subscribers and no hook in flight is served.
\* The code breaks it, see the run hub_bridge_deaf.
ServedWhileSubscribed ==
    \A c \in Channels : hub[c] # {} /\ FirstHooks(c) \cup LastHooks(c) = {} /\ linkUp => c \in served

\* A channel that gains a local subscriber while Redis is down, or whose link then
\* breaks, is served in the end without anyone subscribing again, unless it is
\* drained first: what replaces the hand-written reconnect bookkeeping.
SubscriberServed ==
    \A c \in Channels : (hub[c] # {} /\ c \notin raced) ~> (c \in served \/ hub[c] = {})
===========================================================================
