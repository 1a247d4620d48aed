------------------------------ MODULE Session ------------------------------
(***************************************************************************)
(* One server's connections (socket.go, auth.go): handshake, login, token  *)
(* changes, channel subscriptions, visitor presence and the steps of the   *)
(* disconnect bookkeeping, in the order in which run() defers them.        *)
(*                                                                         *)
(* A socket's token and channel set are touched by its own reader only, so *)
(* a handler is one step here.  The end of run() is several steps, because *)
(* main() looks at the registry, and may end the process, between them     *)
(* (module Server).  Hub.Add and Hub.Remove are one step each; what their  *)
(* hooks do to Redis is the subject of HubBridge.                          *)
(***************************************************************************)
EXTENDS FiniteSets, Naturals

CONSTANTS
    Sockets,               \* names a connection may carry, reused when gone
    ChatChannels,          \* channels with "chat_" in their name
    OtherChannels,         \* the others: operators' and visitors' own channels
    Credentials,           \* the logins PHP signs: records [chan, visitor]
    NoToken, NoChannel,    \* absent values
    ChannelLimit,          \* SOCKET_CHANNEL_LIMIT
    TrackVisitors,         \* TRACK_VISITORS
    StrictChannelBinding   \* STRICT_CHANNEL_BINDING

Channels == ChatChannels \cup OtherChannels

\* An authToken without its dates.  isChatToken is chan \in ChatChannels, which
\* is how validateLoginToken computes it; chat is ChanelNameChat.
Token == [chan: Channels, visitor: BOOLEAN, chat: ChatChannels \cup {NoChannel}]

\* What a vi_online message is about: the visitor of a chat, on the chat's own
\* channel, or the online visitor with the login channel `of`, on ous_<instance>.
Subject == [on: {"chat"}, of: ChatChannels] \cup [on: {"ous"}, of: Channels]

\* How far run() of a connection has got: reading frames, then its deferred
\* calls one by one: unregisterSocket, and cleanup() up to hub.Remove, up to the
\* presence message, up to the end.
Phases == {"gone", "open", "unregistered", "left", "retracted"}
Live   == {"open", "unregistered", "left"}

ASSUME SessionAssumption ==
    /\ ChatChannels \cap OtherChannels = {}
    /\ NoChannel \notin Channels
    /\ NoToken \notin Token
    /\ Credentials \subseteq [chan: Channels, visitor: BOOLEAN]
    /\ ChannelLimit \in Nat
    /\ TrackVisitors \in BOOLEAN
    /\ StrictChannelBinding \in BOOLEAN

VARIABLES
    phase,       \* phase[s] \in Phases
    registered,  \* Server.sockets
    handshaken,  \* the sockets with Socket.handshaken
    token,       \* Socket.token
    subs,        \* Socket.subs
    hub,         \* Hub.subs: channel -> sockets
    online,      \* the subjects whose latest vi_online message said true
    shown,       \* history: the subjects announced under the present token
    proved,      \* history: the chat channels this connection showed a token for
    stray        \* history: the subjects announced by a connection that then
                 \* changed its token or announced another subject as well

sessionVars == <<phase, registered, handshaken, token, subs, hub,
                 online, shown, proved, stray>>

Chat(c) == [on |-> "chat", of |-> c]
Ous(v)  == [on |-> "ous", of |-> v]

\* Broken variant of Issued: the token is taken over as the client sent it.
Issued_NoChat(cred) == cred

Issued(cred) == [chan |-> cred.chan, visitor |-> cred.visitor, chat |-> NoChannel]

\* The chat channels handleSubscribe opens to a token: to a visitor's its own, or
\* every one without strict binding; to an operator's every one.
ChatsOf(t) == IF ~t.visitor THEN ChatChannels
              ELSE IF t.chan \notin ChatChannels THEN {}
              ELSE IF StrictChannelBinding THEN {t.chan} ELSE ChatChannels
---------------------------------------------------------------------------
SessionInit ==
    /\ phase      = [s \in Sockets |-> "gone"]
    /\ registered = {}
    /\ handshaken = {}
    /\ token      = [s \in Sockets |-> NoToken]
    /\ subs       = [s \in Sockets |-> {}]
    /\ hub        = [c \in Channels |-> {}]
    /\ online     = {}
    /\ shown      = [s \in Sockets |-> {}]
    /\ proved     = [s \in Sockets |-> {}]
    /\ stray      = {}

\* handleHTTP: upgrade, newSocket, registerSocket, go run().
Accept(s) ==
    /\ phase[s] = "gone"
    /\ phase' = [phase EXCEPT ![s] = "open"]
    /\ registered' = registered \cup {s}
    /\ UNCHANGED <<handshaken, token, subs, hub, online, shown, proved, stray>>

\* setAuthState and setUnauthenticated: the token, with its ChanelNameChat, is
\* replaced as a whole.
SetToken(s, t) ==
    /\ phase[s] = "open"
    /\ token' = [token EXCEPT ![s] = t]
    /\ proved' = [proved EXCEPT ![s] = @ \cup IF t = NoToken THEN {} ELSE ChatsOf(t)]
    /\ stray' = stray \cup shown[s]
    /\ shown' = [shown EXCEPT ![s] = {}]
    /\ UNCHANGED <<phase, registered, subs, hub, online>>

\* handleHandshake with a stored token that verifies.
Handshake(s, cred) == SetToken(s, Issued(cred)) /\ handshaken' = handshaken \cup {s}

\* handleHandshake without a token, or with one that is expired or invalid.
AnonymousHandshake(s) == SetToken(s, NoToken) /\ handshaken' = handshaken \cup {s}

\* handleLogin of a valid hash, and handleAuthenticate of a valid token.  Neither
\* asks for a handshake first.
Login(s, cred) == SetToken(s, Issued(cred)) /\ UNCHANGED handshaken

\* handleAuthenticate of a bad token, and #removeAuthToken.
Logout(s) == SetToken(s, NoToken) /\ UNCHANGED handshaken

\* The conditions under which handleSubscribe accepts channel c.
ChatRequest(s, c) == c \in ChatChannels /\ token[s].visitor

\* Broken variant of Admitted: worker.js, which bound no token to its chat.
Admitted_AnyChat(s, c) ==
    /\ s \in handshaken
    /\ token[s] # NoToken
    /\ ChatRequest(s, c) => token[s].chan \in ChatChannels

Admitted(s, c) ==
    /\ s \in handshaken
    /\ token[s] # NoToken
    /\ ChatRequest(s, c) => /\ token[s].chan \in ChatChannels
                            /\ StrictChannelBinding => c = token[s].chan

\* Broken variant of WithinLimit: one channel too many.
WithinLimit_OffByOne(s, c) == c \in subs[s] \/ Cardinality(subs[s]) <= ChannelLimit

WithinLimit(s, c) == c \in subs[s] \/ Cardinality(subs[s]) < ChannelLimit

\* publishPresence(.., true, ..).  Announcing a second subject makes both stray:
\* the disconnect handler retracts one.
Announce(s, x) ==
    /\ online' = online \cup {x}
    /\ shown' = [shown EXCEPT ![s] = @ \cup {x}]
    /\ stray' = IF shown[s] \subseteq {x} THEN stray ELSE stray \cup shown[s] \cup {x}

\* Broken variant of Subscribe: presence is announced before the limit is checked,
\* as an earlier version did, and a refused request keeps it.
Subscribe_AnnounceFirst(s, c) ==
    /\ phase[s] = "open"
    /\ Admitted(s, c)
    /\ subs' = IF WithinLimit(s, c) THEN [subs EXCEPT ![s] = @ \cup {c}] ELSE subs
    /\ hub' = IF WithinLimit(s, c) THEN [hub EXCEPT ![c] = @ \cup {s}] ELSE hub
    /\ token' = IF ChatRequest(s, c) /\ WithinLimit(s, c) THEN [token EXCEPT ![s].chat = c] ELSE token
    /\ IF ChatRequest(s, c) THEN Announce(s, Chat(c)) ELSE UNCHANGED <<online, shown, stray>>
    /\ UNCHANGED <<phase, registered, handshaken, proved>>

\* An accepted #subscribe: the presence message, then hub.Add.  A request that is
\* refused, or beyond the limit, changes nothing.
Subscribe(s, c) ==
    /\ phase[s] = "open"
    /\ Admitted(s, c)
    /\ WithinLimit(s, c)
    /\ subs' = [subs EXCEPT ![s] = @ \cup {c}]
    /\ IF ChatRequest(s, c)
         THEN /\ token' = [token EXCEPT ![s].chat = c]
              /\ Announce(s, Chat(c))
         ELSE /\ UNCHANGED token
              /\ IF token[s].visitor /\ TrackVisitors
                   THEN Announce(s, Ous(token[s].chan))
                   ELSE UNCHANGED <<online, shown, stray>>
    /\ hub' = [hub EXCEPT ![c] = @ \cup {s}]
    /\ UNCHANGED <<phase, registered, handshaken, proved>>

\* handleUnsubscribe: the presence stays as it is.
Unsubscribe(s, c) ==
    /\ phase[s] = "open"
    /\ c \in subs[s]
    /\ subs' = [subs EXCEPT ![s] = @ \ {c}]
    /\ hub' = [hub EXCEPT ![c] = @ \ {s}]
    /\ UNCHANGED <<phase, registered, handshaken, token, online, shown, proved, stray>>

---------------------------------------------------------------------------
\* ReadMessage fails, because of the peer, a timeout or a closeWith of the server,
\* which all reach the reader this way and at any time; the first deferred call.
EndRun(s) ==
    /\ phase[s] = "open"
    /\ phase' = [phase EXCEPT ![s] = "unregistered"]
    /\ registered' = registered \ {s}
    /\ UNCHANGED <<handshaken, token, subs, hub, online, shown, proved, stray>>

\* cleanup(): Socket.subs is emptied and every channel of it leaves the hub.
LeaveHub(s) ==
    /\ phase[s] = "unregistered"
    /\ phase' = [phase EXCEPT ![s] = "left"]
    /\ subs' = [subs EXCEPT ![s] = {}]
    /\ hub' = [c \in Channels |-> IF c \in subs[s] THEN hub[c] \ {s} ELSE hub[c]]
    /\ UNCHANGED <<registered, handshaken, token, online, shown, proved, stray>>

\* The subjects cleanup() retracts: the last chat announced under the token, or
\* else the tracked visitor.
Retracted(t) ==
    IF t = NoToken \/ ~t.visitor THEN {}
    ELSE IF t.chat # NoChannel THEN {Chat(t.chat)}
    ELSE IF TrackVisitors THEN {Ous(t.chan)}
    ELSE {}

\* Broken variant of Retract: only tracked visitors are retracted.
Retract_OusOnly(s) ==
    LET gone == {x \in Retracted(token[s]) : x.on = "ous"}
    IN /\ phase[s] = "left"
       /\ phase' = [phase EXCEPT ![s] = "retracted"]
       /\ online' = online \ gone
       /\ stray' = stray \ gone
       /\ shown' = [shown EXCEPT ![s] = {}]
       /\ UNCHANGED <<registered, handshaken, token, subs, hub, proved>>

\* cleanup(): vi_online:false.
Retract(s) ==
    /\ phase[s] = "left"
    /\ phase' = [phase EXCEPT ![s] = "retracted"]
    /\ online' = online \ Retracted(token[s])
    /\ stray' = stray \ Retracted(token[s])
    /\ shown' = [shown EXCEPT ![s] = {}]
    /\ UNCHANGED <<registered, handshaken, token, subs, hub, proved>>

\* The end of cleanup(): the connection is closed, the Socket is garbage.
Finish(s) ==
    /\ phase[s] = "retracted"
    /\ phase' = [phase EXCEPT ![s] = "gone"]
    /\ handshaken' = handshaken \ {s}
    /\ token' = [token EXCEPT ![s] = NoToken]
    /\ proved' = [proved EXCEPT ![s] = {}]
    /\ UNCHANGED <<registered, subs, hub, online, shown, stray>>

\* What the peer of the connection makes its reader do.
Request(s) ==
    \/ \E cred \in Credentials : Handshake(s, cred) \/ Login(s, cred)
    \/ AnonymousHandshake(s)
    \/ Logout(s)
    \/ \E c \in Channels : Subscribe(s, c) \/ Unsubscribe(s, c)

Cleanup(s) == LeaveHub(s) \/ Retract(s) \/ Finish(s)
---------------------------------------------------------------------------
SessionTypeOK ==
    /\ phase \in [Sockets -> Phases]
    /\ registered \subseteq Sockets
    /\ handshaken \subseteq Sockets
    /\ token \in [Sockets -> Token \cup {NoToken}]
    /\ subs \in [Sockets -> SUBSET Channels]
    /\ hub \in [Channels -> SUBSET Sockets]
    /\ online \subseteq Subject
    /\ shown \in [Sockets -> SUBSET Subject]
    /\ proved \in [Sockets -> SUBSET ChatChannels]
    /\ stray \subseteq Subject

\* MIDDLEWARE_SUBSCRIBE: "a visitor may only use the chat_* channel its token was
\* issued for".  Whatever tokens a connection has gone through, the hub delivers a
\* chat to it only if one of them opened that chat.
ChatHeldByOwner == \A c \in ChatChannels : \A s \in hub[c] : c \in proved[s]

\* SOCKET_CHANNEL_LIMIT bounds what one connection holds in the hub, repeated
\* subscriptions of the same channel included.
HubWithinLimit ==
    \A s \in Sockets : Cardinality({c \in Channels : s \in hub[c]}) <= ChannelLimit

\* The comment in handleSubscribe: no vi_online:true without "the matching
\* vi_online:false".  What a live connection announced, provided it was one thing
\* under one token, is exactly what its disconnect handler retracts.
RetractsWhatItShowed ==
    \A s \in Sockets : phase[s] \in Live =>
        \A x \in shown[s] : shown[s] = {x} => Retracted(token[s]) = {x}

\* No ghost visitor: a subject is shown online only while a connection that
\* announced it has its disconnect handler still to run, in every order of
\* reconnects and of the steps of overlapping disconnects.  Excepted are the
\* subjects that a connection lost by changing its token or by a second subject.
NoGhostVisitor ==
    \A x \in online \ stray : \E s \in Sockets : phase[s] \in Live /\ shown[s] = {x}

\* README "disconnect - publishes vi_online:false to the chat channel", without the
\* exception: with no connection left that has its disconnect handler still to run,
\* no chat is shown online.  The code breaks it, see the run presence_relogin.
ChatOfflineWhenGone ==
    (\A s \in Sockets : phase[s] \notin Live) => \A x \in online : x.on # "chat"
===========================================================================
