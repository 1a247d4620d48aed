------------------------------- MODULE Worker -------------------------------
(***************************************************************************)
(* The worker of the Node server (serversc/lhc/worker.js) on the           *)
(* SocketCluster framework: who may log in and subscribe, and what the     *)
(* operators are told of a visitor's presence.  The framework, which is    *)
(* not part of the repository, keeps the connections, signs the tokens,    *)
(* gives a reconnecting browser its token back and takes a subscription    *)
(* once the middleware has called next for the first time.                 *)
(***************************************************************************)
EXTENDS FiniteSets

CONSTANTS
    Sockets,    \* browsers, with one connection at a time
    Chats,      \* the channels chat_<id>
    Site,       \* the channel uo_<vid> of a site's visitor
    Nothing     \* no token, no channel

Kinds == {"chat", "site", "operator"}

VARIABLES
    kind,       \* the page of the browser, which asks for the login
    connected,
    stored,     \* the browser's local storage holds a token
    authToken,  \* socket.authToken: isVisitor and isChatToken as a kind, and chanelNameChat
    subs,       \* the framework's subscriptions of the socket
    told,       \* of each chat channel, by whom the last status was true, if it was
    shown,      \* the browsers whose visitor's last status on ous_<instance> was true
    stray       \* history: browsers that logged in on a connection that had a token, or
                \* were announced on more than one channel

vars == <<kind, connected, stored, authToken, subs, told, shown, stray>>

Init ==
    /\ kind \in [Sockets -> Kinds]
    /\ connected = {} /\ stored = {}
    /\ authToken = [s \in Sockets |-> Nothing]
    /\ subs = [s \in Sockets |-> {}]
    /\ told = [c \in Chats |-> Nothing]
    /\ shown = {} /\ stray = {}

Token_Nameless(k) == [kind |-> k]

\* A new token names no chat.
Token(k) == [kind |-> k, chanelNameChat |-> Nothing]
HasToken(s) == authToken[s] # Nothing
IsVisitor(s) == HasToken(s) /\ authToken[s].kind # "operator"

\* The handshake; a token of the storage may have expired.
Connect(s) ==
    /\ s \notin connected
    /\ connected' = connected \cup {s}
    /\ \/ UNCHANGED authToken
       \/ s \in stored /\ authToken' = [authToken EXCEPT ![s] = Token(kind[s])]
    /\ UNCHANGED <<kind, stored, subs, told, shown, stray>>

\* 'login' with a fresh hash that fits the chanelName; any other is answered with
\* 'Login failed' and changes nothing.
Login(s) ==
    /\ s \in connected
    /\ authToken' = [authToken EXCEPT ![s] = Token(kind[s])]
    /\ stored' = stored \cup {s}
    /\ stray' = IF HasToken(s) THEN stray \cup {s} ELSE stray
    /\ UNCHANGED <<kind, connected, subs, told, shown>>

\* Where s was announced.
Announced(s) == ({authToken[s].chanelNameChat} \ {Nothing}) \cup (IF s \in shown THEN {Site} ELSE {})

Accept(s, c) == subs' = [subs EXCEPT ![s] = @ \cup {c}]

\* MIDDLEWARE_SUBSCRIBE without a token, or with one of a site's visitor for a chat:
\* next('You are not authorized').  The second call of next that follows in the latter
\* case does nothing.
Refuse(s) ==
    /\ s \in connected
    /\ HasToken(s) => authToken[s].kind = "site"
    /\ UNCHANGED vars

AnnounceChat_Unremembered(s, c) ==
    /\ s \in connected /\ HasToken(s) /\ authToken[s].kind = "chat"
    /\ told' = [told EXCEPT ![c] = s]
    /\ stray' = IF Announced(s) \subseteq {c} THEN stray ELSE stray \cup {s}
    /\ Accept(s, c)
    /\ UNCHANGED <<kind, connected, stored, authToken, shown>>

\* The middleware with a chat's token and a chat: vi_online true on the channel.
AnnounceChat(s, c) ==
    /\ s \in connected /\ HasToken(s) /\ authToken[s].kind = "chat"
    /\ authToken' = [authToken EXCEPT ![s].chanelNameChat = c]
    /\ told' = [told EXCEPT ![c] = s]
    /\ stray' = IF Announced(s) \subseteq {c} THEN stray ELSE stray \cup {s}
    /\ Accept(s, c)
    /\ UNCHANGED <<kind, connected, stored, shown>>

\* A visitor's subscription to anything else, with trackVisitors: vi_online true on
\* ous_<instance>.
AnnounceSite(s) ==
    /\ s \in connected /\ IsVisitor(s)
    /\ shown' = shown \cup {s}
    /\ stray' = IF Announced(s) \subseteq {Site} THEN stray ELSE stray \cup {s}
    /\ Accept(s, Site)
    /\ UNCHANGED <<kind, connected, stored, authToken, told>>

\* Operators subscribe to what they like.
Allow(s) ==
    /\ s \in connected /\ HasToken(s) /\ ~ IsVisitor(s)
    /\ \E c \in Chats \cup {Site} : Accept(s, c)
    /\ UNCHANGED <<kind, connected, stored, authToken, told, shown, stray>>

\* '#unsubscribe', of which the worker hears nothing.
Unsubscribe(s) ==
    /\ \E c \in subs[s] : subs' = [subs EXCEPT ![s] = @ \ {c}]
    /\ UNCHANGED <<kind, connected, stored, authToken, told, shown, stray>>

Gone(s) ==
    /\ connected' = connected \ {s}
    /\ authToken' = [authToken EXCEPT ![s] = Nothing]
    /\ subs' = [subs EXCEPT ![s] = {}]
    /\ UNCHANGED <<kind, stored, stray>>

\* 'disconnect': vi_online false on the channel of the chat, otherwise on ous_<instance>.
Disconnect(s) ==
    /\ s \in connected
    /\ \/ /\ IsVisitor(s) /\ authToken[s].chanelNameChat # Nothing
          /\ told' = [told EXCEPT ![authToken[s].chanelNameChat] = Nothing]
          /\ UNCHANGED shown
       \/ /\ IsVisitor(s) /\ authToken[s].chanelNameChat = Nothing
          /\ shown' = shown \ {s}
          /\ UNCHANGED told
       \/ /\ ~ IsVisitor(s)
          /\ UNCHANGED <<told, shown>>
    /\ Gone(s)

Next ==
    \E s \in Sockets :
        \/ Connect(s) \/ Login(s) \/ Refuse(s) \/ AnnounceSite(s) \/ Allow(s)
        \/ Unsubscribe(s) \/ Disconnect(s)
        \/ \E c \in Chats : AnnounceChat(s, c)

Spec == Init /\ [][Next]_vars

-----------------------------------------------------------------------------
\* Every variable has its type.
TypeOK ==
    /\ kind \in [Sockets -> Kinds]
    /\ connected \subseteq Sockets /\ stored \subseteq Sockets
    /\ \A s \in Sockets : HasToken(s) =>
          authToken[s] \in [kind : Kinds, chanelNameChat : Chats \cup {Nothing}]
    /\ subs \in [Sockets -> SUBSET (Chats \cup {Site})]
    /\ told \in [Chats -> Sockets \cup {Nothing}]
    /\ shown \subseteq Sockets /\ stray \subseteq Sockets

\* Operators are shown nobody who has gone: whoever was announced last on a chat, or
\* announced on ous_<instance>, is still connected, through any number of reconnects
\* with or without the old token (the 'disconnect' handler takes back what the
\* middleware announced).  The handler knows one place only: a login on a connection
\* that has a token makes it forget the chat, and a visitor announced on two
\* channels is taken back from one.
NobodyLeft ==
    /\ \A c \in Chats : told[c] \in connected \cup stray \cup {Nothing}
    /\ shown \ stray \subseteq connected

=============================================================================
