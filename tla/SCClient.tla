------------------------------ MODULE SCClient ------------------------------
(***************************************************************************)
(* The SocketCluster client the pages load (socketcluster.js): one         *)
(* SCClientSocket with its SCTransport, the WebSocket under it, and the    *)
(* server at the other end of the WebSocket (go-server/socket.go) reduced  *)
(* to what the client can tell.                                            *)
(*                                                                         *)
(* JavaScript runs a task to completion, and the client calls the page     *)
(* back, synchronously, in the middle of its own functions.  A task is     *)
(* therefore the variable stack: the calls that still have to return, the  *)
(* innermost first.  An event of the browser (a message, a timer, a user)  *)
(* happens only when the stack is empty; a step of the library takes the   *)
(* head of the stack and may put further calls in front of the rest.       *)
(***************************************************************************)
EXTENDS Naturals, Sequences, FiniteSets, Sublists

CONSTANTS
    Channels,       \* the channels the page subscribes to
    Calls,          \* events emitted with a callback ('login'), while under way
    Casts,          \* events emitted without one (a publish), while under way
    Handshake,      \* the '#handshake' call of the transport
    None,           \* no name: a step that is about nothing in particular
    CloseCodes,     \* the codes with which the other side closes
    ClosingWindow,  \* a task may find the WebSocket CLOSING, before its onclose
    MaxCid,         \* bound: call ids in use at one time
    MaxWire         \* bound: messages on the way when another call or push begins

Names == Channels \cup Calls \cup Casts \cup {Handshake, None}
Cids  == 1 .. MaxCid

ASSUME SCClientAssumption ==
    /\ Channels \cap Calls = {} /\ Channels \cap Casts = {} /\ Calls \cap Casts = {}
    /\ Handshake \notin Channels \cup Calls \cup Casts
    /\ None \notin Channels \cup Calls \cup Casts \cup {Handshake}
    /\ CloseCodes \subseteq Nat \ {0}
    /\ ClosingWindow \in BOOLEAN
    /\ MaxCid \in Nat /\ MaxWire \in Nat

VARIABLES
    active,     \* SCClientSocket.active: destroy() was not called
    state,      \* SCClientSocket.state, and SCTransport.state with it
    auth,       \* authState = AUTHENTICATED
    token,      \* localStorage holds an auth token
    preparing,  \* preparingPendingSubscriptions
    tried,      \* connectAttempts > 0
    retry,      \* the reconnect timer: "none", or armed with delay 0 or a longer one
    code,       \* the code of the last close, 1000 too if disconnect() came later;
                \* 0 while there is a transport
    ws,         \* readyState of the transport's WebSocket; "gone" once closed
    up, down,   \* the messages under way on it, to the server and to the client
    peer,       \* the server's record of the connection
    buffer,     \* _emitBuffer: the events not yet sent
    map,        \* SCTransport._callbackMap in the order of the call ids
    asked,      \* the calls whose eventObject still has its callback
    chan,       \* the SCChannel objects: state, and _pendingSubscriptionCid or 0; history:
                \* torn, that id was assigned after its transport had been closed
    stack       \* the running task: the calls that have not returned

wireVars == <<ws, up, down, peer>>
linkVars == <<state, retry, code, chan, map, buffer>>
selfVars == <<active, auth, token, preparing, tried, asked>>
vars == <<active, state, auth, token, preparing, tried, retry, code, ws, up, down,
          peer, buffer, map, asked, chan, stack>>

Hooks == {"connect", "close", "deauthenticate", "subscribe", "message", "answered", "refused"}
Inner == {"abort", "retry", "fail", "wsclose", "open", "tries", "cid", "flushall", "flush",
          "respond", "cancel"}
\* The rests of the pages' own functions, after a call of the client.
Rests == {"added", "leaving"}

Frames   == [do : Hooks \cup Inner \cup Rests, at : Names, n : Nat, of : SUBSET Channels]
Entries  == [cid : Cids, at : Names]
Messages == [ev : {"handshake", "login", "publish", "subscribe", "unsubscribe", "disconnect",
                   "respond", "answer", "setAuthToken"},
             at : Names, cid : 0 .. MaxCid, ok : BOOLEAN]

Frame(do, at)     == [do |-> do, at |-> at, n |-> 0, of |-> {}]
\* A callback called with an error: n = 1 if it is the server's answer.
Denied(e)         == [Frame("refused", e) EXCEPT !.n = 1]
Message(ev, at, cid, ok) == [ev |-> ev, at |-> at, cid |-> cid, ok |-> ok]

Stranger == [authed |-> FALSE, subs |-> {}]
NoChannel_Undefined == [st |-> "none", cid |-> None, torn |-> FALSE]
NoChannel == [st |-> "none", cid |-> 0, torn |-> FALSE]

First(s) == IF s = <<>> THEN None ELSE s[1]
\* next of the list item of e; a detached item has none.
After(s, e) == IF \E i \in 1 .. Len(s) - 1 : s[i] = e
               THEN s[(CHOOSE i \in 1 .. Len(s) - 1 : s[i] = e) + 1]
               ELSE None

Idle == stack = <<>>
Step(do) == stack # <<>> /\ Head(stack).do = do
Top == Head(stack)

\* Call ids come from a counter; the model takes the smallest that nothing names.
InUse == {e.cid : e \in Elems(map)} \cup {m.cid : m \in Elems(up) \cup Elems(down)}
         \cup {chan[c].cid : c \in Channels} \cup {f.n : f \in Elems(stack)}
FreshCids == {c \in Cids : c \notin InUse /\ \A d \in 1 .. c - 1 : d \in InUse}

-----------------------------------------------------------------------------
(***************************************************************************)
(* Closing.                                                                *)
(***************************************************************************)

Suspended_Forgotten(c) == [NoChannel EXCEPT !.st = IF c.st = "none" THEN "none" ELSE "unsubscribed"]
Suspended_StaysSubscribed(c) == [NoChannel EXCEPT !.st = c.st]

\* _suspendSubscriptions: what was subscribed or pending is pending again, and
\* no request is outstanding.
Suspended(c) ==
    [NoChannel EXCEPT !.st = IF c.st = "subscribed" THEN "pending" ELSE c.st]

Settled_KeepsCid(c, st) == [c EXCEPT !.st = IF c.st = "none" THEN "none" ELSE st]

\* The callback of a '#subscribe', on a channel that was not destroyed.
Settled(c, st) == [NoChannel EXCEPT !.st = IF c.st = "none" THEN "none" ELSE st]

Fails_NotAborted(entries) == <<>>

\* The rejections _abortAllPendingEventsDueToBadConnection of the transport
\* still has to make.
Fails(entries) == [i \in DOMAIN entries |-> [Frame("fail", entries[i].at) EXCEPT !.n = entries[i].cid]]

\* SCTransport._onClose(how), with the list, map and channels at that point.
ShutDown(how, buf, mp, ch, rest) ==
    /\ buffer' = buf
    /\ IF state = "closed"
       THEN /\ map' = mp /\ chan' = ch /\ stack' = rest
            /\ UNCHANGED <<state, retry, code>>
       ELSE /\ state' = "closed" /\ retry' = "none" /\ code' = how
            /\ chan' = [c \in Channels |-> Suspended(ch[c])]
            /\ map' = <<>>
            /\ stack' = <<Frame("abort", First(buf)), [Frame("retry", None) EXCEPT !.n = how],
                          Frame("close", None)>>
                        \o Fails(Without(mp, LAMBDA e : e.at \in Channels /\ ch[e.at].cid = e.cid))
                        \o rest

\* SCTransport.send: a WebSocket that is not OPEN closes the transport with 1005.
Send(m, buf, mp, ch, rest) ==
    IF ws = "open"
    THEN /\ up' = Append(up, m) /\ buffer' = buf /\ map' = mp /\ chan' = ch /\ stack' = rest
         /\ UNCHANGED <<state, retry, code, ws, down, peer>>
    ELSE ShutDown(1005, buf, mp, ch, rest) /\ UNCHANGED wireVars

\* One round of the client's _abortAllPendingEventsDueToBadConnection.
AbortBuffered ==
    /\ Step("abort")
    /\ buffer' = Without(buffer, LAMBDA e : e = Top.at)
    /\ asked' = asked \ {Top.at}
    /\ stack' = (IF Top.at \in asked THEN <<Frame("refused", Top.at)>> ELSE <<>>)
                \o (IF Top.at = None THEN <<>> ELSE <<Frame("abort", After(buffer, Top.at))>>)
                \o Tail(stack)
    /\ UNCHANGED <<active, state, auth, token, preparing, tried, retry, code, map, chan, wireVars>>

\* The codes after which the client reconnects at once, and never.
AtOnce(how) == how \in {4000, 4001, 1005}
ForGood_Ignored(how) == how \in {1000, 1001} \/ how >= 4500
ForGood(how) == how = 1000 \/ how >= 4500

\* _onSCClose from "Try to reconnect" on: _tryReconnect(0) or _tryReconnect().
TryReconnect ==
    /\ Step("retry")
    /\ IF AtOnce(Top.n) \/ ~ ForGood(Top.n)
       THEN tried' = TRUE /\ retry' = IF AtOnce(Top.n) /\ ~ tried THEN "now" ELSE "later"
       ELSE UNCHANGED <<tried, retry>>
    /\ stack' = Tail(stack)
    /\ UNCHANGED <<active, state, auth, token, preparing, code, buffer, map, asked, chan, wireVars>>

\* The browser's end of a WebSocket is closed: nothing of it arrives any more.
Gone == ws' = "gone" /\ up' = <<>> /\ down' = <<>> /\ peer' = Stranger

\* socket.close(statusCode) after _onClose.
CloseWebSocket ==
    /\ Step("wsclose")
    /\ Gone
    /\ stack' = Tail(stack)
    /\ UNCHANGED <<selfVars, linkVars>>

\* One round of the transport's _abortAllPendingEventsDueToBadConnection, and the
\* callback it calls.  eventObject.callback of a call that has timed out is gone:
\* calling it throws, the rest of the task is lost and the entries not yet
\* reached stay where they were.
FailPending ==
    /\ Step("fail")
    /\ LET e == Top.at IN
       \/ /\ e = Handshake
          /\ Gone
          /\ stack' = Tail(stack)
          /\ UNCHANGED <<selfVars, linkVars>>
       \/ /\ e \in asked
          /\ asked' = asked \ {e}
          /\ stack' = <<Frame("refused", e)>> \o Tail(stack)
          /\ UNCHANGED <<active, auth, token, preparing, tried, linkVars, wireVars>>
       \/ /\ e \in Calls \ asked
          /\ LET left == Without(Tail(stack), LAMBDA f : f.do # "fail")
             IN  map' = [i \in DOMAIN left |-> [cid |-> left[i].n, at |-> left[i].at]]
          /\ stack' = <<>>
          /\ UNCHANGED <<selfVars, state, retry, code, chan, buffer, wireVars>>
       \/ /\ e \in Channels
          /\ chan' = [chan EXCEPT ![e] = Settled(@, "unsubscribed")]
          /\ stack' = Tail(stack)
          /\ UNCHANGED <<selfVars, state, retry, code, map, buffer, wireVars>>

-----------------------------------------------------------------------------
(***************************************************************************)
(* Subscribing and sending.                                                *)
(***************************************************************************)

\* _trySubscribe of one of the channels; _pendingSubscriptionCid is assigned
\* when emit returns, which is after everything the send has caused.
TrySubscribe ==
    /\ Step("tries")
    /\ \/ /\ Top.of = {}
          /\ stack' = Tail(stack)
          /\ UNCHANGED <<linkVars, wireVars>>
       \/ \E c \in Top.of :
            LET rest == <<[Top EXCEPT !.of = @ \ {c}]>> \o Tail(stack) IN
            IF state = "open" /\ ~ preparing /\ chan[c].cid = 0
            THEN \E cid \in FreshCids :
                   LET m  == Message("subscribe", c, cid, TRUE)
                       mp == Append(map, [cid |-> cid, at |-> c])
                   IN  IF ws = "open"
                       THEN Send(m, buffer, mp, [chan EXCEPT ![c].cid = cid], rest)
                       ELSE Send(m, buffer, mp, chan, <<[Frame("cid", c) EXCEPT !.n = cid]>> \o rest)
            ELSE stack' = rest /\ UNCHANGED <<linkVars, wireVars>>
    /\ UNCHANGED selfVars

\* The assignment of _pendingSubscriptionCid after a send that closed the transport.
AssignCid ==
    /\ Step("cid")
    /\ chan' = [chan EXCEPT ![Top.at].cid = Top.n, ![Top.at].torn = TRUE]
    /\ stack' = Tail(stack)
    /\ UNCHANGED <<selfVars, state, retry, code, map, buffer, wireVars>>

Pending == {c \in Channels : chan[c].st = "pending"}
ProcessPending == [Frame("tries", None) EXCEPT !.of = Pending]

\* One round of _flushEmitBuffer: detach the item and emitObject its event.
Flush ==
    /\ Step("flush")
    /\ LET e    == Top.at
           buf  == Without(buffer, LAMBDA x : x = e)
           rest == <<Frame("flush", After(buffer, e))>> \o Tail(stack)
       IN  \/ /\ e = None
              /\ stack' = Tail(stack)
              /\ UNCHANGED <<linkVars, wireVars>>
           \/ /\ e \in asked
              /\ \E cid \in FreshCids :
                   Send(Message("login", e, cid, TRUE), buf, Append(map, [cid |-> cid, at |-> e]), chan, rest)
           \/ /\ e \notin asked \cup {None}
              /\ Send(Message("publish", e, 0, TRUE), buf, map, chan, rest)
    /\ UNCHANGED selfVars

\* Response.end: the answer to a '#setAuthToken'.
Respond ==
    /\ Step("respond")
    /\ Send(Message("respond", None, 0, TRUE), buffer, map, chan, Tail(stack))
    /\ UNCHANGED selfVars

-----------------------------------------------------------------------------
(***************************************************************************)
(* Connecting, and what the WebSocket reports.                             *)
(***************************************************************************)

\* connect() of a closed client: a new SCTransport with a new WebSocket.
NewTransport ==
    /\ state' = "connecting" /\ retry' = "none" /\ code' = 0
    /\ ws' = "connecting" /\ up' = <<>> /\ down' = <<>> /\ peer' = Stranger
    /\ map' = <<>>

\* onopen: _onOpen sends the handshake with the stored token.
WsOpen ==
    /\ Idle /\ ws = "connecting" /\ state = "connecting"
    /\ ws' = "open"
    /\ \E cid \in FreshCids :
         /\ map' = <<[cid |-> cid, at |-> Handshake]>>
         /\ up' = <<Message("handshake", Handshake, cid, token)>>
    /\ UNCHANGED <<selfVars, state, retry, code, chan, buffer, down, peer, stack>>

Closing(how, rest) == ShutDown(how, buffer, map, chan, rest)
WsClosed(how, rest) == Closing(how, rest) /\ Gone /\ UNCHANGED selfVars

\* onerror before the WebSocket is open.
WsError ==
    /\ Idle /\ ws = "connecting" /\ state = "connecting"
    /\ WsClosed(1006, <<>>)

\* The connectTimeout and the ping timeout.
ConnectTimeout ==
    /\ Idle /\ ws = "connecting" /\ state = "connecting"
    /\ Closing(4007, <<Frame("wsclose", None)>>)
    /\ UNCHANGED <<selfVars, wireVars>>

PingTimeout ==
    /\ Idle /\ ws \in {"open", "closing"} /\ state # "closed"
    /\ Closing(4000, <<Frame("wsclose", None)>>)
    /\ UNCHANGED <<selfVars, wireVars>>

\* onclose with readyState CLOSED.
WsClose ==
    /\ Idle /\ ws \in {"open", "closing"}
    /\ \E how \in CloseCodes : WsClosed(how, <<>>)

\* The other side starts to close: readyState changes in a task of its own.
WsClosing ==
    /\ Idle /\ ClosingWindow /\ ws = "open"
    /\ ws' = "closing"
    /\ UNCHANGED <<selfVars, linkVars, up, down, peer, stack>>

ReconnectTimer_Unchecked ==
    /\ Idle /\ retry # "none"
    /\ NewTransport
    /\ UNCHANGED <<selfVars, chan, buffer, stack>>

\* The reconnect timer calls connect(), which refuses a destroyed client.
ReconnectTimer ==
    /\ Idle /\ retry # "none"
    /\ IF active THEN NewTransport ELSE retry' = "none" /\ UNCHANGED <<state, code, map, wireVars>>
    /\ UNCHANGED <<selfVars, chan, buffer, stack>>

\* _onSCOpen, up to its first callback.
Opened(authed) ==
    /\ state' = "open"
    /\ preparing' = TRUE
    /\ auth' = authed
    /\ stack' = (IF auth /\ ~ authed THEN <<Frame("deauthenticate", None)>> ELSE <<>>)
                \o <<[Frame("open", None) EXCEPT !.n = IF authed THEN 1 ELSE 0]>>

\* _onSCOpen from connectAttempts = 0 on.
Connected ==
    /\ Step("open")
    /\ tried' = FALSE
    /\ preparing' = FALSE
    /\ stack' = <<ProcessPending, [Frame("connect", None) EXCEPT !.n = Top.n],
                  Frame("flushall", None)>> \o Tail(stack)
    /\ UNCHANGED <<active, auth, token, asked, linkVars, wireVars>>

\* Its last statement: flush if the state is still OPEN.
FlushAll ==
    /\ Step("flushall")
    /\ stack' = (IF state = "open" THEN <<Frame("flush", First(buffer))>> ELSE <<>>) \o Tail(stack)
    /\ UNCHANGED <<selfVars, linkVars, wireVars>>

\* onmessage with the answer to a call: _handleEventObject, and the callback.
ReceiveAnswer ==
    /\ Idle /\ ws = "open" /\ down # <<>> /\ Head(down).ev = "answer"
    /\ down' = Tail(down)
    /\ LET m == Head(down) IN
       /\ map' = Without(map, LAMBDA e : e.cid = m.cid)
       /\ \/ /\ \A e \in Elems(map) : e.cid # m.cid
             /\ UNCHANGED <<state, preparing, auth, asked, chan, stack>>
          \/ \E e \in Elems(map) :
               /\ e.cid = m.cid
               /\ \/ /\ e.at = Handshake
                     /\ Opened(m.ok)
                     /\ UNCHANGED <<asked, chan>>
                  \/ /\ e.at \in Calls
                     /\ asked' = asked \ {e.at}
                     /\ stack' = IF e.at \in asked
                                 THEN <<IF m.ok THEN Frame("answered", e.at) ELSE Denied(e.at)>> ELSE <<>>
                     /\ UNCHANGED <<state, preparing, auth, chan>>
                  \/ /\ e.at \in Channels
                     /\ chan' = [chan EXCEPT ![e.at] =
                                   Settled(@, IF m.ok THEN "subscribed" ELSE "unsubscribed")]
                     /\ stack' = IF m.ok /\ chan[e.at].st \notin {"none", "subscribed"}
                                 THEN <<Frame("subscribe", e.at)>> ELSE <<>>
                     /\ UNCHANGED <<state, preparing, auth, asked>>
    /\ UNCHANGED <<active, token, tried, retry, code, buffer, ws, up, peer>>

\* onmessage with an event.  A transport that was closed has no listener (off()).
ReceiveEvent ==
    /\ Idle /\ ws = "open" /\ down # <<>> /\ Head(down).ev # "answer"
    /\ down' = Tail(down)
    /\ LET m == Head(down) IN
       \/ /\ state = "closed"
          /\ UNCHANGED <<auth, token, preparing, stack>>
       \/ /\ state # "closed" /\ m.ev = "setAuthToken"
          /\ token' = TRUE /\ auth' = TRUE
          /\ preparing' = (preparing /\ auth)
          /\ stack' = (IF auth THEN <<>> ELSE <<ProcessPending>>) \o <<Frame("respond", None)>>
       \/ /\ state # "closed" /\ m.ev = "publish"
          /\ stack' = IF chan[m.at].st \in {"subscribed", "pending"} THEN <<Frame("message", m.at)>> ELSE <<>>
          /\ UNCHANGED <<auth, token, preparing>>
    /\ UNCHANGED <<active, tried, asked, linkVars, ws, up, peer>>

AckTimeout_KeepsCallback(e) ==
    /\ Idle /\ e \in asked
    /\ buffer' = Without(buffer, LAMBDA x : x = e)
    /\ stack' = <<Frame("refused", e), Frame("cancel", e)>>
    /\ UNCHANGED <<selfVars, state, retry, code, chan, map, wireVars>>

\* _handleEventAckTimeout of the client, up to the callback: the list item is
\* detached, the transport's entry is not.
AckTimeout(e) ==
    /\ Idle /\ e \in asked
    /\ buffer' = Without(buffer, LAMBDA x : x = e)
    /\ asked' = asked \ {e}
    /\ stack' = <<Frame("refused", e), Frame("cancel", e)>>
    /\ UNCHANGED <<active, auth, token, preparing, tried, state, retry, code, chan, map, wireVars>>

\* Its end: "Cleanup any pending response callback in the transport layer too".
CancelResponse ==
    /\ Step("cancel")
    /\ map' = Without(map, LAMBDA e : e.at = Top.at)
    /\ stack' = Tail(stack)
    /\ UNCHANGED <<selfVars, state, retry, code, chan, buffer, wireVars>>

\* No answer to the handshake within ackTimeout: _onClose(4003).
HandshakeTimeout ==
    /\ Idle /\ state = "connecting" /\ \E e \in Elems(map) : e.at = Handshake
    /\ ShutDown(4003, buffer, Without(map, LAMBDA e : e.at = Handshake), chan, <<Frame("wsclose", None)>>)
    /\ UNCHANGED <<selfVars, wireVars>>

Library ==
    \/ AbortBuffered \/ TryReconnect \/ CloseWebSocket \/ FailPending
    \/ TrySubscribe \/ AssignCid \/ Flush \/ FlushAll \/ Respond \/ Connected \/ CancelResponse

Browser ==
    \/ WsOpen \/ WsError \/ ConnectTimeout \/ PingTimeout \/ WsClose \/ WsClosing
    \/ ReconnectTimer \/ ReceiveAnswer \/ ReceiveEvent \/ HandshakeTimeout
    \/ \E e \in Calls : AckTimeout(e)

-----------------------------------------------------------------------------
(***************************************************************************)
(* What a page calls, followed by the rest of what it does.                *)
(***************************************************************************)

\* emit() and publish(): connect if closed, append, flush if open.
Emit(e, rest) ==
    /\ buffer' = Append(buffer, e)
    /\ asked' = IF e \in Calls THEN asked \cup {e} ELSE asked
    /\ IF state = "closed" /\ active
       THEN NewTransport
       ELSE UNCHANGED <<state, retry, code, map, wireVars>>
    /\ stack' = (IF state = "open" THEN <<Frame("flush", First(buffer'))>> ELSE <<>>) \o rest
    /\ UNCHANGED <<active, auth, token, preparing, tried, chan>>

\* subscribe(), of one channel or of several in any order: one that exists and is
\* pending or subscribed is returned as is.
Subscribe(S, rest) ==
    LET fresh == {c \in S : chan[c].st \in {"none", "unsubscribed"}} IN
    /\ chan' = [c \in Channels |-> IF c \in fresh THEN [chan[c] EXCEPT !.st = "pending"] ELSE chan[c]]
    /\ stack' = (IF fresh = {} THEN <<>> ELSE <<[Frame("tries", None) EXCEPT !.of = fresh]>>) \o rest
    /\ UNCHANGED <<selfVars, state, retry, code, map, buffer, wireVars>>

\* destroyChannel(): unsubscribe, cancel the request and forget the object; what
\* the task still had to do to that object is lost on it.
DestroyChannel(c, rest) ==
    LET dropped == Without(rest, LAMBDA f : f.at = c /\ f.do \in {"cid", "fail"})
        left    == [chan EXCEPT ![c] = NoChannel]
        mp      == Without(map, LAMBDA e : e.cid = chan[c].cid)
    IN /\ IF chan[c].st \notin {"none", "unsubscribed"} /\ state = "open"
          THEN Send(Message("unsubscribe", c, 0, TRUE), buffer, mp, left, dropped)
          ELSE /\ chan' = left /\ stack' = dropped
               /\ map' = IF chan[c].st = "none" THEN map ELSE mp
               /\ UNCHANGED <<state, retry, code, buffer, wireVars>>
       /\ UNCHANGED selfVars

Disconnect_CloseFirst(rest) ==
    IF state = "closed"
    THEN /\ retry' = "none" /\ code' = 1000 /\ stack' = rest
         /\ UNCHANGED <<state, chan, map, buffer, wireVars>>
    ELSE /\ Closing(1000, <<Frame("wsclose", None)>> \o rest)
         /\ UNCHANGED wireVars

\* disconnect(): '#disconnect' and _onClose(1000) when there is a transport,
\* otherwise the end of the reconnect timer.
Disconnect(rest) ==
    IF state = "closed"
    THEN /\ retry' = "none" /\ code' = 1000 /\ stack' = rest
         /\ UNCHANGED <<state, chan, map, buffer, wireVars>>
    ELSE /\ Closing(IF state = "open" /\ ws # "open" THEN 1005 ELSE 1000,
                    <<Frame("wsclose", None)>> \o rest)
         /\ up' = IF state = "open" /\ ws = "open"
                  THEN Append(up, Message("disconnect", None, 0, TRUE)) ELSE up
         /\ UNCHANGED <<ws, down, peer>>

\* destroy(), and the client's own handler of beforeunload.
Destroy(rest) ==
    /\ active' = FALSE
    /\ Disconnect(rest)
    /\ UNCHANGED <<auth, token, preparing, tried, asked>>

Unload(rest) == Disconnect(rest) /\ UNCHANGED selfVars

-----------------------------------------------------------------------------
(***************************************************************************)
(* The server end of the WebSocket, as much of it as the client can tell.  *)
(***************************************************************************)

Answer(m, ok) == Message("answer", None, m.cid, ok)

PeerTakes(ev) == ws = "open" /\ up # <<>> /\ Head(up).ev = ev /\ up' = Tail(up)

\* handleHandshake: a token that does not verify leaves the socket unauthenticated.
PeerHandshake ==
    /\ PeerTakes("handshake")
    /\ \E valid \in BOOLEAN :
         /\ valid => Head(up).ok
         /\ peer' = [peer EXCEPT !.authed = valid]
         /\ down' = Append(down, Answer(Head(up), valid))
    /\ UNCHANGED <<selfVars, linkVars, ws, stack>>

\* handleLogin: the answer, then the token.
PeerLogin ==
    /\ PeerTakes("login")
    /\ \/ /\ peer' = [peer EXCEPT !.authed = TRUE]
          /\ down' = down \o <<Answer(Head(up), TRUE), Message("setAuthToken", None, 0, TRUE)>>
       \/ /\ down' = Append(down, Answer(Head(up), FALSE))
          /\ UNCHANGED peer
    /\ UNCHANGED <<selfVars, linkVars, ws, stack>>

\* handleSubscribe, handleUnsubscribe.
PeerSubscribe ==
    /\ PeerTakes("subscribe")
    /\ peer' = [peer EXCEPT !.subs = IF peer.authed THEN @ \cup {Head(up).at} ELSE @]
    /\ down' = Append(down, Answer(Head(up), peer.authed))
    /\ UNCHANGED <<selfVars, linkVars, ws, stack>>

PeerUnsubscribe ==
    /\ PeerTakes("unsubscribe")
    /\ peer' = [peer EXCEPT !.subs = @ \ {Head(up).at}]
    /\ UNCHANGED <<selfVars, linkVars, ws, down, stack>>

\* A publish, and the answer to a '#setAuthToken': nothing the client sees.
PeerIgnores ==
    /\ PeerTakes("publish") \/ PeerTakes("respond")
    /\ UNCHANGED <<selfVars, linkVars, ws, down, peer, stack>>

\* '#disconnect': closeWith(1000); the browser reports it when it is idle.
PeerDisconnect ==
    /\ Idle /\ PeerTakes("disconnect")
    /\ ws' = "closing"
    /\ UNCHANGED <<selfVars, linkVars, down, peer, stack>>

\* A publication on a channel the connection is subscribed to.
PeerPublish ==
    /\ ws = "open" /\ Len(down) < MaxWire
    /\ \E c \in peer.subs : down' = Append(down, Message("publish", c, 0, TRUE))
    /\ UNCHANGED <<selfVars, linkVars, ws, up, peer, stack>>

Peer == PeerHandshake \/ PeerLogin \/ PeerSubscribe \/ PeerUnsubscribe \/ PeerIgnores
        \/ PeerDisconnect \/ PeerPublish

-----------------------------------------------------------------------------
(***************************************************************************)
(* Any page that calls the client the way the pages of this repository do. *)
(***************************************************************************)

\* Which calls a page makes from which callback, and from a task of its own.
From(hooks) == Idle \/ \E h \in hooks : Step(h)

Unused(e) ==
    /\ e \notin Elems(buffer) \cup asked
    /\ \A x \in Elems(map) : x.at # e
    /\ \A f \in Elems(stack) : f.at # e

Room == Len(up) + Len(down) < MaxWire

PageEmits ==
    /\ From({"connect", "answered", "subscribe", "message"}) /\ Room
    /\ \E e \in Calls \cup Casts : Unused(e) /\ Emit(e, stack)

PageSubscribes ==
    /\ From({"connect", "answered"}) /\ Room
    /\ \E c \in Channels : Subscribe({c}, stack)

PageUnsubscribes ==
    /\ From({"close"}) /\ Room
    /\ \E c \in Channels : DestroyChannel(c, stack)

PageDestroys == From({"refused"}) /\ Destroy(stack)
PageUnloads  == Idle /\ Unload(stack)

PageReturns ==
    /\ \E h \in Hooks : Step(h)
    /\ stack' = Tail(stack)
    /\ UNCHANGED <<selfVars, linkVars, wireVars>>

Page == PageEmits \/ PageSubscribes \/ PageUnsubscribes \/ PageDestroys \/ PageUnloads \/ PageReturns

\* The constructor, with the autoConnect of the factory.
Init ==
    /\ active = TRUE /\ state = "connecting" /\ ws = "connecting"
    /\ auth = FALSE /\ token \in BOOLEAN
    /\ preparing = FALSE /\ tried = FALSE /\ retry = "none" /\ code = 0
    /\ up = <<>> /\ down = <<>> /\ peer = Stranger
    /\ buffer = <<>> /\ map = <<>> /\ asked = {}
    /\ chan = [c \in Channels |-> NoChannel]
    /\ stack = <<>>

Next == Library \/ Browser \/ Peer \/ Page

Spec == Init /\ [][Next]_vars

-----------------------------------------------------------------------------
(***************************************************************************)
(* What the client has to keep.                                            *)
(***************************************************************************)

\* Every variable has its type (the constructors of SCClientSocket and SCTransport).
TypeOK ==
    /\ active \in BOOLEAN /\ auth \in BOOLEAN /\ token \in BOOLEAN
    /\ preparing \in BOOLEAN /\ tried \in BOOLEAN
    /\ state \in {"closed", "connecting", "open"}
    /\ retry \in {"none", "now", "later"}
    /\ code \in Nat
    /\ ws \in {"connecting", "open", "closing", "gone"}
    /\ up \in Seq(Messages) /\ down \in Seq(Messages)
    /\ peer \in [authed : BOOLEAN, subs : SUBSET Channels]
    /\ buffer \in Seq(Calls \cup Casts)
    /\ map \in Seq(Entries)
    /\ asked \subseteq Calls
    /\ chan \in [Channels -> [st : {"none", "unsubscribed", "pending", "subscribed"}, cid : 0 .. MaxCid,
                              torn : BOOLEAN]]
    /\ stack \in Seq(Frames)

Places(e) == Cardinality({i \in DOMAIN buffer : buffer[i] = e})
             + Cardinality({i \in DOMAIN map : map[i].at = e})
             + Cardinality({i \in DOMAIN stack : stack[i].do = "fail" /\ stack[i].at = e})

\* A call whose callback was not called yet is in exactly one place from which it
\* will be: the emit buffer, the callback map, or the loop that rejects what a
\* closed transport had pending (_flushEmitBuffer, emitObject and both
\* _abortAllPendingEventsDueToBadConnection hand it over).
CallsHeld == \A e \in asked : Places(e) = 1

\* A callback is called once: while it is being called, the call is not held any
\* more, or not as one that has a callback (delete eventObject.callback).
CalledOnce ==
    \A i \in DOMAIN stack : stack[i].do \in {"answered", "refused"} =>
        /\ stack[i].at \notin asked
        /\ \A j \in DOMAIN stack : j # i => ~ (stack[j].do \in {"answered", "refused"} /\ stack[j].at = stack[i].at)

\* Between tasks, _pendingSubscriptionCid of a channel names a request whose answer
\* is still awaited, and an open client has such a request for every pending channel
\* ("We can only ever have one pending subscribe action at any given time on a
\* channel", _trySubscribe).  The assignment after a send that closed the transport
\* breaks it until the next close: the channel waits for an answer nobody gives.
RequestsHeld ==
    Idle => \A c \in {d \in Channels : ~ chan[d].torn} :
        /\ chan[c].cid # 0 => [cid |-> chan[c].cid, at |-> c] \in Elems(map)
        /\ state = "open" /\ chan[c].st = "pending" => chan[c].cid # 0

\* With nothing under way the server delivers exactly the channels the client
\* counts as subscribed: every subscribe, unsubscribe, rejection and reconnect has
\* left both sides with the same record.
Agreement ==
    Idle /\ state = "open" /\ ws = "open" /\ up = <<>> /\ down = <<>> =>
        peer.subs = {c \in Channels : chan[c].st = "subscribed"}

\* A client that was not destroyed and lost its connection comes back: it is
\* connecting, or its timer is armed, unless the close was a permanent one
\* (_onSCClose, _tryReconnect).
ComesBack ==
    Idle /\ active /\ state = "closed" => retry # "none" \/ code = 1000 \/ code >= 4500

\* A WebSocket that the client gave up without closing it (an exception in the
\* loop that rejects pending calls skips socket.close) has at least told the
\* server, which closes it.
Farewell ==
    Idle /\ state = "closed" /\ ws = "open" =>
        \E m \in Elems(up) : m.ev = "disconnect"

\* A destroyed client never opens another connection, although timers and late
\* answers still call into it (connect() refuses).
DestroyedStays == [][~ active => ~ active' /\ (state = "closed" => state' = "closed")]_vars

=============================================================================
