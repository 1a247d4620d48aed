----------------------------- MODULE WidgetPage -----------------------------
(* The visitor's chat widget (customjs-widget.js) on the client library. *)
EXTENDS LoginPage

CONSTANT Chat   \* chanelName

VARIABLES
    sample,     \* sampleChannel !== null
    watchers,   \* the listeners that connectVisitor has put on the channel
    listening   \* the listeners on ee, and the long chat_message_sinterval with them

widgetVars == <<sample, watchers, listening>>
allVars    == <<vars, loginVars, widgetVars>>

WidgetInit == LoginInit /\ sample = FALSE /\ watchers = 0 /\ listening = FALSE

ConnectVisitor_OncePerPage ==
    /\ Joining
    /\ sample' = TRUE
    /\ listening' = (listening \/ ~ sample)
    /\ watchers' = IF sample THEN watchers ELSE watchers + 1
    /\ IF sample THEN stack' = Tail(stack) /\ UNCHANGED <<selfVars, linkVars, wireVars>>
       ELSE Subscribe({Chat}, Tail(stack))

ConnectVisitor ==
    /\ Joining
    /\ sample' = TRUE /\ listening' = TRUE
    /\ watchers' = watchers + 1
    /\ Subscribe({Chat}, Tail(stack))

OnClose_KeepsChannel ==
    /\ Step("close")
    /\ listening' = FALSE
    /\ stack' = Tail(stack)
    /\ UNCHANGED <<selfVars, linkVars, wireVars, loginVars, sample, watchers>>

OnClose_KeepsInterval ==
    /\ Step("close")
    /\ IF sample THEN DestroyChannel(Chat, Tail(stack)) /\ watchers' = 0
       ELSE /\ stack' = Tail(stack)
            /\ UNCHANGED <<selfVars, linkVars, wireVars, watchers>>
    /\ UNCHANGED <<loginVars, sample, listening>>

OnClose_OneListenerLess ==
    /\ Step("close")
    /\ listening' = FALSE
    /\ IF sample THEN DestroyChannel(Chat, Tail(stack)) /\ watchers' = watchers - 1
       ELSE /\ stack' = Tail(stack)
            /\ UNCHANGED <<selfVars, linkVars, wireVars, watchers>>
    /\ UNCHANGED <<loginVars, sample>>

\* 'close': destroy the channel, remove the listeners, poll as before.
OnClose ==
    /\ Step("close")
    /\ listening' = FALSE
    /\ IF sample THEN DestroyChannel(Chat, Tail(stack)) /\ watchers' = 0
       ELSE /\ stack' = Tail(stack)
            /\ UNCHANGED <<selfVars, linkVars, wireVars, watchers>>
    /\ UNCHANGED <<loginVars, sample>>

\* The listeners on the channel publish vi_online on 'subscribe' and, to answer an
\* operator, on 'vo'; other messages publish nothing.
Announce ==
    /\ \/ \E e \in Casts : watchers > 0 /\ Room /\ Unused(e) /\ Emit(e, Tail(stack))
       \/ /\ Step("message") \/ watchers = 0 \/ ~ Room \/ \A e \in Casts : ~ Unused(e)
          /\ stack' = Tail(stack)
          /\ UNCHANGED <<selfVars, linkVars, wireVars>>
    /\ UNCHANGED <<loginVars, widgetVars>>

OnSubscribe == Step("subscribe") /\ Announce
OnMessage   == Step("message") /\ Announce

\* visitorTyping, visitorTypingStopped, messageSend and messageSendError of ee.
VisitorTypes ==
    /\ Idle /\ listening /\ Room
    /\ \E e \in Casts : Unused(e) /\ Emit(e, <<>>)
    /\ UNCHANGED <<loginVars, widgetVars>>

EndedChat == Idle /\ listening /\ Destroy(<<>>) /\ UNCHANGED <<loginVars, widgetVars>>

Login  == LoginStep /\ UNCHANGED widgetVars
Widget == ConnectVisitor \/ OnClose \/ OnSubscribe \/ OnMessage \/ VisitorTypes \/ EndedChat

WidgetNext ==
    \/ Login \/ Widget
    \/ (Library \/ Browser \/ Peer) /\ UNCHANGED <<loginVars, widgetVars>>

WidgetSpec == WidgetInit /\ [][WidgetNext]_allVars

\* A task that runs comes to its end, the server answers, and the event loop takes
\* every kind of task in turn.
Running ==
    \/ ConnectVisitor \/ OnClose \/ OnSubscribe \/ OnMessage
    \/ LoginHandlers /\ UNCHANGED widgetVars
    \/ Library /\ UNCHANGED <<loginVars, widgetVars>>
Answers  == Answering /\ UNCHANGED <<loginVars, widgetVars>>
Receives == Receiving /\ UNCHANGED <<loginVars, widgetVars>>
Posted   == PostAnswered /\ UNCHANGED widgetVars

-----------------------------------------------------------------------------
\* The variables of the client and of the page have their types.
WidgetTypeOK ==
    LoginTypeOK /\ sample \in BOOLEAN /\ listening \in BOOLEAN /\ watchers \in Nat

\* The page polls for messages less often, and tells the operator what the visitor
\* types, only while the channel that replaces the polling is there: connected, and
\* subscribed or about to be (connectVisitor sets confLH.chat_message_sinterval, the
\* 'close' handler resets it).  Two logins under way at once can break it: the callback
\* of the first to time out destroys the client, an exception in its abort loop leaves
\* the second in the callback map, and its answer calls connectVisitor after the close.
SlowOnlyWhenJoined ==
    Idle /\ listening /\ overlap = "none" =>
        state = "open" /\ chan[Chat].st \in {"pending", "subscribed"}

\* Every message on the channel is handled once, unless 'connect' came again while
\* the login of an earlier one was not settled: neither a reconnect nor the login
\* after 'deauthenticate' adds a second listener to a channel that has one.
HandledOnce == watchers > 1 => overlap = "join"

\* The page has joined: what the chain 'connect', $.post, login, connectVisitor comes to.
Joined == listening /\ watchers > 0

=============================================================================
