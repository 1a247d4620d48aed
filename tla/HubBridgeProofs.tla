-------------------------- MODULE HubBridgeProofs --------------------------
(***************************************************************************)
(* Theorems about HubBridge, for every set of connections and channels.    *)
(***************************************************************************)
EXTENDS HubBridge, TLAPS

\* The actions are expanded to assignments of reader, and readers are compared
\* through these constructors.
USE DEF Rest, Step, At

---------------------------------------------------------------------------
\* The initial state, and every step, is well typed.
LEMMA TypeInit == Init => TypeOK
<1>1. Rest("gone") \in ReaderState
  BY DEF ReaderState, RestSteps
<1> QED
  BY <1>1 DEF Init, TypeOK

LEMMA TypeStep == TypeOK /\ [Next]_vars => TypeOK'
<1> SUFFICES ASSUME TypeOK, [Next]_vars PROVE TypeOK'
  OBVIOUS
<1> USE DEF TypeOK, ReaderState, RestSteps, AddSteps, RemoveSteps, AfterRemove, bridgeVars
<1>1. ASSUME NEW s \in Sockets, Connect(s) PROVE TypeOK'
  BY <1>1 DEF Connect
<1>2. ASSUME NEW s \in Sockets, Disconnect(s) PROVE TypeOK'
  BY <1>2 DEF Disconnect
<1>3. ASSUME NEW s \in Sockets, NEW c \in Channels, Subscribe(s, c) PROVE TypeOK'
  BY <1>3 DEF Subscribe
<1>4. ASSUME NEW s \in Sockets, NEW c \in Channels, Unsubscribe(s, c) PROVE TypeOK'
  BY <1>4 DEF Unsubscribe
<1>5. ASSUME NEW s \in Sockets, NEW c \in Channels, CleanupNext(s, c) PROVE TypeOK'
  BY <1>5 DEF CleanupNext
<1>6. ASSUME NEW s \in Sockets, CleanupDone(s) PROVE TypeOK'
  BY <1>6 DEF CleanupDone
<1>7. ASSUME NEW s \in Sockets, NEW c \in Channels, HubAdd(s, c) PROVE TypeOK'
  BY <1>7 DEF HubAdd
<1>8. ASSUME NEW s \in Sockets, NEW c \in Channels, HubRemove(s, c) PROVE TypeOK'
  BY <1>8 DEF HubRemove
<1>9. ASSUME NEW s \in Sockets, NEW c \in Channels, MarkSubscribed(s, c) PROVE TypeOK'
  BY <1>9 DEF MarkSubscribed
<1>10. ASSUME NEW s \in Sockets, NEW c \in Channels, SendSubscribe(s, c) PROVE TypeOK'
  BY <1>10 DEF SendSubscribe
<1>11. ASSUME NEW s \in Sockets, NEW c \in Channels, MarkUnsubscribed(s, c) PROVE TypeOK'
  BY <1>11 DEF MarkUnsubscribed
<1>12. ASSUME NEW s \in Sockets, NEW c \in Channels, SendUnsubscribe(s, c) PROVE TypeOK'
  BY <1>12 DEF SendUnsubscribe
<1>13. CASE LinkDown
  BY <1>13 DEF LinkDown
<1>14. CASE Reconnect
  BY <1>14 DEF Reconnect
<1>15. CASE UNCHANGED vars
  BY <1>15 DEF vars
<1> QED
  BY <1>1, <1>2, <1>3, <1>4, <1>5, <1>6, <1>7, <1>8, <1>9, <1>10, <1>11, <1>12,
     <1>13, <1>14, <1>15 DEF Next, Operation, Peer

\* The state stays well typed through every operation and every link failure.
THEOREM TypeCorrect == Spec => []TypeOK
  BY TypeInit, TypeStep, PTL DEF Spec

---------------------------------------------------------------------------
(***************************************************************************)
(* The inductive invariant.  SubsMatchHub speaks of readers at rest only,  *)
(* so ReaderInv and MemberInv say what a reader inside an operation still  *)
(* owes the hub.  UnracedAgreement speaks of channels without a hook in    *)
(* flight, so Serving and Drained say how far a hook has got.              *)
(***************************************************************************)

\* What a reader holds at each of its steps.
ReaderInv ==
    \A s \in Sockets :
        /\ s \in leaving => subs[s] = {} /\ reader[s].at \in RemoveSteps \cup {"cleanup"}
        /\ s \notin leaving => todo[s] = {} /\ reader[s].at # "cleanup"
        /\ reader[s].at = "gone" => subs[s] = {}
        /\ reader[s].at \in AddSteps => reader[s].ch \in subs[s]
        /\ reader[s].at = "hubRemove" => reader[s].ch \notin subs[s] \cup todo[s]

\* Socket s is on channel c of the hub, or about to be taken off it.
Owes(s, c) == c \in subs[s] \cup todo[s] \/ reader[s] = Step("hubRemove", c)

MemberInv ==
    \A s \in Sockets, c \in Channels :
        reader[s] # Step("hubAdd", c) => (s \in hub[c] <=> Owes(s, c))

\* Redis serves what go-redis recorded, on any connection.
LinkInv == linkUp => served = recorded

\* An unraced channel with subscribers: the hook of the last round has returned,
\* and the hook of this round has got as far as its reader.
Serving(c) ==
    /\ LastHooks(c) = {}
    /\ ReadersAt("hookFirst", c) # {} => c \notin subscribed
    /\ ReadersAt("sendSubscribe", c) # {} => c \in subscribed
    /\ FirstHooks(c) = {} => c \in subscribed /\ c \in recorded

\* An unraced channel without subscribers: one hook at most is taking it down.
Drained(c) ==
    /\ \A s, t \in LastHooks(c) : s = t
    /\ ReadersAt("hookLast", c) # {} => c \in subscribed /\ c \in recorded
    /\ ReadersAt("sendUnsubscribe", c) # {} => c \notin subscribed
    /\ LastHooks(c) = {} => c \notin recorded

ChannelInv(c) ==
    /\ \A s, t \in FirstHooks(c) : s = t
    /\ c \in subscribed => hub[c] # {} \/ ReadersAt("hookLast", c) # {}
    /\ c \notin raced /\ hub[c] # {} => Serving(c)
    /\ c \notin raced /\ hub[c] = {} => Drained(c)

HubInv == ReaderInv /\ MemberInv
RedisInv == LinkInv /\ \A c \in Channels : ChannelInv(c)

\* A reader in the first-subscriber hook of a channel is in the hub itself, so the
\* channel cannot drain under its hook.
LEMMA FirstHookHoldsChannel ==
  ASSUME TypeOK, HubInv, NEW c \in Channels, NEW s \in FirstHooks(c)
  PROVE  s \in Sockets /\ s \in hub[c]
  BY DEF TypeOK, HubInv, ReaderInv, MemberInv, Owes, FirstHooks, ReadersAt, AddSteps

\* The hub and the sockets' own maps: every step keeps them in agreement.
LEMMA HubStep == TypeOK /\ HubInv /\ [Next]_vars => HubInv'
<1> SUFFICES ASSUME TypeOK, HubInv, [Next]_vars PROVE HubInv'
  OBVIOUS
<1> USE NoChannelAssumption DEF HubInv, ReaderInv, MemberInv, Owes, TypeOK, ReaderState,
        RestSteps, AddSteps, RemoveSteps, AfterRemove, bridgeVars
<1>1. ASSUME NEW s \in Sockets, Connect(s) PROVE HubInv'
  BY <1>1 DEF Connect
<1>2. ASSUME NEW s \in Sockets, Disconnect(s) PROVE HubInv'
  BY <1>2 DEF Disconnect
<1>3. ASSUME NEW s \in Sockets, NEW c \in Channels, Subscribe(s, c) PROVE HubInv'
  BY <1>3 DEF Subscribe
<1>4. ASSUME NEW s \in Sockets, NEW c \in Channels, Unsubscribe(s, c) PROVE HubInv'
  BY <1>4 DEF Unsubscribe
<1>5. ASSUME NEW s \in Sockets, NEW c \in Channels, CleanupNext(s, c) PROVE HubInv'
  BY <1>5 DEF CleanupNext
<1>6. ASSUME NEW s \in Sockets, CleanupDone(s) PROVE HubInv'
  BY <1>6 DEF CleanupDone
<1>7. ASSUME NEW s \in Sockets, NEW c \in Channels, HubAdd(s, c) PROVE HubInv'
  BY <1>7 DEF HubAdd
<1>8. ASSUME NEW s \in Sockets, NEW c \in Channels, HubRemove(s, c) PROVE HubInv'
  BY <1>8 DEF HubRemove
<1>9. ASSUME NEW s \in Sockets, NEW c \in Channels, MarkSubscribed(s, c) PROVE HubInv'
  BY <1>9 DEF MarkSubscribed
<1>10. ASSUME NEW s \in Sockets, NEW c \in Channels, SendSubscribe(s, c) PROVE HubInv'
  BY <1>10 DEF SendSubscribe
<1>11. ASSUME NEW s \in Sockets, NEW c \in Channels, MarkUnsubscribed(s, c) PROVE HubInv'
  BY <1>11 DEF MarkUnsubscribed
<1>12. ASSUME NEW s \in Sockets, NEW c \in Channels, SendUnsubscribe(s, c) PROVE HubInv'
  BY <1>12 DEF SendUnsubscribe
<1>13. CASE LinkDown
  BY <1>13 DEF LinkDown
<1>14. CASE Reconnect
  BY <1>14 DEF Reconnect
<1>15. CASE UNCHANGED vars
  BY <1>15 DEF vars
<1> QED
  BY <1>1, <1>2, <1>3, <1>4, <1>5, <1>6, <1>7, <1>8, <1>9, <1>10, <1>11, <1>12,
     <1>13, <1>14, <1>15 DEF Next, Operation, Peer

\* Outside the hooks a step changes neither the hub nor the bridge of a channel.
Untouched(c) ==
    /\ hub'[c] = hub[c]
    /\ c \in subscribed' <=> c \in subscribed
    /\ c \in recorded' <=> c \in recorded
    /\ c \in raced' <=> c \in raced
    /\ \A at \in {"hookFirst", "sendSubscribe", "hookLast", "sendUnsubscribe"} :
         ReadersAt(at, c)' = ReadersAt(at, c)

LEMMA UntouchedKeeps ==
  ASSUME NEW c \in Channels, ChannelInv(c), Untouched(c) PROVE ChannelInv(c)'
  BY DEF ChannelInv, Untouched, Serving, Drained, FirstHooks, LastHooks


\* The steps outside the hooks leave every channel untouched.
LEMMA QuietStep ==
  ASSUME TypeOK, NEW c \in Channels, NEW s \in Sockets,
         \/ Connect(s) \/ Disconnect(s) \/ CleanupDone(s)
         \/ \E d \in Channels : Subscribe(s, d) \/ Unsubscribe(s, d) \/ CleanupNext(s, d)
  PROVE  Untouched(c)
<1> USE DEF Untouched, ReadersAt, TypeOK, bridgeVars
<1>1. CASE Connect(s)
  BY <1>1 DEF Connect
<1>2. CASE Disconnect(s)
  BY <1>2 DEF Disconnect
<1>3. ASSUME NEW d \in Channels, Subscribe(s, d) PROVE Untouched(c)
  BY <1>3 DEF Subscribe
<1>4. ASSUME NEW d \in Channels, Unsubscribe(s, d) PROVE Untouched(c)
  BY <1>4 DEF Unsubscribe
<1>5. ASSUME NEW d \in Channels, CleanupNext(s, d) PROVE Untouched(c)
  BY <1>5 DEF CleanupNext
<1>6. CASE CleanupDone(s)
  BY <1>6 DEF CleanupDone
<1> QED
  BY <1>1, <1>2, <1>3, <1>4, <1>5, <1>6

\* A step of a hook on one channel leaves the others untouched.
LEMMA OtherChannel ==
  ASSUME TypeOK, NEW c \in Channels, NEW d \in Channels, c # d, NEW s \in Sockets,
         \/ HubAdd(s, d) \/ MarkSubscribed(s, d) \/ SendSubscribe(s, d)
         \/ HubRemove(s, d) \/ MarkUnsubscribed(s, d) \/ SendUnsubscribe(s, d)
  PROVE  Untouched(c)
<1> USE NoChannelAssumption DEF Untouched, ReadersAt, TypeOK, AfterRemove, bridgeVars
<1>1. CASE HubAdd(s, d)
  <2>1. CASE hub[d] = {}
    BY <1>1, <2>1 DEF HubAdd
  <2>2. CASE hub[d] # {}
    BY <1>1, <2>2 DEF HubAdd
  <2> QED
    BY <2>1, <2>2
<1>2. CASE HubRemove(s, d)
  <2>1. CASE hub[d] = {s}
    <3>1. reader' = [reader EXCEPT ![s] = Step("hookLast", d)] /\ reader[s] = Step("hubRemove", d)
      BY <1>2, <2>1 DEF HubRemove
    <3>2. \A at \in {"hookFirst", "sendSubscribe", "hookLast", "sendUnsubscribe"} :
            ReadersAt(at, c)' = ReadersAt(at, c)
      BY <3>1
    <3> QED
      BY <1>2, <3>2 DEF HubRemove
  <2>2. CASE hub[d] # {s}
    BY <1>2, <2>2 DEF HubRemove
  <2> QED
    BY <2>1, <2>2
<1>3. CASE MarkSubscribed(s, d)
  <2>1. \A at \in {"hookFirst", "sendSubscribe", "hookLast", "sendUnsubscribe"} :
          ReadersAt(at, c)' = ReadersAt(at, c)
    <3>1. CASE d \in subscribed
      BY <1>3, <3>1 DEF MarkSubscribed
    <3>2. CASE d \notin subscribed
      BY <1>3, <3>2 DEF MarkSubscribed
    <3> QED
      BY <3>1, <3>2
  <2> QED
    BY <1>3, <2>1 DEF MarkSubscribed
<1>4. CASE SendSubscribe(s, d)
  BY <1>4 DEF SendSubscribe
<1>5. CASE MarkUnsubscribed(s, d)
  BY <1>5 DEF MarkUnsubscribed
<1>6. CASE SendUnsubscribe(s, d)
  BY <1>6 DEF SendUnsubscribe
<1> QED
  BY <1>1, <1>2, <1>3, <1>4, <1>5, <1>6

LEMMA HubAddKeeps ==
  ASSUME TypeOK, HubInv, NEW c \in Channels, ChannelInv(c), NEW s \in Sockets, HubAdd(s, c)
  PROVE  ChannelInv(c)'
  BY FirstHookHoldsChannel, NoChannelAssumption
     DEF HubAdd, ChannelInv, Serving, Drained, FirstHooks, LastHooks, ReadersAt, TypeOK, AfterRemove, bridgeVars

LEMMA HubRemoveKeeps ==
  ASSUME TypeOK, HubInv, NEW c \in Channels, ChannelInv(c), NEW s \in Sockets, HubRemove(s, c)
  PROVE  ChannelInv(c)'
<1>1. s \in hub[c] /\ hub'[c] = hub[c] \ {s}
  BY DEF HubRemove, HubInv, MemberInv, Owes, TypeOK
<1>2. CASE hub[c] = {s}
  <2>1. FirstHooks(c) = {}
    BY <1>2, FirstHookHoldsChannel DEF HubRemove, FirstHooks, ReadersAt
  <2>2. hub'[c] = {} /\ reader' = [reader EXCEPT ![s] = Step("hookLast", c)]
    BY <1>1, <1>2 DEF HubRemove
  <2>3. /\ FirstHooks(c)' = {}
        /\ ReadersAt("hookLast", c)' = ReadersAt("hookLast", c) \cup {s}
        /\ ReadersAt("sendUnsubscribe", c)' = ReadersAt("sendUnsubscribe", c)
    BY <2>1, <2>2 DEF HubRemove, FirstHooks, ReadersAt, TypeOK
  <2> QED
    BY <1>2, <2>1, <2>2, <2>3
       DEF HubRemove, ChannelInv, Serving, Drained, LastHooks, bridgeVars
<1>3. CASE hub[c] # {s}
  <2>1. hub[c] # {} /\ hub'[c] # {}
    BY <1>1, <1>3
  <2>2. \A at \in {"hookFirst", "sendSubscribe", "hookLast", "sendUnsubscribe"} :
          ReadersAt(at, c)' = ReadersAt(at, c)
    BY <1>3, NoChannelAssumption DEF HubRemove, AfterRemove, ReadersAt, TypeOK
  <2> QED
    BY <2>1, <2>2 DEF HubRemove, ChannelInv, Serving, FirstHooks, LastHooks, bridgeVars
<1> QED
  BY <1>2, <1>3

LEMMA MarkSubscribedKeeps ==
  ASSUME TypeOK, HubInv, NEW c \in Channels, ChannelInv(c), NEW s \in Sockets, MarkSubscribed(s, c)
  PROVE  ChannelInv(c)'
  BY FirstHookHoldsChannel, NoChannelAssumption
     DEF MarkSubscribed, ChannelInv, Serving, Drained, FirstHooks, LastHooks, ReadersAt, TypeOK, AfterRemove, bridgeVars

LEMMA SendSubscribeKeeps ==
  ASSUME TypeOK, HubInv, NEW c \in Channels, ChannelInv(c), NEW s \in Sockets, SendSubscribe(s, c)
  PROVE  ChannelInv(c)'
  BY FirstHookHoldsChannel, NoChannelAssumption
     DEF SendSubscribe, ChannelInv, Serving, Drained, FirstHooks, LastHooks, ReadersAt, TypeOK, AfterRemove, bridgeVars

LEMMA MarkUnsubscribedKeeps ==
  ASSUME TypeOK, HubInv, NEW c \in Channels, ChannelInv(c), NEW s \in Sockets, MarkUnsubscribed(s, c)
  PROVE  ChannelInv(c)'
  BY FirstHookHoldsChannel, NoChannelAssumption
     DEF MarkUnsubscribed, ChannelInv, Serving, Drained, FirstHooks, LastHooks, ReadersAt, TypeOK, AfterRemove, bridgeVars

LEMMA SendUnsubscribeKeeps ==
  ASSUME TypeOK, HubInv, NEW c \in Channels, ChannelInv(c), NEW s \in Sockets, SendUnsubscribe(s, c)
  PROVE  ChannelInv(c)'
  BY FirstHookHoldsChannel, NoChannelAssumption
     DEF SendUnsubscribe, ChannelInv, Serving, Drained, FirstHooks, LastHooks, ReadersAt, TypeOK, AfterRemove, bridgeVars

LEMMA RedisStep == TypeOK /\ HubInv /\ RedisInv /\ [Next]_vars => RedisInv'
<1> SUFFICES ASSUME TypeOK, HubInv, RedisInv, [Next]_vars PROVE RedisInv'
  OBVIOUS
<1>1. LinkInv'
  <2> USE DEF RedisInv, LinkInv
  <2>1. CASE UNCHANGED <<recorded, served, linkUp>>
    BY <2>1
  <2>2. ASSUME NEW s \in Sockets, NEW c \in Channels, SendSubscribe(s, c) PROVE LinkInv'
    BY <2>2 DEF SendSubscribe
  <2>3. ASSUME NEW s \in Sockets, NEW c \in Channels, SendUnsubscribe(s, c) PROVE LinkInv'
    BY <2>3 DEF SendUnsubscribe
  <2>4. CASE LinkDown \/ Reconnect
    BY <2>4 DEF LinkDown, Reconnect
  <2>5. CASE UNCHANGED vars
    BY <2>1, <2>5 DEF vars
  <2>6. ASSUME NEW s \in Sockets, Peer(s) PROVE LinkInv'
    BY <2>1, <2>6 DEF Peer, bridgeVars, Connect, Disconnect, Subscribe, Unsubscribe
  <2>7. ASSUME NEW s \in Sockets, Operation(s) PROVE LinkInv'
    BY <2>1, <2>2, <2>3, <2>7 DEF Operation, bridgeVars, CleanupNext, CleanupDone, HubAdd,
       HubRemove, MarkSubscribed, MarkUnsubscribed
  <2> QED
    BY <2>4, <2>5, <2>6, <2>7 DEF Next
<1>2. ASSUME NEW c \in Channels PROVE ChannelInv(c)'
  <2> USE DEF RedisInv
  <2>1. CASE Untouched(c)
    BY <2>1, UntouchedKeeps
  <2>2. CASE \E s \in Sockets : Operation(s) \/ Peer(s)
    BY <2>1, <2>2, QuietStep, OtherChannel, HubAddKeeps, HubRemoveKeeps, MarkSubscribedKeeps,
       SendSubscribeKeeps, MarkUnsubscribedKeeps, SendUnsubscribeKeeps DEF Operation, Peer
  <2>3. CASE LinkDown \/ Reconnect \/ UNCHANGED vars
    BY <2>1, <2>3 DEF LinkDown, Reconnect, vars, Untouched, ReadersAt
  <2> QED
    BY <2>2, <2>3 DEF Next
<1> QED
  BY <1>1, <1>2 DEF RedisInv

LEMMA InvInit == Init => HubInv /\ RedisInv
  BY DEF Init, HubInv, ReaderInv, MemberInv, Owes, RedisInv, LinkInv, ChannelInv, Drained,
         FirstHooks, LastHooks, ReadersAt, AddSteps, RemoveSteps

\* TypeOK, HubInv and RedisInv together are inductive.
THEOREM Inductive == Spec => [](TypeOK /\ HubInv /\ RedisInv)
<1>1. TypeOK /\ HubInv /\ RedisInv /\ [Next]_vars => (TypeOK /\ HubInv /\ RedisInv)'
  BY TypeStep, HubStep, RedisStep
<1> QED
  BY <1>1, TypeInit, InvInit, PTL DEF Spec
---------------------------------------------------------------------------
\* What a socket holds and what the hub has for it never drift apart, and a
\* connection that is gone is left in neither map.
THEOREM SubsAlwaysMatchHub == Spec => []SubsMatchHub
<1>1. TypeOK /\ HubInv => SubsMatchHub
  BY NoChannelAssumption
     DEF HubInv, ReaderInv, MemberInv, Owes, SubsMatchHub, AddSteps, RemoveSteps, TypeOK
<1> QED
  BY <1>1, Inductive, PTL

\* The bridge's own map never keeps a channel whose subscribers have all left.
THEOREM AlwaysForgottenWhenDrained == Spec => []ForgottenWhenDrained
<1>1. TypeOK /\ RedisInv => ForgottenWhenDrained
  BY DEF TypeOK, RedisInv, ChannelInv, ForgottenWhenDrained
<1> QED
  BY <1>1, Inductive, PTL

\* Without an overlap of a first- and a last-subscriber hook on the channel, hub,
\* bridge, go-redis and Redis agree whenever no hook is running.
THEOREM AlwaysUnracedAgreement == Spec => []UnracedAgreement
<1>1. TypeOK /\ RedisInv => UnracedAgreement
  BY DEF TypeOK, RedisInv, LinkInv, ChannelInv, Serving, Drained, UnracedAgreement
<1> QED
  BY <1>1, Inductive, PTL
===========================================================================
