---------------------------- MODULE ServerProofs ----------------------------
(***************************************************************************)
(* Theorems about Server and the connections it serves, for every set of   *)
(* connections, channels and credentials, every channel limit, and both    *)
(* values of TRACK_VISITORS and STRICT_CHANNEL_BINDING.                    *)
(***************************************************************************)
EXTENDS Server, FiniteSetTheorems, TLAPS

---------------------------------------------------------------------------
\* The state newServer() and main() start from is well typed.
LEMMA TypeInit == Init => TypeOK
  BY DEF Init, SessionInit, TypeOK, SessionTypeOK, Phases, MainSteps

\* A signed login makes a token without a chat.
LEMMA IssuedType == ASSUME NEW cred \in Credentials PROVE Issued(cred) \in Token
  BY SessionAssumption DEF Issued, Token

\* Chats and login channels name subjects.
LEMMA SubjectType ==
  /\ \A c \in ChatChannels : Chat(c) \in Subject
  /\ \A v \in Channels : Ous(v) \in Subject
  BY DEF Chat, Ous, Subject

\* publishPresence(.., true, ..) keeps the three sets of subjects well typed.
LEMMA AnnounceType ==
  ASSUME SessionTypeOK, NEW s \in Sockets, NEW x \in Subject, Announce(s, x)
  PROVE  /\ online' \subseteq Subject
         /\ shown' \in [Sockets -> SUBSET Subject]
         /\ stray' \subseteq Subject
  BY DEF SessionTypeOK, Announce

\* A handshake, a login or a logout keeps the state of the connections well typed.
LEMMA SetTokenType ==
  ASSUME SessionTypeOK, NEW s \in Sockets, NEW t \in Token \cup {NoToken}, SetToken(s, t),
         handshaken' \subseteq Sockets
  PROVE  SessionTypeOK'
<1>1. (IF t = NoToken THEN {} ELSE ChatsOf(t)) \subseteq ChatChannels
  BY SessionAssumption DEF ChatsOf, Token
<1> QED
  BY <1>1 DEF SetToken, SessionTypeOK

\* So does handleSubscribe, which may write the chat into the token.
LEMMA SubscribeType ==
  ASSUME SessionTypeOK, NEW s \in Sockets, NEW c \in Channels, Subscribe(s, c)
  PROVE  SessionTypeOK'
<1>1. token[s] \in Token
  BY DEF Subscribe, Admitted, SessionTypeOK
<1>2. subs' \in [Sockets -> SUBSET Channels] /\ hub' \in [Channels -> SUBSET Sockets]
  BY DEF Subscribe, SessionTypeOK
<1>3. token' \in [Sockets -> Token \cup {NoToken}]
  <2>1. ASSUME ChatRequest(s, c) PROVE [token[s] EXCEPT !.chat = c] \in Token
    BY <1>1, <2>1 DEF ChatRequest, Token
  <2> QED
    BY <1>1, <2>1 DEF Subscribe, SessionTypeOK
<1>4. /\ online' \subseteq Subject
      /\ shown' \in [Sockets -> SUBSET Subject]
      /\ stray' \subseteq Subject
  <2>1. CASE ChatRequest(s, c)
    BY <2>1, SubjectType, AnnounceType DEF Subscribe, ChatRequest
  <2>2. CASE ~ChatRequest(s, c) /\ token[s].visitor /\ TrackVisitors
    <3>1. token[s].chan \in Channels
      BY <1>1 DEF Token
    <3> QED
      BY <2>2, <3>1, SubjectType, AnnounceType DEF Subscribe
  <2>3. CASE ~ChatRequest(s, c) /\ ~(token[s].visitor /\ TrackVisitors)
    BY <2>3 DEF Subscribe, SessionTypeOK
  <2> QED
    BY <2>1, <2>2, <2>3
<1> QED
  BY <1>2, <1>3, <1>4 DEF Subscribe, SessionTypeOK

\* The tokens a request can set: none, or one whose ChanelNameChat is not set.
FreshTokens == {t \in Token : t.chat = NoChannel} \cup {NoToken}

\* A step of a connection, as its own variables see it.
ConnectionStep(s) ==
    \/ Accept(s) \/ EndRun(s) \/ LeaveHub(s) \/ Retract(s) \/ Finish(s)
    \/ \E t \in FreshTokens : SetToken(s, t)
    \/ \E c \in Channels : Subscribe(s, c) \/ Unsubscribe(s, c)

\* The token of a login is one of these.
LEMMA IssuedFresh == ASSUME NEW cred \in Credentials PROVE Issued(cred) \in FreshTokens
  BY IssuedType DEF FreshTokens, Issued

\* Every step is one connection's, or main()'s, who touches none of them.
LEMMA StepCases ==
  ASSUME [Next]_vars
  PROVE  (\E s \in Sockets : ConnectionStep(s)) \/ UNCHANGED sessionVars
<1>1. CASE \E s \in Sockets : AcceptConnection(s)
  BY <1>1 DEF AcceptConnection, ConnectionStep
<1>2. CASE \E s \in Sockets : CleaningUp(s)
  BY <1>2 DEF CleaningUp, Cleanup, ConnectionStep
<1>3. ASSUME NEW s \in Sockets, Running(s) PROVE ConnectionStep(s)
  <2>1. CASE EndRun(s)
    BY <2>1 DEF ConnectionStep
  <2>2. CASE \E c \in Channels : Subscribe(s, c) \/ Unsubscribe(s, c)
    BY <2>2 DEF ConnectionStep
  <2>3. CASE \E t \in FreshTokens : SetToken(s, t)
    BY <2>3 DEF ConnectionStep
  <2>4. ASSUME NEW cred \in Credentials, Handshake(s, cred) \/ Login(s, cred)
        PROVE  \E t \in FreshTokens : SetToken(s, t)
    BY <2>4, IssuedFresh DEF Handshake, Login
  <2>5. CASE AnonymousHandshake(s) \/ Logout(s)
    BY <2>3, <2>5 DEF AnonymousHandshake, Logout, FreshTokens
  <2> QED
    BY <1>3, <2>1, <2>2, <2>3, <2>4, <2>5 DEF Running, Request
<1>4. CASE Shutdown \/ UNCHANGED vars
  BY <1>4 DEF Shutdown, Terminate, CloseOne, CloseDone, WaitDone, Exit, vars
<1> QED
  BY <1>1, <1>2, <1>3, <1>4 DEF Next

\* What else a step does to the handshaken set.
LEMMA HandshakenType ==
  ASSUME TypeOK, [Next]_vars PROVE handshaken' \subseteq Sockets
<1> USE DEF TypeOK, SessionTypeOK
<1>1. ASSUME NEW s \in Sockets, Running(s) PROVE handshaken' \subseteq Sockets
  BY <1>1 DEF Running, Request, Handshake, AnonymousHandshake, Login, Logout, Subscribe,
     Unsubscribe, EndRun
<1>2. ASSUME NEW s \in Sockets, AcceptConnection(s) \/ CleaningUp(s)
      PROVE  handshaken' \subseteq Sockets
  BY <1>2 DEF AcceptConnection, Accept, CleaningUp, Cleanup, LeaveHub, Retract, Finish
<1>3. CASE Shutdown \/ UNCHANGED vars
  BY <1>3 DEF Shutdown, Terminate, CloseOne, CloseDone, WaitDone, Exit, vars, sessionVars
<1> QED
  BY <1>1, <1>2, <1>3 DEF Next

\* Every step of a connection keeps their state well typed.
LEMMA ConnectionType ==
  ASSUME SessionTypeOK, NEW s \in Sockets, ConnectionStep(s), handshaken' \subseteq Sockets
  PROVE  SessionTypeOK'
<1>1. CASE \E t \in FreshTokens : SetToken(s, t)
  BY <1>1, SetTokenType DEF FreshTokens
<1>2. CASE \E c \in Channels : Subscribe(s, c)
  BY <1>2, SubscribeType
<1>3. CASE \E c \in Channels : Unsubscribe(s, c)
  BY <1>3 DEF SessionTypeOK, Unsubscribe
<1>4. CASE Accept(s)
  BY <1>4 DEF SessionTypeOK, Accept, Phases
<1>5. CASE EndRun(s)
  BY <1>5 DEF SessionTypeOK, EndRun, Phases
<1>6. CASE LeaveHub(s)
  BY <1>6 DEF SessionTypeOK, LeaveHub, Phases
<1>7. CASE Retract(s)
  BY <1>7 DEF SessionTypeOK, Retract, Phases
<1>8. CASE Finish(s)
  BY <1>8 DEF SessionTypeOK, Finish, Phases
<1> QED
  BY <1>1, <1>2, <1>3, <1>4, <1>5, <1>6, <1>7, <1>8 DEF ConnectionStep

\* The variables of main() stay well typed.
LEMMA MainType == TypeOK /\ [Next]_vars =>
                    main' \in MainSteps /\ toClose' \subseteq Sockets /\ overdue' \in BOOLEAN
  BY DEF TypeOK, SessionTypeOK, MainSteps, Next, AcceptConnection, Running, CleaningUp, Shutdown,
     Terminate, CloseOne, CloseDone, WaitDone, Exit, vars, mainVars

\* Every step of the process keeps its state well typed.
LEMMA TypeStep == TypeOK /\ [Next]_vars => TypeOK'
<1> SUFFICES ASSUME TypeOK, [Next]_vars PROVE TypeOK'
  OBVIOUS
<1>1. SessionTypeOK'
  BY StepCases, HandshakenType, ConnectionType DEF TypeOK, SessionTypeOK, sessionVars
<1> QED
  BY <1>1, MainType DEF TypeOK

\* The state of the process and of its connections stays well typed.
THEOREM TypeCorrect == Spec => []TypeOK
  BY TypeInit, TypeStep, PTL DEF Spec
---------------------------------------------------------------------------
(***************************************************************************)
(* The inductive invariants.  HubInv ties the hub to what each connection  *)
(* holds and has proved; ShownInv ties what a connection announced to the  *)
(* ChanelNameChat of its token, which is all its disconnect handler reads. *)
(***************************************************************************)
HubInv ==
    \A s \in Sockets :
        /\ \A c \in Channels : s \in hub[c] <=> c \in subs[s]
        /\ phase[s] \notin {"open", "unregistered"} => subs[s] = {}
        /\ subs[s] \cap ChatChannels \subseteq proved[s]
        /\ token[s] # NoToken => ChatsOf(token[s]) \subseteq proved[s]

LimitInv ==
    \A s \in Sockets : IsFiniteSet(subs[s]) /\ Cardinality(subs[s]) <= ChannelLimit

ShownInv ==
    \A s \in Sockets :
        /\ phase[s] = "gone" => token[s] = NoToken
        /\ phase[s] \notin Live => shown[s] = {}
        /\ shown[s] # {} => token[s] # NoToken /\ token[s].visitor
        /\ phase[s] \in Live /\ token[s] # NoToken /\ token[s].chat # NoChannel =>
             Chat(token[s].chat) \in shown[s]
        /\ \A c \in ChatChannels : Chat(c) \in shown[s] => token[s].chat # NoChannel
        /\ \A v \in Channels : Ous(v) \in shown[s] => v = token[s].chan /\ TrackVisitors

\* The invariants hold before the first connection.
LEMMA InvInit == Init => HubInv /\ LimitInv /\ ShownInv /\ NoGhostVisitor
<1>1. IsFiniteSet({}) /\ Cardinality({}) = 0
  BY FS_EmptySet
<1> QED
  BY <1>1, SessionAssumption DEF Init, SessionInit, HubInv, LimitInv, ShownInv, NoGhostVisitor, Live

\* handleSubscribe admits a visitor to a chat its token opens, and nothing else.
LEMMA AdmittedIsOwn ==
  ASSUME SessionTypeOK, NEW s \in Sockets, NEW c \in ChatChannels, Admitted(s, c)
  PROVE  token[s] # NoToken /\ c \in ChatsOf(token[s])
  BY DEF SessionTypeOK, Admitted, ChatRequest, ChatsOf, Token

\* Every handler that changes Hub.subs changes Socket.subs alike; it admits only chats
\* the token opens, and a token opens only chats that were recorded with it.
LEMMA HubStep ==
  ASSUME SessionTypeOK, HubInv, NEW s \in Sockets, ConnectionStep(s)
  PROVE  HubInv'
<1> USE DEF HubInv, SessionTypeOK
<1>1. ASSUME NEW t \in FreshTokens, SetToken(s, t) PROVE HubInv'
  BY <1>1 DEF SetToken
<1>2. ASSUME NEW c \in Channels, Subscribe(s, c) PROVE HubInv'
  <2>1. c \in ChatChannels => c \in proved[s]
    BY <1>2, AdmittedIsOwn DEF Subscribe
  <2>2. token[s] \in Token /\ \A t \in Sockets : ChatsOf(token'[t]) = ChatsOf(token[t])
    <3>1. token[s] \in Token
      BY <1>2 DEF Subscribe, Admitted
    <3>2. CASE ChatRequest(s, c)
      <4>1. token' = [token EXCEPT ![s].chat = c]
        BY <1>2, <3>2 DEF Subscribe
      <4>2. token'[s].chan = token[s].chan /\ token'[s].visitor = token[s].visitor
        BY <3>1, <4>1 DEF Token
      <4>3. \A t \in Sockets \ {s} : token'[t] = token[t]
        BY <4>1
      <4> QED
        BY <3>1, <4>2, <4>3 DEF ChatsOf
    <3>3. CASE ~ChatRequest(s, c)
      BY <1>2, <3>1, <3>3 DEF Subscribe
    <3> QED
      BY <3>2, <3>3
  <2>3. \A t \in Sockets : token'[t] # NoToken => token[t] # NoToken
    BY <1>2 DEF Subscribe, Admitted
  <2> QED
    BY <1>2, <2>1, <2>2, <2>3 DEF Subscribe
<1>3. ASSUME NEW c \in Channels, Unsubscribe(s, c) PROVE HubInv'
  BY <1>3 DEF Unsubscribe
<1>4. CASE Accept(s)
  BY <1>4 DEF Accept
<1>5. CASE EndRun(s)
  BY <1>5 DEF EndRun
<1>6. CASE LeaveHub(s)
  BY <1>6 DEF LeaveHub
<1>7. CASE Retract(s)
  BY <1>7 DEF Retract
<1>8. CASE Finish(s)
  BY <1>8 DEF Finish
<1> QED
  BY <1>1, <1>2, <1>3, <1>4, <1>5, <1>6, <1>7, <1>8 DEF ConnectionStep

\* handleSubscribe counts before it adds, and does not count a channel twice.
LEMMA LimitStep ==
  ASSUME SessionTypeOK, LimitInv, NEW s \in Sockets, ConnectionStep(s)
  PROVE  LimitInv'
<1> USE DEF LimitInv, SessionTypeOK
<1>1. ASSUME NEW c \in Channels, Subscribe(s, c) PROVE LimitInv'
  <2>1. /\ IsFiniteSet(subs[s] \cup {c})
        /\ Cardinality(subs[s] \cup {c}) <= ChannelLimit
    <3>1. CASE c \in subs[s]
      <4>1. subs[s] \cup {c} = subs[s]
        BY <3>1
      <4> QED
        BY <4>1
    <3>2. CASE c \notin subs[s]
      <4>1. IsFiniteSet(subs[s]) /\ Cardinality(subs[s]) < ChannelLimit
        BY <1>1, <3>2 DEF Subscribe, WithinLimit
      <4>2. Cardinality(subs[s]) \in Nat
        BY <4>1, FS_CardinalityType
      <4>3. /\ IsFiniteSet(subs[s] \cup {c})
            /\ Cardinality(subs[s] \cup {c}) = Cardinality(subs[s]) + 1
        BY <3>2, <4>1, FS_AddElement
      <4> QED
        BY <4>1, <4>2, <4>3, SessionAssumption
    <3> QED
      BY <3>1, <3>2
  <2> QED
    BY <1>1, <2>1 DEF Subscribe
<1>2. ASSUME NEW c \in Channels, Unsubscribe(s, c) PROVE LimitInv'
  <2>1. IsFiniteSet(subs[s] \ {c}) /\ Cardinality(subs[s] \ {c}) <= Cardinality(subs[s])
    BY FS_Subset, FS_CardinalityType
  <2> QED
    BY <1>2, <2>1, FS_CardinalityType, SessionAssumption DEF Unsubscribe
<1>3. CASE LeaveHub(s)
  <2>1. IsFiniteSet({}) /\ Cardinality({}) <= ChannelLimit
    BY FS_EmptySet, SessionAssumption
  <2> QED
    BY <1>3, <2>1 DEF LeaveHub
<1>4. CASE UNCHANGED subs
  BY <1>4
<1> QED
  BY <1>1, <1>2, <1>3, <1>4
     DEF ConnectionStep, SetToken, Accept, EndRun, Retract, Finish

\* Two subjects are equal only if they are of one kind and of one channel.
LEMMA SubjectsDiffer ==
  /\ \A c, d : Chat(c) = Chat(d) => c = d
  /\ \A u, v : Ous(u) = Ous(v) => u = v
  /\ \A c, v : Chat(c) # Ous(v)
  BY DEF Chat, Ous

\* What is announced follows ChanelNameChat: both change in handleSubscribe only, and a
\* new token forgets both.
LEMMA ShownStep ==
  ASSUME SessionTypeOK, ShownInv, NEW s \in Sockets, ConnectionStep(s)
  PROVE  ShownInv'
<1> USE DEF ShownInv, SessionTypeOK, Live
<1>1. ASSUME NEW t \in FreshTokens, SetToken(s, t) PROVE ShownInv'
  BY <1>1 DEF SetToken, FreshTokens
<1>2. ASSUME NEW c \in Channels, Subscribe(s, c) PROVE ShownInv'
  <2>1. token[s] \in Token /\ phase[s] = "open" /\ UNCHANGED phase
    BY <1>2 DEF Subscribe, Admitted
  <2>2. CASE ChatRequest(s, c)
    <3>1. token' = [token EXCEPT ![s].chat = c]
      BY <1>2, <2>2 DEF Subscribe
    <3>2. /\ token'[s] # NoToken
          /\ token'[s].visitor /\ token'[s].chat = c /\ token'[s].chan = token[s].chan
      BY <2>1, <2>2, <3>1, SessionAssumption DEF ChatRequest, Token
    <3>3. \A t \in Sockets \ {s} : token'[t] = token[t] /\ shown'[t] = shown[t]
      BY <1>2, <2>2, <3>1 DEF Subscribe, Announce
    <3>4. shown'[s] = shown[s] \cup {Chat(c)}
      BY <1>2, <2>2 DEF Subscribe, Announce
    <3>5. c # NoChannel
      BY SessionAssumption
    <3> QED
      BY <2>1, <3>2, <3>3, <3>4, <3>5, SubjectsDiffer
  <2>3. CASE ~ChatRequest(s, c) /\ token[s].visitor /\ TrackVisitors
    <3>1. UNCHANGED token
      BY <1>2, <2>3 DEF Subscribe
    <3>2. \A t \in Sockets \ {s} : shown'[t] = shown[t]
      BY <1>2, <2>3 DEF Subscribe, Announce
    <3>3. shown'[s] = shown[s] \cup {Ous(token[s].chan)}
      BY <1>2, <2>3 DEF Subscribe, Announce
    <3>4. /\ token[s].visitor /\ token[s] # NoToken
          /\ ~(\E d \in ChatChannels : Ous(token[s].chan) = Chat(d))
      BY <1>2, <2>3, SubjectsDiffer DEF Subscribe, Admitted
    <3> QED
      BY <2>1, <2>3, <3>1, <3>2, <3>3, <3>4, SubjectsDiffer
  <2>4. CASE ~ChatRequest(s, c) /\ ~(token[s].visitor /\ TrackVisitors)
    BY <1>2, <2>4 DEF Subscribe
  <2> QED
    BY <2>2, <2>3, <2>4
<1>4. ASSUME NEW c \in Channels, Unsubscribe(s, c) PROVE ShownInv'
  BY <1>4 DEF Unsubscribe
<1>5. CASE Accept(s)
  BY <1>5 DEF Accept
<1>6. CASE EndRun(s)
  BY <1>6 DEF EndRun
<1>7. CASE LeaveHub(s)
  BY <1>7 DEF LeaveHub
<1>8. CASE Retract(s)
  BY <1>8 DEF Retract
<1>9. CASE Finish(s)
  BY <1>9 DEF Finish
<1> QED
  BY <1>1, <1>2, <1>4, <1>5, <1>6, <1>7, <1>8, <1>9 DEF ConnectionStep

\* A connection that announced one subject under one token retracts that one.
LEMMA ShownIsRetracted ==
  ASSUME SessionTypeOK, ShownInv PROVE RetractsWhatItShowed
<1> SUFFICES ASSUME NEW s \in Sockets, phase[s] \in Live, NEW x \in shown[s], shown[s] = {x}
             PROVE  Retracted(token[s]) = {x}
  BY DEF RetractsWhatItShowed
<1>1. token[s] \in Token /\ token[s] # NoToken /\ token[s].visitor
  BY DEF ShownInv, SessionTypeOK
<1>2. x \in Subject
  BY DEF SessionTypeOK
<1>3. CASE token[s].chat # NoChannel
  BY <1>1, <1>3 DEF Retracted, ShownInv
<1>4. CASE token[s].chat = NoChannel
  <2>1. \A c \in ChatChannels : x # Chat(c)
    BY <1>4 DEF ShownInv
  <2>2. PICK v \in Channels : x = Ous(v)
    BY <1>2, <2>1 DEF Subject, Chat, Ous
  <2>3. v = token[s].chan /\ TrackVisitors
    BY <2>2 DEF ShownInv
  <2> QED
    BY <1>1, <1>4, <2>2, <2>3 DEF Retracted
<1> QED
  BY <1>3, <1>4

\* An announcement shows its subject on behalf of a live connection, and makes stray
\* what the connection had announced before.
LEMMA AnnounceKeepsNoGhost ==
  ASSUME SessionTypeOK, NoGhostVisitor, NEW s \in Sockets, NEW x \in Subject, Announce(s, x),
         phase[s] = "open", UNCHANGED phase
  PROVE  NoGhostVisitor'
<1> SUFFICES ASSUME NEW y \in online' \ stray'
             PROVE  \E t \in Sockets : phase[t] \in Live /\ shown'[t] = {y}
  BY DEF NoGhostVisitor
<1>1. CASE y = x
  BY <1>1 DEF Announce, Live, SessionTypeOK
<1>2. CASE y # x
  <2>1. PICK t \in Sockets : phase[t] \in Live /\ shown[t] = {y}
    BY <1>2 DEF Announce, NoGhostVisitor
  <2>2. t # s
    BY <1>2, <2>1 DEF Announce
  <2> QED
    BY <2>1, <2>2 DEF Announce, SessionTypeOK
<1> QED
  BY <1>1, <1>2

\* Every step keeps the visitors online that a live connection answers for, and no other.
LEMMA NoGhostStep ==
  ASSUME SessionTypeOK, ShownInv, NoGhostVisitor, NEW s \in Sockets, ConnectionStep(s)
  PROVE  NoGhostVisitor'
<1> USE DEF NoGhostVisitor, SessionTypeOK
<1>1. ASSUME NEW t \in FreshTokens, SetToken(s, t) PROVE NoGhostVisitor'
  BY SMTT(30), <1>1 DEF SetToken
<1>2. ASSUME NEW c \in Channels, Subscribe(s, c) PROVE NoGhostVisitor'
  <2>1. CASE ChatRequest(s, c)
    BY <1>2, <2>1, SubjectType, AnnounceKeepsNoGhost DEF Subscribe, ChatRequest
  <2>2. CASE ~ChatRequest(s, c) /\ token[s].visitor /\ TrackVisitors
    <3>1. token[s].chan \in Channels
      BY <1>2 DEF Subscribe, Admitted, Token
    <3> QED
      BY <1>2, <2>2, <3>1, SubjectType, AnnounceKeepsNoGhost DEF Subscribe
  <2>3. CASE ~ChatRequest(s, c) /\ ~(token[s].visitor /\ TrackVisitors)
    BY <1>2, <2>3 DEF Subscribe
  <2> QED
    BY <2>1, <2>2, <2>3
<1>3. ASSUME NEW c \in Channels, Unsubscribe(s, c) PROVE NoGhostVisitor'
  BY <1>3 DEF Unsubscribe
<1>4. CASE Accept(s) \/ EndRun(s) \/ LeaveHub(s)
  BY <1>4 DEF Accept, EndRun, LeaveHub, Live
<1>5. CASE Finish(s)
  BY <1>5 DEF Finish, Live
<1>6. CASE Retract(s)
  <2> SUFFICES ASSUME NEW y \in online' \ stray'
               PROVE  \E t \in Sockets : phase'[t] \in Live /\ shown'[t] = {y}
    OBVIOUS
  <2>1. y \in online \ stray /\ y \notin Retracted(token[s])
    BY <1>6 DEF Retract
  <2>2. PICK t \in Sockets : phase[t] \in Live /\ shown[t] = {y}
    BY <2>1
  <2>3. t # s
    BY ZenonT(60), <2>1, <2>2, ShownIsRetracted DEF RetractsWhatItShowed
  <2> QED
    BY <1>6, <2>2, <2>3 DEF Retract
<1> QED
  BY <1>1, <1>2, <1>3, <1>4, <1>5, <1>6 DEF ConnectionStep

\* Every step of the process keeps the four invariants.
LEMMA InvStep ==
  ASSUME TypeOK, HubInv, LimitInv, ShownInv, NoGhostVisitor, [Next]_vars
  PROVE  HubInv' /\ LimitInv' /\ ShownInv' /\ NoGhostVisitor'
<1>1. SessionTypeOK
  BY DEF TypeOK
<1>2. ASSUME NEW s \in Sockets, ConnectionStep(s)
      PROVE  HubInv' /\ LimitInv' /\ ShownInv' /\ NoGhostVisitor'
  BY <1>1, <1>2, HubStep, LimitStep, ShownStep, NoGhostStep
<1>3. CASE UNCHANGED sessionVars
  BY <1>3 DEF sessionVars, HubInv, LimitInv, ShownInv, NoGhostVisitor
<1> QED
  BY <1>2, <1>3, StepCases

\* The inductive invariant of the server: types, the two copies of the channel sets,
\* their limit, and presence.
THEOREM Inductive == Spec => [](TypeOK /\ HubInv /\ LimitInv /\ ShownInv /\ NoGhostVisitor)
  BY TypeInit, InvInit, TypeStep, InvStep, PTL DEF Spec
---------------------------------------------------------------------------
\* A chat is delivered only to connections that showed a token for it.
LEMMA HubInvOwner == ASSUME TypeOK, HubInv PROVE ChatHeldByOwner
  BY DEF TypeOK, SessionTypeOK, HubInv, ChatHeldByOwner, Channels

\* What the hub holds for a connection is what the connection counts.
LEMMA HubInvLimit == ASSUME TypeOK, HubInv, LimitInv PROVE HubWithinLimit
<1> SUFFICES ASSUME NEW s \in Sockets
             PROVE  Cardinality({c \in Channels : s \in hub[c]}) <= ChannelLimit
  BY DEF HubWithinLimit
<1>1. {c \in Channels : s \in hub[c]} = subs[s]
  BY DEF TypeOK, SessionTypeOK, HubInv
<1> QED
  BY <1>1 DEF LimitInv

\* "A visitor may only use the chat_* channel its token was issued for", through every
\* sequence of handshakes, logins and logouts on one connection.
THEOREM ChatsAreHeldByTheirOwners == Spec => []ChatHeldByOwner
  BY Inductive, HubInvOwner, PTL

\* SOCKET_CHANNEL_LIMIT bounds the hub, not only the count handleSubscribe looks at.
THEOREM HubStaysWithinLimit == Spec => []HubWithinLimit
  BY Inductive, HubInvLimit, PTL

\* A connection that announced one subject under one token retracts exactly that one.
THEOREM WhatWasShownIsRetracted == Spec => []RetractsWhatItShowed
<1>1. TypeOK /\ ShownInv => RetractsWhatItShowed
  BY ShownIsRetracted DEF TypeOK
<1> QED
  BY <1>1, Inductive, PTL

\* No visitor stays online whose connections have all run their disconnect handlers,
\* unless a connection changed its token or announced another subject as well.
THEOREM NoVisitorStaysAsGhost == Spec => []NoGhostVisitor
  BY Inductive, PTL
===========================================================================
