----------------------------- MODULE SiteProofs -----------------------------
(***************************************************************************)
(* Proofs about SitePage, for any number of logins and reconnects: between *)
(* tasks, with nothing under way, an authenticated visitor's page has its  *)
(* channel.  They rest on the invariants IInv and AInv of the client.      *)
(***************************************************************************)
EXTENDS SitePage, ClientProofs

(***************************************************************************)
(* The inductive invariant, relative to IInv and AInv.                     *)
(***************************************************************************)

\* What follows is about one channel, on a browser that never lets a task find the
\* WebSocket CLOSING.
Visiting == Visitor \in Channels /\ ~ ClosingWindow

\* The client is never destroyed nor disconnected, loses no connection in the middle of
\* a task, and has no channel but the page's.
Steady ==
    /\ active
    /\ state = "open" => ws = "open"
    /\ ~ Doing("cid") /\ \A c \in Channels : ~ chan[c].torn
    /\ ~ SaidGoodbye
    /\ \A c \in Channels \ {Visitor} : chan[c].st = "none"
    /\ chan[Visitor].st # "none" => watched

\* A call id is on its way once, in one direction.
Apart == {p \in Messages \X Messages : p[1].cid # 0 => p[1].cid # p[2].cid}
Exchange ==
    /\ Pairwise(up, Apart) /\ Pairwise(down, Apart)
    /\ \A m \in Elems(up), d \in Elems(down) : m.cid # 0 => m.cid # d.cid

\* The handshake comes first, and its answer tells what the server's record is.
Shaking ==
    /\ ws = "connecting" => up = <<>> /\ down = <<>>
    /\ (\E m \in Elems(up) : m.ev = "handshake") => down = <<>> /\ state # "open"
    /\ state = "connecting" =>
          \A m \in Elems(down), x \in Elems(map) : m.ev = "answer" /\ x.cid = m.cid => (m.ok <=> peer.authed)

\* The login of this connection was given up: it has been noted, or will be.
Late == late \/ \E f \in Elems(stack) : f.do = "refused" /\ f.n = 0

\* A login is sent after 'connect', and has its callback unless it was given up.
Logins ==
    /\ state = "connecting" \/ Opening => \A m \in Elems(up) : m.ev # "login"
    /\ state = "open" /\ ~ Late =>
          \A m \in Elems(up) : m.ev = "login" => \E x \in Elems(map) : x.cid = m.cid /\ x.at \in asked

\* The server's No to the page's request, and its Yes to a login that still has its callback.
Refusal(m) == m.ev = "answer" /\ ~ m.ok /\ \E x \in Elems(map) : x.cid = m.cid /\ x.at = Visitor
Success(m) == m.ev = "answer" /\ m.ok /\ \E x \in Elems(map) : x.cid = m.cid /\ x.at \in asked

\* The page will subscribe, after every refusal of what it asked before the login; or it
\* is about to, or has asked for the channel or has it, and no refusal is on its way.
Expected == \E i \in DOMAIN down : Success(down[i]) /\ \A j \in DOMAIN down : Refusal(down[j]) => j < i
Signed   == \E f \in Elems(stack) : f.do = "answered" \/ (f.do \in Starts /\ f.n = 1)
Wanted   == chan[Visitor].st \in {"pending", "subscribed"}
Settling == (\A m \in Elems(down) : ~ Refusal(m)) /\ (Wanted \/ Signed)

\* So it is with each connection that the server has authenticated.
Due == state = "open" /\ peer.authed /\ (Opening \/ ~ Late) => Expected \/ Settling

\* The inductive invariant.
SInv == Visiting /\ Steady /\ OpeningTask /\ Exchange /\ Shaking /\ Logins /\ Due

-----------------------------------------------------------------------------
(***************************************************************************)
(* What a step may do to it.                                               *)
(***************************************************************************)

\* With nothing on the WebSocket, or the same, the messages are apart.
LEMMA ExchangeStill ==
    ASSUME Exchange, UNCHANGED <<up, down>> \/ (up' = <<>> /\ down' = <<>>)
    PROVE  Exchange'
<1>1. CASE UNCHANGED <<up, down>>
  BY <1>1 DEF Exchange
<1>2. CASE up' = <<>> /\ down' = <<>>
  BY <1>2, ElemsOfFew, PairwiseFew DEF Exchange
<1> QED  BY <1>1, <1>2

\* After a step that leaves the client without a transport.
LEMMA ClosedKeeps ==
    ASSUME IInv', SInv, state' = "closed", active' = active,
           \A f \in Elems(stack') : f.do \notin Starts \cup {"cid"},
           \A c \in Channels : ~ chan'[c].torn /\ (chan'[c].st = "none" <=> chan[c].st = "none"),
           watched' = watched,
           \/ UNCHANGED <<up, down>> /\ (ws' = ws \/ ws' # "connecting")
           \/ up' = <<>> /\ down' = <<>>
    PROVE  SInv'
<1>1. Steady'
  <2>1. ~ SaidGoodbye'
    BY ElemsOfFew DEF SInv, Steady, SaidGoodbye
  <2>2. ~ Doing("cid")'
    BY DEF Doing
  <2> QED  BY <2>1, <2>2 DEF SInv, Visiting, Steady
<1>2. ~ Opening' /\ OpeningTask'
  <2>1. stack' \in Seq(Frames) /\ ~ Opening'
    BY DEF IInv, Typed, TypeOK, Opening, Doing, Starts
  <2> QED  BY <2>1, NoneOpens DEF OpeningTask
<1>3. Exchange'
  BY ExchangeStill DEF SInv
<1>4. Shaking'
  BY ElemsOfFew DEF SInv, Shaking
<1>5. Logins' /\ Due'
  BY <1>2 DEF Logins, Due
<1> QED  BY <1>1, <1>2, <1>3, <1>4, <1>5 DEF SInv, Visiting

\* After a step that leaves the WebSocket alone.  A callback or a wish that is lost is lost
\* with the login's.
LEMMA StackStep ==
    ASSUME SInv, UNCHANGED <<state, ws, up, down, peer>>, Steady', OpeningTask',
           Elems(map') \subseteq Elems(map), Opening' => Opening,
           Opening' \/ ~ Late' =>
              /\ Opening \/ ~ Late
              /\ \A x \in Elems(map) : x.at \in asked => x \in Elems(map') /\ x.at \in asked'
              /\ Wanted \/ Signed => Wanted' \/ Signed'
    PROVE  SInv'
<1>1. Exchange'
  BY ExchangeStill DEF SInv
<1>2. Shaking'
  BY DEF SInv, Shaking
<1>3. Logins'
  BY DEF SInv, Logins
<1>4. Due'
  <2> SUFFICES ASSUME state' = "open", peer'.authed, Opening' \/ ~ Late' PROVE Expected' \/ Settling'
    BY DEF Due
  <2>1. Expected \/ Settling
    BY DEF SInv, Due
  <2>2. \A m \in Elems(down) : Refusal(m)' => Refusal(m)
    BY DEF Refusal
  <2>3. \A i \in DOMAIN down : /\ down[i] \in Elems(down) /\ (Success(down[i]) => Success(down[i])')
    BY DEF Success, Elems
  <2>4. Expected => Expected'
    <3> SUFFICES ASSUME Expected PROVE Expected'
      OBVIOUS
    <3>1. PICK i \in DOMAIN down : Success(down[i]) /\ \A j \in DOMAIN down : Refusal(down[j]) => j < i
      BY DEF Expected
    <3>2. Success(down[i])' /\ \A j \in DOMAIN down : Refusal(down[j])' => j < i
      BY <2>2, <2>3, <3>1
    <3> QED  BY <3>2 DEF Expected
  <2>5. Settling => Settling'
    BY <2>2 DEF Settling
  <2> QED  BY <2>1, <2>4, <2>5
<1> QED  BY <1>1, <1>2, <1>3, <1>4 DEF SInv, Visiting

\* After a send.
LEMMA Sends ==
    ASSUME IInv, SInv, ws = "open", UNCHANGED <<state, ws, down, peer, asked>>, Steady', OpeningTask',
           NEW m \in Messages, m.ev # "handshake", up' = Append(up, m),
           m.cid # 0 => \A x \in Elems(up) \cup Elems(down) : x.cid # m.cid,
           Elems(map) \subseteq Elems(map'),
           \A x \in Elems(map') : x \in Elems(map) \/ (m.cid # 0 /\ x.cid = m.cid),
           m.ev = "login" => state = "open" /\ ~ Opening /\ \E x \in Elems(map') : x.cid = m.cid /\ x.at \in asked,
           Opening' => Opening, ~ Late' => ~ Late, Wanted \/ Signed => Wanted' \/ Signed'
    PROVE  SInv'
<1>0. /\ up \in Seq(Messages) /\ down \in Seq(Messages) /\ Elems(up') = Elems(up) \cup {m}
      /\ Elems(up) \subseteq Messages /\ Elems(down) \subseteq Messages
  BY Parts, ElemsOfAppend, ElemsTyped DEF TypeOK
<1>1. Exchange'
  <2>1. \A x \in Elems(up) : <<x, m>> \in Apart
    BY <1>0 DEF Apart
  <2>2. Pairwise(up', Apart)
    BY <1>0, <2>1, PairwiseAppend DEF SInv, Exchange
  <2>3. \A x \in Elems(up'), d \in Elems(down) : x.cid # 0 => x.cid # d.cid
    BY <1>0 DEF SInv, Exchange
  <2> QED  BY <2>2, <2>3 DEF SInv, Exchange
<1>2. \A d \in Elems(down), x \in Elems(map') : x.cid = d.cid => x \in Elems(map)
  BY <1>0
<1>3. Shaking'
  <2>1. state = "connecting" =>
          \A d \in Elems(down), x \in Elems(map') : d.ev = "answer" /\ x.cid = d.cid => (d.ok <=> peer.authed)
    BY <1>2 DEF SInv, Shaking
  <2>2. (\E d \in Elems(up') : d.ev = "handshake") => down = <<>> /\ state # "open"
    BY <1>0 DEF SInv, Shaking
  <2> QED  BY <2>1, <2>2 DEF Shaking
<1>4. Logins'
  BY <1>0 DEF SInv, Logins
<1>5. Due'
  <2> SUFFICES ASSUME state = "open", peer.authed, Opening' \/ ~ Late' PROVE Expected' \/ Settling'
    BY DEF Due
  <2>1. Expected \/ Settling
    BY DEF SInv, Due
  <2>2. \A d \in Elems(down) : Refusal(d)' => Refusal(d)
    BY <1>2 DEF Refusal
  <2>3. \A i \in DOMAIN down : /\ down[i] \in Elems(down) /\ (Success(down[i]) => Success(down[i])')
    BY DEF Success, Elems
  <2>4. Expected => Expected'
    <3> SUFFICES ASSUME Expected PROVE Expected'
      OBVIOUS
    <3>1. PICK i \in DOMAIN down : Success(down[i]) /\ \A j \in DOMAIN down : Refusal(down[j]) => j < i
      BY DEF Expected
    <3>2. Success(down[i])' /\ \A j \in DOMAIN down : Refusal(down[j])' => j < i
      BY <2>2, <2>3, <3>1
    <3> QED  BY <3>2 DEF Expected
  <2>5. Settling => Settling'
    BY <2>2 DEF Settling
  <2> QED  BY <2>1, <2>4, <2>5
<1> QED  BY <1>1, <1>3, <1>4, <1>5 DEF SInv, Visiting

\* A client that stays as it is stays steady.
LEMMA SteadyStill ==
    ASSUME SInv, UNCHANGED <<active, state, ws, watched>>,
           \A f \in Elems(stack') : f.do # "cid",
           \A m \in Elems(up') : m.ev = "disconnect" => m \in Elems(up),
           \A c \in Channels : ~ chan'[c].torn /\ (chan'[c].st = "none" <=> chan[c].st = "none")
    PROVE  Steady'
<1>1. ~ SaidGoodbye'
  BY DEF SInv, Steady, SaidGoodbye
<1>2. ~ Doing("cid")'
  BY DEF Doing
<1> QED  BY <1>1, <1>2 DEF SInv, Visiting, Steady

-----------------------------------------------------------------------------
(***************************************************************************)
(* The steps of the library.                                               *)
(***************************************************************************)

\* What is left to do once a transport has closed.
LEMMA ClosersSite ==
    ASSUME IInv, IInv', SInv, AbortBuffered \/ TryReconnect \/ CloseWebSocket \/ FailPending, UNCHANGED siteVars
    PROVE  SInv'
<1> DEFINE t == Tail(stack)
<1>1. stack # <<>> /\ Top.do \in {"abort", "retry", "wsclose", "fail"}
  BY DEF Step, Top, AbortBuffered, TryReconnect, CloseWebSocket, FailPending
<1>2. /\ Top \in Frames /\ t \in Seq(Frames) /\ Elems(stack) = {Top} \cup Elems(t) /\ Elems(t) \subseteq Frames
  BY <1>1, Popped, Parts
<1>3. state = "closed"
  BY <1>1, <1>2, Parts DEF Disciplined, Closers
<1>4. \A f \in Elems(t) : f.do \notin Starts \cup {"cid"}
  BY <1>2, <1>3 DEF SInv, Steady, OpeningTask, Opening, Doing, Starts
<1>5. Top.at \in Names /\ After(buffer, Top.at) \in Names
  BY <1>2, Parts, AfterTyped, NamesDiffer DEF Frames, TypeOK
<1> HIDE DEF t
<1>6. /\ Frame("refused", Top.at) \in Frames /\ Frame("refused", Top.at).do = "refused"
      /\ Frame("abort", After(buffer, Top.at)) \in Frames /\ Frame("abort", After(buffer, Top.at)).do = "abort"
  BY <1>5, FrameIs, DosAre
<1>7. active' = active /\ watched' = watched /\ state' = state
  BY <1>1 DEF AbortBuffered, TryReconnect, CloseWebSocket, FailPending, selfVars, linkVars, siteVars
<1>8. UNCHANGED <<up, down, ws>> \/ (up' = <<>> /\ down' = <<>> /\ ws' = "gone")
  BY <1>1 DEF AbortBuffered, TryReconnect, CloseWebSocket, FailPending, Gone, wireVars
<1>9. \A c \in Channels : ~ chan'[c].torn /\ (chan'[c].st = "none" <=> chan[c].st = "none")
  <2>1. \A c \in Channels : ~ chan[c].torn
    BY DEF SInv, Steady
  <2>2. CASE UNCHANGED chan
    BY <2>1, <2>2
  <2>3. ASSUME NEW e \in Channels, chan' = [chan EXCEPT ![e] = Settled(@, "unsubscribed")]
        PROVE  \A c \in Channels : ~ chan'[c].torn /\ (chan'[c].st = "none" <=> chan[c].st = "none")
    <3>1. ~ Settled(chan[e], "unsubscribed").torn
          /\ (Settled(chan[e], "unsubscribed").st = "none" <=> chan[e].st = "none")
      BY DEF Settled, NoChannel
    <3>2. \A c \in Channels : chan'[c] = IF c = e THEN Settled(chan[e], "unsubscribed") ELSE chan[c]
      BY <2>3, Parts DEF TypeOK
    <3> QED  BY <2>1, <3>1, <3>2
  <2> QED  BY <2>2, <2>3 DEF AbortBuffered, TryReconnect, CloseWebSocket, FailPending, linkVars
<1>10. \A f \in Elems(stack') : f.do \notin Starts \cup {"cid"}
  <2>1. CASE AbortBuffered
    <3> DEFINE a == IF Top.at \in asked THEN <<Frame("refused", Top.at)>> ELSE <<>>
               b == IF Top.at = None THEN <<>> ELSE <<Frame("abort", After(buffer, Top.at))>>
    <3>1. /\ a \in Seq(Frames) /\ \A f \in Elems(a) : f.do = "refused"
          /\ b \in Seq(Frames) /\ \A f \in Elems(b) : f.do = "abort"
      BY <1>6, ElemsOfFew
    <3>2. stack' = a \o b \o t
      BY <2>1 DEF AbortBuffered, t
    <3> HIDE DEF a, b
    <3>3. a \o b \in Seq(Frames) /\ Elems(a \o b) = Elems(a) \cup Elems(b)
      BY <3>1, ElemsOfConcat
    <3> DEFINE ab == a \o b
    <3>4. stack' = ab \o t /\ ab \in Seq(Frames) /\ Elems(ab) = Elems(a) \cup Elems(b)
      BY <3>2, <3>3
    <3> HIDE DEF ab
    <3>5. Elems(stack') = Elems(a) \cup Elems(b) \cup Elems(t)
      BY <1>2, <3>4, ElemsOfConcat
    <3> QED  BY <1>4, <3>1, <3>5 DEF Starts
  <2>2. CASE TryReconnect \/ CloseWebSocket
    <3>1. stack' = t
      BY <2>2 DEF TryReconnect, CloseWebSocket, t
    <3> QED  BY <1>4, <3>1
  <2>3. CASE FailPending
    <3>1. stack' = t \/ stack' = <<>> \/ stack' = <<Frame("refused", Top.at)>> \o t
      BY <2>3 DEF FailPending, t
    <3>2. Elems(<<Frame("refused", Top.at)>> \o t) = {Frame("refused", Top.at)} \cup Elems(t)
      BY <1>2, <1>6, Under
    <3>3. \A f \in Elems(stack') : f \in Elems(t) \/ f.do = "refused"
      BY <1>6, <3>1, <3>2, ElemsOfFew
    <3> QED  BY <1>4, <3>3 DEF Starts
  <2> QED  BY <2>1, <2>2, <2>3
<1> QED  BY <1>3, <1>7, <1>8, <1>9, <1>10, ClosedKeeps

\* The loops of an open task and the end of a timeout.
LEMMA FlushAllSite ==
    ASSUME IInv, SInv, FlushAll \/ CancelResponse, UNCHANGED siteVars PROVE SInv'
<1> DEFINE t == Tail(stack)
<1>1. stack # <<>> /\ Top.do \in {"flushall", "cancel"} /\ TypeOK
  BY Parts DEF Step, Top, FlushAll, CancelResponse
<1>2. /\ Top \in Frames /\ t \in Seq(Frames) /\ Elems(stack) = {Top} \cup Elems(t) /\ Elems(t) \subseteq Frames
  BY <1>1, Popped, Parts
<1>3. ~ Opening /\ \A f \in Elems(t) : f.do \notin Starts \cup {"cid"}
  <2>1. ~ Opening
    BY <1>1, Opened1 DEF SInv, Starts
  <2> QED  BY <1>2, <2>1 DEF SInv, Steady, Opening, Doing, Starts
<1>4. UNCHANGED <<state, ws, up, down, peer, active, asked, chan, siteVars>>
  BY DEF FlushAll, CancelResponse, selfVars, linkVars, wireVars
<1> HIDE DEF t
<1>5. /\ stack' \in Seq(Frames)
      /\ \A f \in Elems(stack') : f \in Elems(t) \/ f.do = "flush"
      /\ \A f \in Elems(t) : f \in Elems(stack')
  <2> DEFINE next == Frame("flush", First(buffer))
  <2>1. First(buffer) \in Names
    BY <1>1, FirstTyped, NamesDiffer DEF TypeOK
  <2>2. next \in Frames /\ next.do = "flush"
    BY <2>1, FrameIs, DosAre
  <2>3. stack' = t \/ stack' = <<next>> \o t
    <3>1. <<>> \o t = t
      BY <1>2, Beside
    <3> QED  BY <3>1 DEF FlushAll, CancelResponse, t
  <2> HIDE DEF next
  <2>4. <<next>> \o t \in Seq(Frames) /\ Elems(<<next>> \o t) = {next} \cup Elems(t)
    BY <1>2, <2>2, Under
  <2> QED  BY <1>2, <2>2, <2>3, <2>4
<1>6. /\ Elems(map') \subseteq Elems(map)
      /\ \A x \in Elems(map) : x.at \in asked => x \in Elems(map')
  <2>1. CASE FlushAll
    BY <2>1 DEF FlushAll, linkVars
  <2>2. CASE CancelResponse
    <3>1. map' = MinusName(map, Top.at) /\ Top.do = "cancel"
      BY <2>2 DEF CancelResponse, MinusName, Step, Top
    <3>2. Elems(map') = {x \in Elems(map) : x.at # Top.at}
      BY <1>1, <3>1, WithoutName DEF TypeOK
    <3>3. Top.at \notin asked
      BY <1>2, <3>1, Parts DEF TimedOut
    <3> QED  BY <3>2, <3>3
  <2> QED  BY <2>1, <2>2
<1>7. Steady'
  <2>1. \A f \in Elems(stack') : f.do # "cid"
    BY <1>3, <1>5
  <2>2. \A c \in Channels : ~ chan'[c].torn /\ (chan'[c].st = "none" <=> chan[c].st = "none")
    BY <1>4 DEF SInv, Steady
  <2> QED  BY <1>4, <2>1, <2>2, SteadyStill DEF siteVars
<1>8. ~ Opening' /\ OpeningTask'
  <2>1. \A f \in Elems(stack') : f.do \notin Starts
    BY <1>3, <1>5 DEF Starts
  <2>2. ~ Opening'
    BY <2>1 DEF Opening, Doing, Starts
  <2> QED  BY <1>5, <2>1, <2>2, NoneOpens DEF OpeningTask
<1>9. ~ Late' => ~ Late
  BY <1>1, <1>2, <1>4, <1>5 DEF Late, siteVars
<1>10. Wanted \/ Signed => Wanted' \/ Signed'
  <2>1. Signed => Signed'
    BY <1>1, <1>2, <1>5 DEF Signed, Starts
  <2> QED  BY <1>4, <2>1 DEF Wanted
<1> QED  BY <1>3, <1>4, <1>6, <1>7, <1>8, <1>9, <1>10, StackStep

\* _onSCOpen from connectAttempts = 0 on.
LEMMA ConnectedSite ==
    ASSUME IInv, SInv, Connected, UNCHANGED siteVars PROVE SInv'
<1> DEFINE t == Tail(stack)
           f1 == ProcessPending
           f2 == [Frame("connect", None) EXCEPT !.n = Top.n]
           f3 == Frame("flushall", None)
<1>1. stack # <<>> /\ Top.do = "open"
  BY DEF Step, Top, Connected
<1>2. /\ Top \in Frames /\ t \in Seq(Frames) /\ Elems(stack) = {Top} \cup Elems(t) /\ Elems(t) \subseteq Frames
  BY <1>1, Popped, Parts
<1>3. \A g \in Elems(t) : g.do = "flushall"
  BY <1>1, Opened1 DEF SInv, Starts
<1>4. /\ f1 \in Frames /\ f1.do = "tries"
      /\ f2 \in Frames /\ f2.do = "connect" /\ f2.n = Top.n
      /\ f3 \in Frames /\ f3.do = "flushall"
  <2>1. None \in Names /\ Pending \in SUBSET Channels /\ Top.n \in Nat
    BY <1>2, NamesDiffer DEF Pending, Frames
  <2>2. Frame("tries", None) \in Frames /\ Frame("tries", None).do = "tries"
        /\ Frame("connect", None) \in Frames /\ Frame("connect", None).do = "connect"
        /\ f3 \in Frames /\ f3.do = "flushall"
    BY <2>1, FrameIs, DosAre
  <2>3. f1 \in Frames /\ f1.do = "tries"
    BY <2>1, <2>2, FrameWithOf DEF ProcessPending
  <2>4. f2 \in Frames /\ f2.do = "connect" /\ f2.n = Top.n
    BY <2>1, <2>2, FrameWithN
  <2> QED  BY <2>2, <2>3, <2>4
<1>5. stack' = <<f1, f2, f3>> \o t /\ UNCHANGED <<active, asked, linkVars, wireVars, siteVars>>
  BY DEF Connected
<1> HIDE DEF t, f1, f2, f3
<1>6. stack' = <<f1>> \o (<<f2>> \o (<<f3>> \o t))
  <2>1. <<f1, f2, f3>> \o t = <<f1>> \o (<<f2>> \o (<<f3>> \o t))
    BY <1>2, <1>4, Beside
  <2> QED  BY <1>5, <2>1
<1> DEFINE t3 == <<f3>> \o t
           t2 == <<f2>> \o t3
<1>7. t3 \in Seq(Frames) /\ \A g \in Elems(t3) : g.do = "flushall" /\ g \in Frames
  <2>1. t3 \in Seq(Frames) /\ Elems(t3) = {f3} \cup Elems(t)
    BY <1>2, <1>4, Under
  <2> QED  BY <1>2, <1>3, <1>4, <2>1
<1> HIDE DEF t3
<1>8. t2 \in Seq(Frames) /\ Pairwise(t2, Opens) /\ Elems(t2) = {f2} \cup Elems(t3)
  <2>1. Pairwise(t3, Opens)
    BY <1>7, NoneOpens DEF Starts
  <2>2. \A g \in Elems(t3) : <<f2, g>> \in Opens
    BY <1>4, <1>7 DEF Opens, Starts
  <2> QED  BY <1>4, <1>7, <2>1, <2>2, Under
<1> HIDE DEF t2
<1>9. Pairwise(stack', Opens) /\ Elems(stack') = {f1, f2} \cup Elems(t3)
  <2>1. \A g \in Elems(t2) : <<f1, g>> \in Opens
    BY <1>4, <1>7, <1>8 DEF Opens, Starts
  <2>2. stack' = <<f1>> \o t2
    BY <1>6 DEF t2, t3
  <2>3. Pairwise(stack', Opens) /\ Elems(stack') = {f1} \cup Elems(t2)
    BY <1>4, <1>8, <2>1, <2>2, Under
  <2> QED  BY <1>8, <2>3
<1>10. Opening
  BY <1>1, <1>2 DEF Opening, Doing
<1>11. OpeningTask'
  BY <1>5, <1>9, <1>10 DEF SInv, OpeningTask, linkVars
<1>12. Steady'
  <2>1. \A f \in Elems(stack') : f.do # "cid"
    BY <1>4, <1>7, <1>9
  <2>2. \A c \in Channels : ~ chan'[c].torn /\ (chan'[c].st = "none" <=> chan[c].st = "none")
    BY <1>5 DEF SInv, Steady, linkVars
  <2> QED  BY <1>5, <2>1, <2>2, SteadyStill DEF siteVars, linkVars, wireVars
<1>13. Wanted \/ Signed => Wanted' \/ Signed'
  <2>1. Signed => Signed'
    BY <1>1, <1>2, <1>3, <1>4, <1>9 DEF Signed, Starts
  <2> QED  BY <1>5, <2>1 DEF Wanted, linkVars
<1>14. UNCHANGED <<state, ws, up, down, peer, map, asked>>
  BY <1>5 DEF linkVars, wireVars
<1> QED  BY <1>10, <1>11, <1>12, <1>13, <1>14, StackStep

\* The close of a transport, and what becomes of its WebSocket.
LEMMA ShutDownSite ==
    ASSUME IInv', SInv, state # "closed", NEW how \in Nat, NEW buf, NEW mp, NEW rest,
           ShutDown(how, buf, mp, chan, rest), MayClose(buf, mp, rest),
           \A f \in Elems(rest) : f.do \notin Starts \cup {"cid"},
           active' = active, watched' = watched,
           \/ UNCHANGED <<ws, up, down>>
           \/ ws' = "gone" /\ up' = <<>> /\ down' = <<>>
    PROVE  SInv'
<1>1. /\ state' = "closed" /\ chan' = [c \in Channels |-> Suspended(chan[c])]
      /\ \A f \in Elems(stack') : f \in Elems(rest) \/ f.do \in Closers
  BY ShutCalls
<1>2. \A c \in Channels : ~ chan'[c].torn /\ (chan'[c].st = "none" <=> chan[c].st = "none")
  BY <1>1 DEF Suspended, NoChannel
<1>3. \A f \in Elems(stack') : f.do \notin Starts \cup {"cid"}
  BY <1>1 DEF Closers, Starts
<1> QED  BY <1>1, <1>2, <1>3, ClosedKeeps

\* Flushes and answers are not called while a closed WebSocket is still open.
LEMMA NotLeaving ==
    ASSUME IInv, SInv, stack # <<>>, Top.do \in {"flush", "respond"}
    PROVE  state = "closed" => ws # "open"
<1>1. Elems(stack) = {Top} \cup Elems(Tail(stack)) /\ \A g \in Elems(Tail(stack)) : Fits(Top, g)
  BY Popped, Parts
<1>2. ~ Doing("wsclose")
  BY <1>1 DEF Doing, Fits, MayNest, Closers
<1> QED  BY <1>2, Parts DEF Leaving, SInv, Steady

\* Response.end.
LEMMA RespondSite ==
    ASSUME IInv, IInv', SInv, Respond, UNCHANGED siteVars PROVE SInv'
<1> DEFINE t == Tail(stack)
           m == Message("respond", None, 0, TRUE)
<1>1. stack # <<>> /\ Top.do = "respond" /\ Send(m, buffer, map, chan, t) /\ UNCHANGED <<selfVars, siteVars>>
  BY DEF Step, Top, Respond
<1>2. /\ Top \in Frames /\ t \in Seq(Frames) /\ Elems(stack) = {Top} \cup Elems(t) /\ Elems(t) \subseteq Frames
  BY <1>1, Popped, Parts
<1>3. ~ Opening /\ \A f \in Elems(t) : f.do \notin Starts \cup {"cid"}
  <2>1. ~ Opening
    BY <1>1, Opened1 DEF SInv, Starts
  <2> QED  BY <1>2, <2>1 DEF SInv, Steady, Opening, Doing, Starts
<1>4. m \in Messages /\ m.ev = "respond" /\ m.cid = 0
  <2>1. None \in Names /\ "respond" \in Evs /\ 0 \in 0 .. MaxCid
    BY NamesDiffer, SCClientAssumption DEF Evs
  <2> QED  BY <2>1, MessageIs
<1>5. UNCHANGED <<active, asked, watched, late>>
  BY <1>1 DEF selfVars, siteVars
<1> HIDE DEF m, t
<1>6. \A c \in Channels : ~ chan[c].torn
  BY DEF SInv, Steady
<1>7. CASE ws = "open"
  <2>1. up' = Append(up, m) /\ stack' = t /\ UNCHANGED <<state, map, chan, ws, down, peer>>
    BY <1>1, <1>7 DEF Send
  <2>2. Elems(up') = Elems(up) \cup {m}
    BY <1>4, <2>1, Parts, ElemsOfAppend DEF TypeOK
  <2>3. Steady'
    BY <1>3, <1>4, <1>5, <1>6, <2>1, <2>2, SteadyStill
  <2>4. ~ Opening' /\ OpeningTask'
    <3>1. ~ Opening'
      BY <1>3, <2>1 DEF Opening, Doing, Starts
    <3> QED  BY <1>2, <1>3, <2>1, <3>1, NoneOpens DEF OpeningTask
  <2>5. ~ Late' => ~ Late
    BY <1>1, <1>2, <1>5, <2>1 DEF Late
  <2>6. Wanted \/ Signed => Wanted' \/ Signed'
    BY <1>1, <1>2, <2>1 DEF Wanted, Signed, Starts
  <2> QED  BY <1>4, <1>5, <1>7, <2>1, <2>3, <2>4, <2>5, <2>6, Sends
<1>8. CASE ws # "open" /\ state = "closed"
  <2>1. stack' = t /\ UNCHANGED <<state, chan, ws, up, down>>
    BY <1>1, <1>8 DEF Send, ShutDown, wireVars
  <2> QED  BY <1>3, <1>5, <1>6, <1>8, <2>1, ClosedKeeps
<1>9. CASE ws # "open" /\ state # "closed"
  <2>1. ShutDown(1005, buffer, map, chan, t) /\ UNCHANGED <<ws, up, down>>
    BY <1>1, <1>9 DEF Send, wireVars
  <2>2. MayClose(buffer, map, t) /\ 1005 \in Nat
    BY <1>1, <1>9, MayCloseRest DEF t
  <2> QED  BY <1>3, <1>5, <1>9, <2>1, <2>2, ShutDownSite
<1> QED  BY <1>7, <1>8, <1>9

\* A round of the loop over the emit buffer.
LEMMA FlushSite ==
    ASSUME IInv, IInv', SInv, Flush, UNCHANGED siteVars PROVE SInv'
<1> DEFINE t    == Tail(stack)
           e    == Top.at
           buf  == Minus(buffer, e)
           next == Frame("flush", After(buffer, e))
           rest == <<next>> \o t
           m1(cid) == Message("login", e, cid, TRUE)
           x1(cid) == [cid |-> cid, at |-> e]
           m2 == Message("publish", e, 0, TRUE)
<1>1. /\ stack # <<>> /\ Top.do = "flush" /\ UNCHANGED <<selfVars, siteVars>>
      /\ \/ e = None /\ stack' = t /\ UNCHANGED <<linkVars, wireVars>>
         \/ e \in asked /\ \E cid \in FreshCids : Send(m1(cid), buf, Append(map, x1(cid)), chan, rest)
         \/ e \notin asked \cup {None} /\ Send(m2, buf, map, chan, rest)
  BY DEF Step, Top, Flush, Minus
<1>2. /\ Top \in Frames /\ t \in Seq(Frames) /\ Elems(stack) = {Top} \cup Elems(t) /\ Elems(t) \subseteq Frames
  BY <1>1, Popped, Parts
<1>3. ~ Opening /\ \A f \in Elems(t) : f.do \notin Starts \cup {"cid"}
  <2>1. ~ Opening
    BY <1>1, Opened1 DEF SInv, Starts
  <2> QED  BY <1>2, <2>1 DEF SInv, Steady, Opening, Doing, Starts
<1>4. e \in Names /\ asked \subseteq Calls /\ map \in Seq(Entries) /\ buffer \in Seq(Calls \cup Casts)
  BY <1>2, Parts DEF Frames, TypeOK
<1>5. next \in Frames /\ next.do = "flush"
  <2>1. After(buffer, e) \in Names
    BY <1>4, AfterTyped, NamesDiffer
  <2> QED  BY <2>1, FrameIs, DosAre
<1>6. UNCHANGED <<active, asked, watched, late>>
  BY <1>1 DEF selfVars, siteVars
<1>7. state \in {"closed", "open"} /\ (state = "closed" => ws # "open") /\ (state = "open" => ws = "open")
  <2>1. state # "connecting" /\ state \in {"closed", "connecting", "open"}
    BY <1>1, <1>2, Parts DEF Disciplined, Doing, TypeOK
  <2> QED  BY <1>1, <2>1, NotLeaving DEF SInv, Steady
<1> HIDE DEF next, t, buf
<1>8. /\ rest \in Seq(Frames) /\ Elems(rest) = {next} \cup Elems(t)
      /\ \A f \in Elems(rest) : f.do \notin Starts \cup {"cid"}
  <2>1. rest \in Seq(Frames) /\ Elems(rest) = {next} \cup Elems(t)
    BY <1>2, <1>5, Under
  <2> QED  BY <1>3, <1>5, <2>1 DEF Starts
<1> HIDE DEF rest
<1>9. \A c \in Channels : ~ chan[c].torn
  BY DEF SInv, Steady
\* Once a transport has closed.
<1>10. ASSUME state = "closed" PROVE SInv'
  <2>1. /\ stack' = t \/ stack' = rest
        /\ UNCHANGED <<state, chan, ws, up, down>>
    BY <1>1, <1>7, <1>10 DEF Send, ShutDown, linkVars, wireVars
  <2>2. \A f \in Elems(stack') : f.do \notin Starts \cup {"cid"}
    BY <1>3, <1>8, <2>1
  <2> QED  BY <1>6, <1>9, <1>10, <2>1, <2>2, ClosedKeeps
\* Otherwise the task goes on.
<1>11. ASSUME stack' = t \/ stack' = rest, UNCHANGED <<state, chan, ws>>,
              \A m \in Elems(up') : m.ev = "disconnect" => m \in Elems(up)
       PROVE  /\ Steady' /\ ~ Opening' /\ OpeningTask' /\ (~ Late' => ~ Late)
              /\ Wanted \/ Signed => Wanted' \/ Signed'
  <2>1. /\ \A f \in Elems(stack') : f.do \notin Starts \cup {"cid"} /\ stack' \in Seq(Frames)
        /\ \A f \in Elems(t) : f \in Elems(stack')
    BY <1>2, <1>3, <1>8, <1>11
  <2>2. Steady'
    BY <1>6, <1>9, <1>11, <2>1, SteadyStill
  <2>3. ~ Opening' /\ OpeningTask'
    <3>1. ~ Opening'
      BY <2>1 DEF Opening, Doing, Starts
    <3>2. stack' \in Seq(Frames)
      BY <1>2, <1>8, <1>11
    <3> QED  BY <2>1, <3>1, <3>2, NoneOpens DEF OpeningTask
  <2>4. Late' => Late
    BY <1>2, <1>5, <1>6, <1>8, <1>11 DEF Late
  <2>5. Late => Late'
    BY <1>1, <1>2, <1>6, <2>1 DEF Late
  <2>6. Signed => Signed'
    BY <1>1, <1>2, <2>1 DEF Signed, Starts
  <2> QED  BY <1>11, <2>2, <2>3, <2>5, <2>6 DEF Wanted
<1>12. CASE e = None /\ stack' = t /\ UNCHANGED <<linkVars, wireVars>>
  <2>1. UNCHANGED <<state, chan, ws, up, down, peer, map>>
    BY <1>12 DEF linkVars, wireVars
  <2> HIDE DEF e
  <2> QED  BY <1>6, <1>11, <1>12, <2>1, StackStep
<1>13. ASSUME e \in asked, NEW cid \in FreshCids, state = "open",
              Send(m1(cid), buf, Append(map, x1(cid)), chan, rest)
       PROVE  SInv'
  <2> DEFINE m == m1(cid)
             x == x1(cid)
  <2>1. cid \in Cids /\ cid \in 0 .. MaxCid /\ cid # 0 /\ \A y \in Elems(up) \cup Elems(down) : y.cid # cid
    BY Fresh, SCClientAssumption DEF Cids
  <2>2. m \in Messages /\ m.ev = "login" /\ m.cid = cid
    <3>1. "login" \in Evs /\ TRUE \in BOOLEAN
      BY DEF Evs
    <3> HIDE DEF e
    <3> QED  BY <1>4, <2>1, <3>1, MessageIs, ZenonT(60)
  <2>3. x \in Entries /\ x.at = e /\ x.cid = cid
    BY <1>4, <2>1 DEF Entries
  <2>4. ws = "open" /\ up' = Append(up, m) /\ map' = Append(map, x) /\ stack' = rest
        /\ UNCHANGED <<state, chan, ws, down, peer>>
    BY <1>7, <1>13 DEF Send
  <2> HIDE DEF m, x, e
  <2>5. Elems(map') = Elems(map) \cup {x} /\ Elems(up') = Elems(up) \cup {m}
    BY <1>4, <2>2, <2>3, <2>4, Parts, ElemsOfAppend DEF TypeOK
  <2>6. \A d \in Elems(up') : d.ev = "disconnect" => d \in Elems(up)
    BY <2>2, <2>5
  <2>7. \E y \in Elems(map') : y.cid = m.cid /\ y.at \in asked
    BY <1>13, <2>2, <2>3, <2>5
  <2> QED  BY <1>3, <1>6, <1>11, <1>13, <2>1, <2>2, <2>3, <2>4, <2>5, <2>6, <2>7, Sends
<1>14. ASSUME state = "open", Send(m2, buf, map, chan, rest) PROVE SInv'
  <2>1. m2 \in Messages /\ m2.ev = "publish" /\ m2.cid = 0
    <3>1. "publish" \in Evs /\ TRUE \in BOOLEAN /\ 0 \in 0 .. MaxCid
      BY SCClientAssumption DEF Evs
    <3> HIDE DEF e
    <3> QED  BY <1>4, <3>1, MessageIs, Zenon
  <2>2. ws = "open" /\ up' = Append(up, m2) /\ stack' = rest
        /\ UNCHANGED <<state, chan, ws, down, peer, map>>
    BY <1>7, <1>14 DEF Send
  <2> HIDE DEF m2, e
  <2>3. Elems(up') = Elems(up) \cup {m2}
    BY <2>1, <2>2, Parts, ElemsOfAppend DEF TypeOK
  <2>4. \A d \in Elems(up') : d.ev = "disconnect" => d \in Elems(up)
    BY <2>1, <2>3
  <2> QED  BY <1>6, <1>11, <2>1, <2>2, <2>4, Sends
<1> QED  BY <1>1, <1>7, <1>10, <1>12, <1>13, <1>14

\* A round of processPendingSubscriptions, or the request of a subscribe.
LEMMA TrySubscribeSite ==
    ASSUME IInv, SInv, TrySubscribe, UNCHANGED siteVars PROVE SInv'
<1> DEFINE t == Tail(stack)
           next(c) == [Top EXCEPT !.of = @ \ {c}]
           rest(c) == <<next(c)>> \o t
           m(c, cid) == Message("subscribe", c, cid, TRUE)
           x(c, cid) == [cid |-> cid, at |-> c]
<1>1. stack # <<>> /\ Top.do = "tries" /\ UNCHANGED <<selfVars, siteVars>>
  BY DEF Step, Top, TrySubscribe
<1>2. /\ Top \in Frames /\ t \in Seq(Frames) /\ Elems(stack) = {Top} \cup Elems(t) /\ Elems(t) \subseteq Frames
      /\ Pairwise(t, Opens) /\ \A f \in Elems(t) : f.do # "cid"
  <2>1. /\ Top \in Frames /\ t \in Seq(Frames) /\ Elems(stack) = {Top} \cup Elems(t) /\ Elems(t) \subseteq Frames
    BY <1>1, Popped, Parts
  <2> QED  BY <1>1, <2>1, Opened1 DEF SInv, Steady, Doing
<1>3. UNCHANGED <<active, asked, watched, late>>
  BY <1>1 DEF selfVars, siteVars
<1>4. Top.of \in SUBSET Channels
  BY <1>2 DEF Frames
<1> HIDE DEF t
<1>5. ASSUME NEW c \in Top.of
      PROVE  /\ next(c) \in Frames /\ next(c).do = "tries"
             /\ rest(c) \in Seq(Frames) /\ Elems(rest(c)) = {next(c)} \cup Elems(t) /\ Pairwise(rest(c), Opens)
  <2>1. next(c) \in Frames /\ next(c).do = "tries"
    BY <1>1, <1>2 DEF Frames
  <2> DEFINE f == next(c)
  <2>2. f \in Frames /\ f.do = "tries"
    BY <2>1
  <2> HIDE DEF f
  <2>3. \A g \in Elems(t) : <<f, g>> \in Opens
    BY <1>2, <2>2 DEF Opens, Starts
  <2>4. <<f>> \o t \in Seq(Frames) /\ Elems(<<f>> \o t) = {f} \cup Elems(t) /\ Pairwise(<<f>> \o t, Opens)
    BY <1>2, <2>2, <2>3, Under
  <2> QED  BY <2>2, <2>4 DEF f
<1>6. ASSUME stack' = t \/ \E c \in Top.of : stack' = rest(c), UNCHANGED <<state, ws>>,
             \A d \in Elems(up') : d.ev = "disconnect" => d \in Elems(up),
             \A c \in Channels : chan'[c].torn = chan[c].torn /\ chan'[c].st = chan[c].st
      PROVE  /\ Steady' /\ OpeningTask' /\ (Opening' => Opening) /\ (~ Late' => ~ Late)
             /\ Wanted \/ Signed => Wanted' \/ Signed'
  <2>1. /\ Pairwise(stack', Opens)
        /\ \A f \in Elems(stack') : f \in Elems(t) \/ f.do = "tries"
        /\ \A f \in Elems(t) : f \in Elems(stack')
    <3>1. CASE stack' = t
      BY <1>2, <3>1
    <3>2. ASSUME NEW c \in Top.of, stack' = rest(c)
          PROVE  /\ Pairwise(stack', Opens)
                 /\ \A f \in Elems(stack') : f \in Elems(t) \/ f.do = "tries"
                 /\ \A f \in Elems(t) : f \in Elems(stack')
      <4> HIDE DEF next, rest
      <4> QED  BY <1>5, <3>2
    <3> QED  BY <1>6, <3>1, <3>2
  <2>2. Steady'
    <3>1. \A f \in Elems(stack') : f.do # "cid"
      BY <1>2, <2>1
    <3>2. \A c \in Channels : ~ chan'[c].torn /\ (chan'[c].st = "none" <=> chan[c].st = "none")
      BY <1>6 DEF SInv, Steady
    <3> QED  BY <1>3, <1>6, <3>1, <3>2, SteadyStill
  <2>3. Opening' => Opening
    BY <1>2, <2>1 DEF Opening, Doing
  <2>4. OpeningTask'
    BY <1>6, <2>1, <2>3 DEF SInv, OpeningTask
  <2>5. Late => Late'
    BY <1>1, <1>2, <1>3, <2>1 DEF Late
  <2>6. Signed => Signed'
    BY <1>1, <1>2, <2>1 DEF Signed, Starts
  <2>7. Wanted => Wanted'
    BY <1>6 DEF Wanted, SInv, Visiting
  <2> QED  BY <2>2, <2>3, <2>4, <2>5, <2>6, <2>7
<1>7. ASSUME stack' = t \/ \E c \in Top.of : stack' = rest(c), UNCHANGED <<linkVars, wireVars>>
      PROVE  SInv'
  <2>1. UNCHANGED <<state, chan, ws, up, down, peer, map>>
    BY <1>7 DEF linkVars, wireVars
  <2> HIDE DEF rest
  <2> QED  BY <1>3, <1>6, <1>7, <2>1, StackStep
<1>8. ASSUME NEW c \in Top.of, NEW cid \in FreshCids, ws = "open",
             Send(m(c, cid), buffer, Append(map, x(c, cid)), [chan EXCEPT ![c].cid = cid], rest(c))
      PROVE  SInv'
  <2> DEFINE mm == m(c, cid)
             xx == x(c, cid)
  <2>1. /\ cid \in Cids /\ cid \in 0 .. MaxCid /\ cid # 0 /\ \A y \in Elems(up) \cup Elems(down) : y.cid # cid
        /\ c \in Channels /\ c \in Names
    BY <1>4, Fresh, NamesDiffer, SCClientAssumption DEF Cids
  <2>2. mm \in Messages /\ mm.ev = "subscribe" /\ mm.cid = cid
    <3>1. "subscribe" \in Evs /\ TRUE \in BOOLEAN
      BY DEF Evs
    <3> QED  BY <2>1, <3>1, MessageIs, ZenonT(60)
  <2>3. xx \in Entries /\ xx.at = c /\ xx.cid = cid
    BY <2>1 DEF Entries
  <2>4. /\ up' = Append(up, mm) /\ map' = Append(map, xx) /\ stack' = rest(c)
        /\ chan' = [chan EXCEPT ![c].cid = cid] /\ UNCHANGED <<state, ws, down, peer>>
    BY <1>8 DEF Send
  <2> HIDE DEF mm, xx, rest
  <2>5. Elems(map') = Elems(map) \cup {xx} /\ Elems(up') = Elems(up) \cup {mm}
    BY <2>2, <2>3, <2>4, Parts, ElemsOfAppend DEF TypeOK
  <2>6. \A d \in Elems(up') : d.ev = "disconnect" => d \in Elems(up)
    BY <2>2, <2>5
  <2>7. \A d \in Channels : chan'[d].torn = chan[d].torn /\ chan'[d].st = chan[d].st
    BY <2>4, Parts DEF TypeOK
  <2>8. /\ Steady' /\ OpeningTask' /\ (Opening' => Opening) /\ (~ Late' => ~ Late)
        /\ Wanted \/ Signed => Wanted' \/ Signed'
    BY <1>6, <2>4, <2>6, <2>7
  <2> QED  BY <1>3, <1>8, <2>1, <2>2, <2>3, <2>4, <2>5, <2>8, Sends
<1>9. \/ stack' = t /\ UNCHANGED <<linkVars, wireVars>>
      \/ \E c \in Top.of : stack' = rest(c) /\ UNCHANGED <<linkVars, wireVars>>
      \/ \E c \in Top.of : \E cid \in FreshCids :
            ws = "open" /\ Send(m(c, cid), buffer, Append(map, x(c, cid)), [chan EXCEPT ![c].cid = cid], rest(c))
  <2>1. state = "open" => ws = "open"
    BY DEF SInv, Steady
  <2> QED  BY <2>1 DEF TrySubscribe, t
<1> QED  BY <1>7, <1>8, <1>9

-----------------------------------------------------------------------------
(***************************************************************************)
(* What the page does.                                                     *)
(***************************************************************************)

\* Under 'connect' only the flush is left, and under a login's callback nothing opens.
LEMMA UnderPage ==
    ASSUME IInv, SInv, stack # <<>>, Top.do \in {"connect", "answered"}
    PROVE  /\ Top \in Frames /\ Tail(stack) \in Seq(Frames)
           /\ Elems(stack) = {Top} \cup Elems(Tail(stack))
           /\ \A f \in Elems(Tail(stack)) : f.do \notin Starts \cup {"cid"}
           /\ Top.do = "connect" => state = "open" /\ Opening /\ \A f \in Elems(Tail(stack)) : f.do = "flushall"
<1>1. /\ Top \in Frames /\ Tail(stack) \in Seq(Frames) /\ Elems(stack) = {Top} \cup Elems(Tail(stack))
  BY Popped, Parts
<1>2. CASE Top.do = "connect"
  <2>1. \A f \in Elems(Tail(stack)) : f.do = "flushall"
    BY <1>2, Opened1 DEF SInv, Starts
  <2>2. Opening /\ state = "open"
    BY <1>1, <1>2 DEF SInv, OpeningTask, Opening, Doing
  <2> QED  BY <1>1, <2>1, <2>2 DEF Starts
<1>3. CASE Top.do = "answered"
  <2>1. ~ Opening
    BY <1>3, Opened1 DEF SInv, Starts
  <2> QED  BY <1>1, <1>3, <2>1 DEF SInv, Steady, Opening, Doing, Starts
<1> QED  BY <1>2, <1>3

\* connectSiteVisitor.
LEMMA ConnectSiteVisitorSite ==
    ASSUME IInv, IInv', SInv, ConnectSiteVisitor PROVE SInv'
<1> DEFINE t == Tail(stack)
           fresh == {d \in {Visitor} : chan[d].st \in {"none", "unsubscribed"}}
           f == [Frame("tries", None) EXCEPT !.of = fresh]
<1>1. /\ stack # <<>> /\ Top.do \in {"connect", "answered"}
      /\ watched' = TRUE /\ late' = (late /\ Top.do = "answered")
      /\ Subscribe({Visitor}, t)
  BY DEF ConnectSiteVisitor, Step, Top
<1>2. /\ Top \in Frames /\ t \in Seq(Frames) /\ Elems(stack) = {Top} \cup Elems(t)
      /\ \A g \in Elems(t) : g.do \notin Starts \cup {"cid"}
      /\ Top.do = "connect" => Opening
  BY <1>1, UnderPage
<1> HIDE DEF t
<1>3. /\ chan' = [d \in Channels |-> IF d \in fresh THEN [chan[d] EXCEPT !.st = "pending"] ELSE chan[d]]
      /\ UNCHANGED <<active, asked, state, map, ws, up, down, peer>>
      /\ fresh = {} => stack' = t
      /\ fresh # {} => stack' = <<f>> \o t
  BY <1>1, <1>2, Beside DEF Subscribe, selfVars, wireVars
<1>4. Visitor \in Channels /\ fresh \in SUBSET Channels /\ fresh \subseteq {Visitor}
  BY DEF SInv, Visiting
<1>5. /\ chan \in [Channels -> [st : {"none", "unsubscribed", "pending", "subscribed"}, cid : 0 .. MaxCid, torn : BOOLEAN]]
      /\ chan[Visitor].st \in {"pending", "subscribed"} <=> Visitor \notin fresh
  BY <1>4, Parts DEF TypeOK
<1> HIDE DEF fresh
<1>6. f \in Frames /\ f.do = "tries"
  <2>1. Frame("tries", None) \in Frames /\ Frame("tries", None).do = "tries"
    BY NamesDiffer, FrameIs, DosAre
  <2> QED  BY <1>4, <2>1, FrameWithOf
<1> HIDE DEF f
<1>7. Wanted' /\ \A d \in Channels : chan'[d].torn = chan[d].torn /\ (d # Visitor => chan'[d] = chan[d])
  BY <1>3, <1>4, <1>5 DEF Wanted
<1>8. /\ \A g \in Elems(stack') : g \in Elems(t) \/ g.do = "tries"
      /\ \A g \in Elems(t) : g \in Elems(stack')
      /\ stack' \in Seq(Frames)
  <2>1. <<f>> \o t \in Seq(Frames) /\ Elems(<<f>> \o t) = {f} \cup Elems(t)
    BY <1>2, <1>6, Under
  <2> QED  BY <1>2, <1>3, <1>6, <2>1
<1>9. Steady'
  <2>1. ~ SaidGoodbye' /\ ~ Doing("cid")'
    BY <1>2, <1>3, <1>8 DEF SInv, Steady, SaidGoodbye, Doing
  <2> QED  BY <1>1, <1>3, <1>7, <2>1 DEF SInv, Steady
<1>10. ~ Opening' /\ OpeningTask'
  <2>1. \A g \in Elems(stack') : g.do \notin Starts
    BY <1>2, <1>8 DEF Starts
  <2>2. ~ Opening'
    BY <2>1 DEF Opening, Doing, Starts
  <2> QED  BY <1>8, <2>1, <2>2, NoneOpens DEF OpeningTask
<1>11. ~ Late' => Opening \/ ~ Late
  BY <1>1, <1>2, <1>8 DEF Late
<1> QED  BY <1>3, <1>7, <1>9, <1>10, <1>11, StackStep

\* 'connect' of a visitor who is not logged in.
LEMMA OnConnectAnonymousSite ==
    ASSUME IInv, IInv', SInv, OnConnectAnonymous PROVE SInv'
<1> DEFINE t == Tail(stack)
           f == Frame("flush", First(buffer'))
<1>1. PICK e \in Calls : /\ stack # <<>> /\ Top.do = "connect" /\ Top.n = 0
                         /\ Unused(e) /\ Emit(e, t) /\ late' = FALSE /\ watched' = watched
  BY DEF OnConnectAnonymous, Step, Top
<1>2. /\ Top \in Frames /\ t \in Seq(Frames) /\ Elems(stack) = {Top} \cup Elems(t)
      /\ state = "open" /\ Opening /\ \A g \in Elems(t) : g.do = "flushall"
  BY <1>1, UnderPage
<1> HIDE DEF t
<1>3. /\ UNCHANGED <<active, chan, state, map, ws, up, down, peer>>
      /\ asked \subseteq asked' /\ stack' = <<f>> \o t
  BY <1>1, <1>2 DEF Emit, wireVars
<1>4. f \in Frames /\ f.do = "flush"
  <2>1. First(buffer') \in Names
    <3>1. buffer' \in Seq(Calls \cup Casts)
      BY DEF IInv, Typed, TypeOK
    <3> QED  BY <3>1, FirstTyped, NamesDiffer
  <2> QED  BY <2>1, FrameIs, DosAre
<1> HIDE DEF f
<1>5. stack' \in Seq(Frames) /\ Elems(stack') = {f} \cup Elems(t)
  BY <1>2, <1>3, <1>4, Under
<1>6. Steady'
  <2>1. \A g \in Elems(stack') : g.do # "cid"
    BY <1>2, <1>4, <1>5
  <2>2. \A c \in Channels : ~ chan'[c].torn /\ (chan'[c].st = "none" <=> chan[c].st = "none")
    BY <1>3 DEF SInv, Steady
  <2> QED  BY <1>1, <1>3, <2>1, <2>2, SteadyStill
<1>7. ~ Opening' /\ OpeningTask'
  <2>1. \A g \in Elems(stack') : g.do \notin Starts
    BY <1>2, <1>4, <1>5 DEF Starts
  <2>2. ~ Opening'
    BY <2>1 DEF Opening, Doing, Starts
  <2> QED  BY <1>5, <2>1, <2>2, NoneOpens DEF OpeningTask
<1>8. Wanted \/ Signed => Wanted' \/ Signed'
  <2>1. ~ Signed
    BY <1>1, <1>2 DEF Signed, Starts
  <2> QED  BY <1>3, <2>1 DEF Wanted
<1> QED  BY <1>2, <1>3, <1>6, <1>7, <1>8, StackStep

\* The callbacks in which the page only logs, or looks at the message.
LEMMA ReturnsSite ==
    ASSUME IInv, SInv, Returns PROVE SInv'
<1> DEFINE t == Tail(stack)
<1>1. /\ stack # <<>> /\ Top.do \in {"refused", "message", "close", "deauthenticate", "subscribe"}
      /\ late' = (late \/ (Top.do = "refused" /\ Top.n = 0)) /\ stack' = t
      /\ UNCHANGED <<selfVars, linkVars, wireVars, watched>>
  BY DEF Returns, Step, Top
<1>2. /\ t \in Seq(Frames) /\ Elems(stack) = {Top} \cup Elems(t)
      /\ Pairwise(t, Opens)
  BY <1>1, Popped, Parts, Opened1 DEF SInv
<1>3. UNCHANGED <<active, chan, state, map, asked, ws, up, down, peer>>
  BY <1>1 DEF selfVars, linkVars, wireVars
<1> HIDE DEF t
<1>4. Steady'
  <2>1. \A g \in Elems(stack') : g.do # "cid"
    BY <1>1, <1>2 DEF SInv, Steady, Doing
  <2>2. \A c \in Channels : ~ chan'[c].torn /\ (chan'[c].st = "none" <=> chan[c].st = "none")
    BY <1>3 DEF SInv, Steady
  <2> QED  BY <1>1, <1>3, <2>1, <2>2, SteadyStill
<1>5. (Opening' => Opening) /\ OpeningTask'
  <2>1. Opening' => Opening
    BY <1>1, <1>2 DEF Opening, Doing
  <2> QED  BY <1>1, <1>2, <1>3, <2>1 DEF SInv, OpeningTask
<1>6. Late => Late'
  BY <1>1, <1>2 DEF Late
<1>7. Wanted \/ Signed => Wanted' \/ Signed'
  BY <1>1, <1>2, <1>3 DEF Wanted, Signed, Starts
<1> QED  BY <1>3, <1>4, <1>5, <1>6, <1>7, StackStep

\* These are calls a page may make.
LEMMA SiteKeeps ==
    ASSUME IInv, AInv, Visitor \in Channels, Site PROVE IInv' /\ AInv'
<1>1. CASE ConnectSiteVisitor
  <2>1. /\ From({"connect", "answered", "subscribe", "message"}) /\ stack # <<>>
        /\ Subscribe({Visitor}, Tail(stack)) /\ Visitor \in Channels
    BY <1>1 DEF ConnectSiteVisitor, From, Step
  <2>2. Remains(Tail(stack))
    BY <2>1, QuietCallbacks
  <2>3. IInv'
    BY <2>1, <2>2, SubscribeKeeps
  <2> QED  BY <2>1, <2>2, <2>3, SubscribeAgrees
<1>2. CASE OnConnectAnonymous
  <2>1. From({"connect", "answered", "subscribe", "message"}) /\ stack # <<>>
    BY <1>2 DEF OnConnectAnonymous, From, Step
  <2>2. PICK e \in Calls : Unused(e) /\ Emit(e, Tail(stack))
    BY <1>2 DEF OnConnectAnonymous
  <2>3. Remains(Tail(stack)) /\ e \in Calls \cup Casts
    BY <2>1, QuietCallbacks
  <2>4. IInv'
    BY <2>2, <2>3, EmitKeeps
  <2> QED  BY <2>2, <2>3, <2>4, EmitAgrees
<1>3. CASE Returns
  <2>1. PageReturns
    BY <1>3 DEF Returns, PageReturns, Hooks
  <2>2. IInv'
    BY <2>1, PageReturnsKeeps
  <2> QED  BY <2>1, <2>2, QuietAgrees
<1> QED  BY <1>1, <1>2, <1>3 DEF Site

-----------------------------------------------------------------------------
(***************************************************************************)
(* What the browser reports.                                               *)
(***************************************************************************)

\* onerror, onclose and the timeouts of a connection.
LEMMA BrokenSite ==
    ASSUME IInv, IInv', SInv, WsError \/ WsClose \/ ConnectTimeout \/ PingTimeout \/ HandshakeTimeout,
           UNCHANGED siteVars
    PROVE  SInv'
<1>1. Idle /\ UNCHANGED <<active, watched, late>>
  BY DEF WsError, WsClose, ConnectTimeout, PingTimeout, HandshakeTimeout, WsClosed, selfVars, siteVars
<1>2. stack = <<>>
  BY <1>1, Resting
<1> DEFINE one == <<Frame("wsclose", None)>>
<1>3. Elems(<<>>) = {} /\ \A f \in Elems(one) : f.do \notin Starts \cup {"cid"}
  BY CloseCall, Alone, ElemsOfFew DEF Starts
<1> HIDE DEF one
<1>4. ASSUME NEW how \in Nat, state # "closed",
             \/ Closing(how, <<>>) /\ Gone
             \/ Closing(how, one) /\ UNCHANGED wireVars
      PROVE  SInv'
  <2>1. \/ ShutDown(how, buffer, map, chan, <<>>) /\ ws' = "gone" /\ up' = <<>> /\ down' = <<>>
        \/ ShutDown(how, buffer, map, chan, one) /\ UNCHANGED <<ws, up, down>>
    BY <1>4 DEF Closing, Gone, wireVars
  <2>2. MayClose(buffer, map, <<>>) /\ MayClose(buffer, map, one)
    BY <1>1, <1>4, MayCloseNow DEF one
  <2>3. CASE ShutDown(how, buffer, map, chan, <<>>) /\ ws' = "gone" /\ up' = <<>> /\ down' = <<>>
    BY <1>1, <1>3, <1>4, <2>2, <2>3, ShutDownSite
  <2>4. CASE ShutDown(how, buffer, map, chan, one) /\ UNCHANGED <<ws, up, down>>
    BY <1>1, <1>3, <1>4, <2>2, <2>4, ShutDownSite
  <2> QED  BY <2>1, <2>3, <2>4
<1>5. CASE WsError
  BY <1>4, <1>5 DEF WsError, WsClosed
<1>6. CASE ConnectTimeout
  BY <1>4, <1>6 DEF ConnectTimeout, one
<1>7. CASE PingTimeout
  BY <1>4, <1>7 DEF PingTimeout, one
<1>8. CASE WsClose
  <2>1. PICK how \in CloseCodes : WsClosed(how, <<>>)
    BY <1>8 DEF WsClose
  <2>2. how \in Nat
    BY SCClientAssumption
  <2>3. CASE state # "closed"
    BY <1>4, <2>1, <2>2, <2>3 DEF WsClosed
  <2>4. CASE state = "closed"
    <3>1. /\ UNCHANGED <<state, chan, stack>>
          /\ ws' = "gone" /\ up' = <<>> /\ down' = <<>>
      BY <1>2, <2>1, <2>4 DEF WsClosed, Closing, ShutDown, Gone
    <3>2. \A f \in Elems(stack') : f.do \notin Starts \cup {"cid"}
      BY <1>2, <1>3, <3>1
    <3>3. \A c \in Channels : ~ chan[c].torn
      BY DEF SInv, Steady
    <3> QED  BY <1>1, <2>4, <3>1, <3>2, <3>3, ClosedKeeps
  <2> QED  BY <2>3, <2>4
<1>9. CASE HandshakeTimeout
  <2> DEFINE mp == MinusName(map, Handshake)
  <2>1. /\ state = "connecting" /\ UNCHANGED <<ws, up, down>>
        /\ ShutDown(4003, buffer, mp, chan, one)
    BY <1>9 DEF HandshakeTimeout, MinusName, wireVars, one
  <2>2. mp \in Seq(Entries) /\ Pairwise(mp, EntriesDiffer) /\ Elems(mp) = {x \in Elems(map) : x.at # Handshake}
    BY Parts, WithoutName DEF TypeOK, Held
  <2> HIDE DEF mp
  <2>3. Elems(mp) = {} /\ \A x \in Elems(map) : x.at \notin asked
    <3>1. \A x \in Elems(map) : x.at = Handshake
      BY <2>1, Parts DEF Disciplined
    <3> QED  BY <2>2, <3>1, Parts, NamesDiffer DEF TypeOK
  <2>4. MayClose(buffer, map, one)
    BY <1>1, <2>1, MayCloseNow DEF one
  <2>5. MayClose(buffer, mp, one) /\ 4003 \in Nat
    BY <2>2, <2>3, <2>4 DEF MayClose
  <2> QED  BY <1>1, <1>3, <2>1, <2>5, ShutDownSite
<1> QED  BY <1>5, <1>6, <1>7, <1>8, <1>9

\* onopen and the reconnect timer: nothing has been received on the WebSocket.
LEMMA BeginsSite ==
    ASSUME IInv, SInv, WsOpen \/ ReconnectTimer, UNCHANGED siteVars PROVE SInv'
<1>1. Idle /\ Elems(stack) = {} /\ stack = <<>>
  BY Resting DEF WsOpen, ReconnectTimer
<1>2. /\ UNCHANGED <<active, watched, chan, stack>> /\ state' = "connecting"
      /\ ws' = "open" \/ (ws' = "connecting" /\ up' = <<>>)
      /\ down' = <<>>
      /\ up' = <<>> \/ \E cid \in FreshCids : up' = <<Message("handshake", Handshake, cid, token)>>
  <2>1. CASE WsOpen
    BY <2>1 DEF WsOpen, SInv, Shaking, selfVars, siteVars
  <2>2. CASE ReconnectTimer
    <3>1. active
      BY DEF SInv, Steady
    <3> QED  BY <2>2, <3>1 DEF ReconnectTimer, NewTransport, selfVars, siteVars
  <2> QED  BY <2>1, <2>2
<1>3. \A m \in Elems(up') : m.ev = "handshake"
  <2>1. CASE up' = <<>>
    BY <2>1, ElemsOfFew
  <2>2. ASSUME NEW cid \in FreshCids, up' = <<Message("handshake", Handshake, cid, token)>>
        PROVE  \A m \in Elems(up') : m.ev = "handshake"
    <3>1. Message("handshake", Handshake, cid, token).ev = "handshake"
      BY DEF Message
    <3> QED  BY <2>2, <3>1, ElemsOfFew
  <2> QED  BY <1>2, <2>1, <2>2
<1>4. Steady'
  <2>1. ~ SaidGoodbye' /\ ~ Doing("cid")'
    BY <1>1, <1>2, <1>3 DEF SaidGoodbye, Doing
  <2> QED  BY <1>2, <2>1 DEF SInv, Steady
<1>5. ~ Opening' /\ OpeningTask'
  BY <1>1, <1>2, PairwiseFew DEF OpeningTask, Opening, Doing
<1>6. Exchange'
  <2>1. Pairwise(up', Apart) /\ Pairwise(down', Apart)
    BY <1>2, PairwiseFew
  <2>2. Elems(down') = {}
    BY <1>2, ElemsOfFew
  <2> QED  BY <2>1, <2>2 DEF Exchange
<1>7. Shaking'
  BY <1>2, ElemsOfFew DEF Shaking
<1>8. Logins' /\ Due'
  BY <1>2, <1>3 DEF Logins, Due
<1> QED  BY <1>4, <1>5, <1>6, <1>7, <1>8 DEF SInv, Visiting

\* _handleEventAckTimeout: the login is given up.
LEMMA AckTimeoutSite ==
    ASSUME IInv, SInv, NEW e \in Calls, AckTimeout(e), UNCHANGED siteVars PROVE SInv'
<1> DEFINE f1 == Frame("refused", e)
           f2 == Frame("cancel", e)
<1>1. f1 \in Frames /\ f1.do = "refused" /\ f1.n = 0 /\ f2 \in Frames /\ f2.do = "cancel"
  BY NamesDiffer, FrameIs, DosAre
<1>2. /\ stack' = <<f1, f2>> /\ Idle
      /\ UNCHANGED <<active, watched, state, chan, map, ws, up, down, peer>>
  BY DEF AckTimeout, wireVars, siteVars
<1> HIDE DEF f1, f2
<1>3. stack' \in Seq(Frames) /\ Elems(stack') = {f1, f2}
  BY <1>1, <1>2, ElemsOfFew
<1>4. Late'
  BY <1>1, <1>3 DEF Late
<1>5. ~ Opening' /\ OpeningTask'
  <2>1. \A g \in Elems(stack') : g.do \notin Starts
    BY <1>1, <1>3 DEF Starts
  <2>2. ~ Opening'
    BY <2>1 DEF Opening, Doing, Starts
  <2> QED  BY <1>3, <2>1, <2>2, NoneOpens DEF OpeningTask
<1>6. Steady'
  <2>1. \A g \in Elems(stack') : g.do # "cid"
    BY <1>1, <1>3
  <2>2. \A c \in Channels : ~ chan'[c].torn /\ (chan'[c].st = "none" <=> chan[c].st = "none")
    BY <1>2 DEF SInv, Steady
  <2> QED  BY <1>2, <2>1, <2>2, SteadyStill
<1> QED  BY <1>2, <1>4, <1>5, <1>6, StackStep

\* A call id of the message that is received is on its way nowhere else.
LEMMA HeadApart ==
    ASSUME IInv, SInv, down # <<>>
    PROVE  /\ Pairwise(Tail(down), Apart)
           /\ \A d \in Elems(up) \cup Elems(Tail(down)) : d.cid # 0 => d.cid # Head(down).cid
<1> DEFINE h == Head(down)
<1>1. down \in Seq(Messages) /\ Elems(down) = {h} \cup Elems(Tail(down))
  BY Parts, ElemsOfTail DEF TypeOK
<1>2. Pairwise(Tail(down), Apart) /\ \A y \in Elems(Tail(down)) : <<h, y>> \in Apart
  BY <1>1, PairwiseTail DEF SInv, Exchange
<1> HIDE DEF h
<1>3. \A y \in Elems(Tail(down)) : y.cid # 0 => y.cid # h.cid
  BY <1>2 DEF Apart
<1>4. \A m \in Elems(up) : m.cid # 0 => m.cid # h.cid
  BY <1>1 DEF SInv, Exchange
<1> QED  BY <1>2, <1>3, <1>4 DEF h

\* A message is received: the others move up, and what waits for them still waits.
LEMMA Received ==
    ASSUME IInv, SInv, down # <<>>, down' = Tail(down), up' = up,
           Elems(map') \subseteq Elems(map),
           \A x \in Elems(map) : /\ x.at \in asked
                                 /\ \E d \in Elems(up) \cup Elems(down') : d.cid = x.cid
                                 => x \in Elems(map') /\ x.at \in asked'
    PROVE  /\ Exchange' /\ Head(down) \in Elems(down) /\ Elems(down') \subseteq Elems(down)
           /\ Refusal(Head(down)) => ~ Settling
           /\ (\A d \in Elems(down) : ~ Refusal(d)) => \A d \in Elems(down') : ~ Refusal(d)'
           /\ Expected => Expected' \/ (Success(Head(down)) /\ \A d \in Elems(down) : ~ Refusal(d))
           /\ (\A m \in Elems(up) : m.ev = "login" => \E x \in Elems(map) : x.cid = m.cid /\ x.at \in asked)
              => \A m \in Elems(up') : m.ev = "login" => \E x \in Elems(map') : x.cid = m.cid /\ x.at \in asked'
<1> DEFINE h == Head(down)
<1>1. /\ h \in Messages /\ down' \in Seq(Messages) /\ Elems(down) = {h} \cup Elems(down')
      /\ down \in Seq(Messages) /\ up \in Seq(Messages)
      /\ Elems(up) \subseteq Messages /\ Elems(down) \subseteq Messages
  BY Parts, ElemsOfTail, ElemsTyped DEF TypeOK
<1>2. /\ Len(down') = Len(down) - 1 /\ Len(down) \in Nat /\ DOMAIN down = 1 .. Len(down)
      /\ DOMAIN down' = 1 .. Len(down') /\ h = down[1]
      /\ \A i \in 1 .. Len(down') : down'[i] = down[i + 1]
  BY HeadTailProperties
<1> HIDE DEF h
<1>3. Exchange'
  <2>1. Pairwise(down', Apart)
    BY HeadApart
  <2>2. Pairwise(up', Apart) /\ \A m \in Elems(up'), d \in Elems(down') : m.cid # 0 => m.cid # d.cid
    BY <1>1 DEF SInv, Exchange
  <2> QED  BY <2>1, <2>2 DEF Exchange
<1>4. \A d \in Elems(down') : Refusal(d)' => Refusal(d)
  BY DEF Refusal
<1>5. \A d \in Elems(down') : Success(d) => Success(d)'
  BY DEF Success
<1>6. Expected => Expected' \/ (Success(h) /\ \A d \in Elems(down) : ~ Refusal(d))
  <2> SUFFICES ASSUME Expected PROVE Expected' \/ (Success(h) /\ \A d \in Elems(down) : ~ Refusal(d))
    OBVIOUS
  <2>1. PICK i \in DOMAIN down : Success(down[i]) /\ \A j \in DOMAIN down : Refusal(down[j]) => j < i
    BY DEF Expected
  <2>2. CASE i = 1
    <3>1. \A j \in DOMAIN down : ~ Refusal(down[j])
      BY <1>2, <2>1, <2>2
    <3>2. \A d \in Elems(down) : ~ Refusal(d)
      BY <3>1 DEF Elems
    <3> QED  BY <1>2, <2>1, <2>2, <3>2
  <2>3. CASE i # 1
    <3>1. i - 1 \in 1 .. Len(down') /\ down'[i - 1] = down[i]
      BY <1>2, <2>3
    <3>2. \A k \in 1 .. Len(down') : down'[k] \in Elems(down')
      BY <1>1, ElemsTyped
    <3>3. Success(down[i - 1])'
      <4>1. PICK d \in Elems(down') : d = down[i] /\ d = down'[i - 1]
        BY <3>1, <3>2
      <4>2. Success(d)'
        BY <1>5, <2>1, <4>1
      <4> QED  BY <4>1, <4>2 DEF Success
    <3>4. ASSUME NEW j \in 1 .. Len(down'), Refusal(down[j])' PROVE j < i - 1
      <4>1. j + 1 \in DOMAIN down /\ down'[j] = down[j + 1] /\ i \in Nat
        BY <1>2
      <4>2. PICK d \in Elems(down') : d = down[j + 1] /\ d = down'[j]
        BY <3>2, <4>1
      <4>3. Refusal(d)'
        BY <3>4, <4>2 DEF Refusal
      <4>4. Refusal(down[j + 1])
        BY <1>4, <4>2, <4>3
      <4>5. j + 1 < i
        BY <2>1, <4>1, <4>4
      <4> QED  BY <1>2, <4>1, <4>5
    <3> QED  BY <1>2, <3>1, <3>3, <3>4 DEF Expected
  <2> QED  BY <2>2, <2>3
<1>7. Refusal(h) => ~ Settling
  BY <1>1 DEF Settling
<1> QED  BY <1>1, <1>3, <1>4, <1>6, <1>7 DEF h

\* What a message leaves of the rest of the invariant, on an open client.
LEMMA ReceivedSite ==
    ASSUME IInv, SInv, Idle, ws = "open", ws' = ws, down # <<>>, down' = Tail(down), UNCHANGED <<up, peer>>,
           Steady', OpeningTask', ~ Opening', state' = state,
           Elems(map') \subseteq Elems(map),
           \A x \in Elems(map) : /\ x.at \in asked
                                 /\ \E d \in Elems(up) \cup Elems(down') : d.cid = x.cid
                                 => x \in Elems(map') /\ x.at \in asked',
           ~ Late' => ~ Late,
           Success(Head(down)) => Signed',
           Refusal(Head(down)) \/ (Wanted => Wanted')
    PROVE  SInv'
<1>1. /\ Exchange' /\ Head(down) \in Elems(down) /\ Elems(down') \subseteq Elems(down)
      /\ Refusal(Head(down)) => ~ Settling
      /\ (\A d \in Elems(down) : ~ Refusal(d)) => \A d \in Elems(down') : ~ Refusal(d)'
      /\ Expected => Expected' \/ (Success(Head(down)) /\ \A d \in Elems(down) : ~ Refusal(d))
      /\ (\A m \in Elems(up) : m.ev = "login" => \E x \in Elems(map) : x.cid = m.cid /\ x.at \in asked)
         => \A m \in Elems(up') : m.ev = "login" => \E x \in Elems(map') : x.cid = m.cid /\ x.at \in asked'
  BY Received
<1>2. ~ Signed /\ ~ Opening
  <2>1. Elems(stack) = {}
    BY Resting
  <2> QED  BY <2>1 DEF Signed, Opening, Doing
<1>3. Shaking'
  BY <1>1, ElemsOfFew DEF SInv, Shaking
<1>4. Logins'
  BY <1>1, <1>2 DEF SInv, Logins
<1>5. Due'
  <2> SUFFICES ASSUME state = "open", peer.authed, ~ Late' PROVE Expected' \/ Settling'
    BY DEF Due
  <2>1. Expected \/ Settling
    BY DEF SInv, Due
  <2>2. CASE Settling
    <3>1. (\A d \in Elems(down) : ~ Refusal(d)) /\ Wanted'
      BY <1>1, <1>2, <2>2 DEF Settling
    <3> QED  BY <1>1, <3>1 DEF Settling
  <2>3. CASE Expected
    <3>1. CASE Success(Head(down)) /\ \A d \in Elems(down) : ~ Refusal(d)
      BY <1>1, <3>1 DEF Settling
    <3> QED  BY <1>1, <2>3, <3>1
  <2> QED  BY <2>1, <2>2, <2>3
<1> QED  BY <1>1, <1>3, <1>4, <1>5 DEF SInv, Visiting


\* An answer: of the handshake, of a login, of a subscribe, or one that comes too late.
LEMMA ReceiveAnswerSite ==
    ASSUME IInv, AInv, SInv, ReceiveAnswer, UNCHANGED siteVars PROVE SInv'
<1>1. Elems(stack) = {} /\ stack = <<>> /\ TypeOK /\ Disciplined /\ TimedOut /\ Held /\ Idle
  BY Parts, Resting DEF ReceiveAnswer
<1> DEFINE m == Head(down)
<1>2. /\ ws = "open" /\ down # <<>> /\ m.ev = "answer" /\ down' = Tail(down)
      /\ map' = MinusCid(map, m.cid)
      /\ UNCHANGED <<active, ws, up, peer, watched, late>>
  BY DEF ReceiveAnswer, MinusCid, siteVars
<1>3. m \in Messages /\ m.ok \in BOOLEAN /\ m \in Elems(down)
  <2>1. m \in Messages /\ Elems(down) = {m} \cup Elems(Tail(down))
    BY <1>1, <1>2, ElemsOfTail DEF TypeOK
  <2> QED  BY <2>1 DEF Messages
<1>4. /\ Elems(map') = {x \in Elems(map) : x.cid # m.cid}
      /\ Elems(map) \subseteq Entries
      /\ \A x, y \in Elems(map) : x.cid = y.cid \/ (x.at \in Calls \cup {Handshake} /\ x.at = y.at) => x = y
  <2>1. map \in Seq(Entries) /\ Pairwise(map, EntriesDiffer)
    BY <1>1 DEF TypeOK, Held
  <2>2. Elems(map') = {x \in Elems(map) : x.cid # m.cid}
    BY <1>2, <2>1, WithoutCid
  <2> QED  BY <2>1, <2>2, OneEntry, ElemsTyped
<1>5. \A x \in Elems(map) : (\E d \in Elems(up) \cup Elems(down') : d.cid = x.cid) => x \in Elems(map')
  <2>1. \A x \in Elems(map) : x.cid # 0
    BY <1>4 DEF Entries, Cids
  <2> QED  BY <1>2, <1>4, <2>1, HeadApart
<1>6. asked \subseteq Calls /\ active /\ \A c \in Channels : ~ chan[c].torn
  BY <1>1 DEF TypeOK, SInv, Steady
<1>7. \/ /\ \A e \in Elems(map) : e.cid # m.cid
         /\ UNCHANGED <<state, preparing, auth, asked, chan, stack>>
      \/ \E e \in Elems(map) :
               /\ e.cid = m.cid
               /\ \/ /\ e.at = Handshake
                     /\ Opened(m.ok)
                     /\ UNCHANGED <<asked, chan>>
                  \/ /\ e.at \in Calls
                     /\ asked' = asked \ {e.at}
                     /\ stack' = IF e.at \in asked
                                 THEN <<IF m.ok THEN Frame("answered", e.at) ELSE Denied(e.at)>> ELSE <<>>
                     /\ UNCHANGED <<state, preparing, auth, chan>>
                  \/ /\ e.at \in Channels
                     /\ chan' = [chan EXCEPT ![e.at] =
                                   Settled(@, IF m.ok THEN "subscribed" ELSE "unsubscribed")]
                     /\ stack' = IF m.ok /\ chan[e.at].st \notin {"none", "subscribed"}
                                 THEN <<Frame("subscribe", e.at)>> ELSE <<>>
                     /\ UNCHANGED <<state, preparing, auth, asked>>
  BY DEF ReceiveAnswer
\* What does not open.
<1>8. ASSUME stack' \in Seq(Frames), \A f \in Elems(stack') : f.do \notin Starts \cup {"cid"},
             state' = state, \A c \in Channels : ~ chan'[c].torn /\ (chan'[c].st = "none" <=> chan[c].st = "none")
      PROVE  Steady' /\ OpeningTask' /\ ~ Opening' /\ (~ Late' => ~ Late)
  <2>1. Steady'
    BY <1>2, <1>8, SteadyStill
  <2>2. ~ Opening'
    BY <1>8 DEF Opening, Doing, Starts
  <2>3. OpeningTask'
    BY <1>8, <2>2, NoneOpens DEF OpeningTask
  <2> QED  BY <1>1, <1>2, <2>1, <2>2, <2>3 DEF Late
<1>9. CASE /\ \A e \in Elems(map) : e.cid # m.cid
           /\ UNCHANGED <<state, preparing, auth, asked, chan, stack>>
  <2>1. ~ Success(m)
    BY <1>9 DEF Success
  <2>2. Wanted => Wanted'
    BY <1>9 DEF Wanted
  <2>3. Steady' /\ OpeningTask' /\ ~ Opening' /\ (~ Late' => ~ Late)
    BY <1>1, <1>6, <1>8, <1>9 DEF TypeOK
  <2> QED  BY <1>1, <1>2, <1>4, <1>5, <1>9, <2>1, <2>2, <2>3, ReceivedSite
<1>10. ASSUME NEW e \in Elems(map), e.cid = m.cid, e.at = Handshake, Opened(m.ok), UNCHANGED <<asked, chan>>
       PROVE  SInv'
  <2> DEFINE bye == Frame("deauthenticate", None)
             go  == [Frame("open", None) EXCEPT !.n = IF m.ok THEN 1 ELSE 0]
  <2>1. /\ bye \in Frames /\ bye.do = "deauthenticate"
        /\ go \in Frames /\ go.do = "open" /\ go.n = IF m.ok THEN 1 ELSE 0
    <3>1. None \in Names /\ (IF m.ok THEN 1 ELSE 0) \in Nat
      BY NamesDiffer
    <3>2. bye \in Frames /\ bye.do = "deauthenticate" /\ Frame("open", None) \in Frames /\ Frame("open", None).do = "open"
      BY <3>1, FrameIs, DosAre
    <3> HIDE DEF bye, m
    <3> QED  BY <3>1, <3>2, FrameWithN
  <2>2. state' = "open" /\ stack' = (IF auth /\ ~ m.ok THEN <<bye>> ELSE <<>>) \o <<go>>
    BY <1>10 DEF Opened
  <2> HIDE DEF bye, go
  <2>3. /\ stack' \in Seq(Frames) /\ Elems(stack') \subseteq {bye, go} /\ go \in Elems(stack')
        /\ Pairwise(stack', Opens)
    <3> DEFINE one == <<go>>
    <3>1. one \in Seq(Frames) /\ Elems(one) = {go} /\ Pairwise(one, Opens)
      BY <2>1, Alone, PairwiseFew
    <3>2. stack' = <<bye>> \o one \/ stack' = <<>> \o one
      BY <2>2
    <3> HIDE DEF one
    <3>3. <<bye, go>> \in Opens
      BY <2>1 DEF Opens, Starts
    <3>4. <<bye>> \o one \in Seq(Frames) /\ Elems(<<bye>> \o one) = {bye} \cup Elems(one) /\ Pairwise(<<bye>> \o one, Opens)
      BY <2>1, <3>1, <3>3, Under
    <3>5. <<>> \o one = one
      BY <3>1, Beside
    <3> QED  BY <3>1, <3>2, <3>4, <3>5
  <2>4. state = "connecting"
    BY <1>1, <1>6, <1>10 DEF Disciplined, TypeOK
  <2>5. \A x \in Elems(map) : x.at = Handshake /\ x.at \notin asked /\ x = e
    BY <1>1, <1>4, <1>6, <1>10, <2>4, NamesDiffer DEF Disciplined
  <2>6. Elems(map') = {}
    BY <1>4, <1>10, <2>5
  <2>7. Exchange'
    BY <1>2, <2>5, <2>6, Received
  <2>8. Steady'
    <3>1. ~ SaidGoodbye' /\ ~ Doing("cid")'
      BY <1>2, <2>1, <2>3 DEF SInv, Steady, SaidGoodbye, Doing
    <3> QED  BY <1>2, <1>10, <3>1 DEF SInv, Steady
  <2>9. OpeningTask'
    BY <2>2, <2>3 DEF OpeningTask
  <2>10. \A d \in Elems(up) : d.ev \notin {"handshake", "login"}
    BY <1>2, <2>4 DEF SInv, Shaking, Logins
  <2>11. Shaking' /\ Logins'
    BY <1>2, <2>2, <2>10 DEF Shaking, Logins
  <2>12. Due'
    <3> SUFFICES ASSUME peer.authed PROVE Settling'
      BY <1>2 DEF Due
    <3>1. m.ok
      BY <1>2, <1>3, <1>10, <2>4 DEF SInv, Shaking
    <3>2. Signed'
      BY <2>1, <2>3, <3>1 DEF Signed, Starts
    <3>3. \A d \in Elems(down') : ~ Refusal(d)'
      BY <2>6 DEF Refusal
    <3> QED  BY <3>2, <3>3 DEF Settling
  <2> QED  BY <2>7, <2>8, <2>9, <2>11, <2>12 DEF SInv, Visiting
<1>11. ASSUME NEW e \in Elems(map), e.cid = m.cid, e.at \in Calls, asked' = asked \ {e.at},
              stack' = IF e.at \in asked
                       THEN <<IF m.ok THEN Frame("answered", e.at) ELSE Denied(e.at)>> ELSE <<>>,
              UNCHANGED <<state, preparing, auth, chan>>
       PROVE  SInv'
  <2> DEFINE told == IF m.ok THEN Frame("answered", e.at) ELSE Denied(e.at)
  <2>1. told \in Frames /\ told.do \in {"answered", "refused"} /\ (m.ok => told.do = "answered")
    <3>1. e.at \in Names
      BY <1>11, NamesDiffer
    <3>2. /\ Frame("answered", e.at) \in Frames /\ Frame("answered", e.at).do = "answered"
          /\ Frame("refused", e.at) \in Frames /\ Frame("refused", e.at).do = "refused"
      BY <3>1, FrameIs, DosAre
    <3>3. Denied(e.at) \in Frames /\ Denied(e.at).do = "refused"
      BY <3>2, FrameWithN DEF Denied
    <3> QED  BY <3>2, <3>3
  <2>2. e.at \in asked
    BY <1>1, <1>6, <1>11 DEF TimedOut
  <2>3. stack' = <<told>>
    BY <1>11, <2>2
  <2> HIDE DEF told
  <2>4. stack' \in Seq(Frames) /\ Elems(stack') = {told}
    BY <2>1, <2>3, Alone
  <2>5. Steady' /\ OpeningTask' /\ ~ Opening' /\ (~ Late' => ~ Late)
    BY <1>6, <1>8, <1>11, <2>1, <2>4 DEF Starts
  <2>6. \A x \in Elems(map) : x \in Elems(map') => x.at # e.at
    BY <1>4, <1>11
  <2>7. Success(m) => Signed'
    BY <2>1, <2>4 DEF Success, Signed
  <2>8. Wanted => Wanted'
    BY <1>11 DEF Wanted
  <2> QED  BY <1>1, <1>2, <1>4, <1>5, <1>11, <2>5, <2>6, <2>7, <2>8, ReceivedSite
<1>12. ASSUME NEW e \in Elems(map), e.cid = m.cid, e.at \in Channels,
              chan' = [chan EXCEPT ![e.at] = Settled(@, IF m.ok THEN "subscribed" ELSE "unsubscribed")],
              stack' = IF m.ok /\ chan[e.at].st \notin {"none", "subscribed"}
                       THEN <<Frame("subscribe", e.at)>> ELSE <<>>,
              UNCHANGED <<state, preparing, auth, asked>>
       PROVE  SInv'
  <2> DEFINE told == Frame("subscribe", e.at)
  <2>1. told \in Frames /\ told.do = "subscribe"
    <3>1. e.at \in Names
      BY <1>12, NamesDiffer
    <3> QED  BY <3>1, FrameIs, DosAre
  <2>2. stack' = <<told>> \/ stack' = <<>>
    BY <1>12
  <2> HIDE DEF told
  <2>3. stack' \in Seq(Frames) /\ \A f \in Elems(stack') : f.do = "subscribe"
    <3>1. stack' \in Seq(Frames) /\ Elems(stack') \subseteq {told}
      BY <2>1, <2>2, CallOrNone
    <3> QED  BY <2>1, <3>1
  <2>4. chan[e.at].st = "pending" /\ e.at = Visitor
    <3>1. chan[e.at].st = "pending"
      BY <1>6, <1>12 DEF AInv, Current
    <3> QED  BY <1>12, <3>1 DEF SInv, Steady
  <2> DEFINE new == Settled(chan[e.at], IF m.ok THEN "subscribed" ELSE "unsubscribed")
  <2>5. ~ new.torn /\ new.st # "none" /\ (m.ok => new.st = "subscribed")
    BY <2>4 DEF Settled, NoChannel
  <2>6. \A c \in Channels : chan'[c] = IF c = e.at THEN new ELSE chan[c]
    BY <1>1, <1>12 DEF TypeOK
  <2> HIDE DEF new
  <2>7. \A c \in Channels : ~ chan'[c].torn /\ (chan'[c].st = "none" <=> chan[c].st = "none")
    BY <1>6, <2>4, <2>5, <2>6
  <2>8. Steady' /\ OpeningTask' /\ ~ Opening' /\ (~ Late' => ~ Late)
    BY <1>8, <1>12, <2>3, <2>7 DEF Starts
  <2>9. ~ Success(m)
    <3>1. \A x \in Elems(map) : x.cid = m.cid => x.at \notin asked
      BY <1>4, <1>6, <1>12, NamesDiffer
    <3> QED  BY <3>1 DEF Success
  <2>10. Refusal(m) \/ (Wanted => Wanted')
    <3>1. CASE m.ok
      BY <1>12, <2>4, <2>5, <2>6, <3>1 DEF Wanted
    <3>2. CASE ~ m.ok
      BY <1>2, <1>12, <2>4, <3>2 DEF Refusal
    <3> QED  BY <3>1, <3>2
  <2> QED  BY <1>1, <1>2, <1>4, <1>5, <1>12, <2>8, <2>9, <2>10, ReceivedSite
<1> QED  BY <1>7, <1>9, <1>10, <1>11, <1>12


\* An event: a new token, or a publication.
LEMMA ReceiveEventSite ==
    ASSUME IInv, SInv, ReceiveEvent, UNCHANGED siteVars PROVE SInv'
<1>1. Elems(stack) = {} /\ stack = <<>> /\ TypeOK /\ Leaving /\ Idle
  BY Parts, Resting DEF ReceiveEvent
<1> DEFINE m == Head(down)
<1>2. /\ ws = "open" /\ down # <<>> /\ m.ev # "answer" /\ down' = Tail(down)
      /\ UNCHANGED <<active, asked, state, chan, map, ws, up, peer, watched, late>>
  BY DEF ReceiveEvent, linkVars, siteVars
<1>3. state # "closed"
  BY <1>1, <1>2 DEF Leaving, Doing, SInv, Steady
<1>4. \/ m.ev = "setAuthToken" /\ stack' = (IF auth THEN <<>> ELSE <<ProcessPending>>) \o <<Frame("respond", None)>>
      \/ m.ev = "publish" /\ (stack' = <<Frame("message", m.at)>> \/ stack' = <<>>)
  BY <1>3 DEF ReceiveEvent
<1>5. m \in Messages
  BY <1>1, <1>2, ElemsOfTail DEF TypeOK
<1> HIDE DEF m
<1>6. stack' \in Seq(Frames) /\ \A f \in Elems(stack') : f.do \in {"tries", "respond", "message"}
  <2>1. CASE m.ev = "publish" /\ (stack' = <<Frame("message", m.at)>> \/ stack' = <<>>)
    <3> DEFINE told == Frame("message", m.at)
    <3>1. m.at \in Names
      BY <1>5 DEF Messages
    <3>2. told \in Frames /\ told.do = "message"
      BY <3>1, FrameIs, DosAre
    <3> HIDE DEF told
    <3>3. stack' \in Seq(Frames) /\ Elems(stack') \subseteq {told}
      BY <2>1, <3>2, CallOrNone DEF told
    <3> QED  BY <3>2, <3>3
  <2>2. CASE stack' = (IF auth THEN <<>> ELSE <<ProcessPending>>) \o <<Frame("respond", None)>>
    <3> DEFINE one == <<Frame("respond", None)>>
    <3>1. None \in Names /\ Pending \in SUBSET Channels
      BY NamesDiffer DEF Pending
    <3>2. /\ Frame("respond", None) \in Frames /\ Frame("respond", None).do = "respond"
          /\ Frame("tries", None) \in Frames /\ Frame("tries", None).do = "tries"
      BY <3>1, FrameIs, DosAre
    <3>3. ProcessPending \in Frames /\ ProcessPending.do = "tries"
      BY <3>1, <3>2, FrameWithOf DEF ProcessPending
    <3>4. one \in Seq(Frames) /\ Elems(one) = {Frame("respond", None)}
      BY <3>2, Alone
    <3>5. stack' = <<ProcessPending>> \o one \/ stack' = <<>> \o one
      BY <2>2
    <3> HIDE DEF one
    <3>6. <<ProcessPending>> \o one \in Seq(Frames) /\ Elems(<<ProcessPending>> \o one) = {ProcessPending} \cup Elems(one)
      BY <3>3, <3>4, Under
    <3>7. <<>> \o one = one
      BY <3>4, Beside
    <3> QED  BY <3>2, <3>3, <3>4, <3>5, <3>6, <3>7
  <2> QED  BY <1>4, <2>1, <2>2
<1>7. Steady'
  <2>1. \A c \in Channels : ~ chan'[c].torn /\ (chan'[c].st = "none" <=> chan[c].st = "none")
    BY <1>2 DEF SInv, Steady
  <2> QED  BY <1>2, <1>6, <2>1, SteadyStill
<1>8. ~ Opening' /\ OpeningTask'
  <2>1. \A f \in Elems(stack') : f.do \notin Starts
    BY <1>6 DEF Starts
  <2>2. ~ Opening'
    BY <2>1 DEF Opening, Doing, Starts
  <2> QED  BY <1>6, <2>1, <2>2, NoneOpens DEF OpeningTask
<1>9. (~ Late' => ~ Late) /\ (Wanted => Wanted') /\ ~ Success(m)
  BY <1>1, <1>2 DEF Late, Wanted, Success
<1> QED  BY <1>1, <1>2, <1>7, <1>8, <1>9, ReceivedSite DEF m

-----------------------------------------------------------------------------
(***************************************************************************)
(* What the server does.                                                   *)
(***************************************************************************)


\* One message, and two of which the second has no call id.
LEMMA FewMessages ==
    ASSUME NEW s \in Seq(Messages), NEW d \in Messages
    PROVE  /\ <<d>> \in Seq(Messages) /\ Elems(<<d>>) = {d} /\ Pairwise(<<d>>, Apart)
           /\ Append(s, d) = s \o <<d>>
           /\ \A e \in Messages : e.cid = 0 =>
                 <<d, e>> \in Seq(Messages) /\ Elems(<<d, e>>) = {d, e} /\ Pairwise(<<d, e>>, Apart)
<1>1. <<d>> \in Seq(Messages) /\ Append(s, d) = s \o <<d>>
  BY AppendIsConcat
<1>2. ASSUME NEW e \in Messages, e.cid = 0
      PROVE  <<d, e>> \in Seq(Messages) /\ Elems(<<d, e>>) = {d, e} /\ Pairwise(<<d, e>>, Apart)
  <2>1. <<d, e>> \in Apart
    BY <1>2 DEF Apart
  <2>2. <<d, e>> \in Seq(Messages)
    OBVIOUS
  <2> QED  BY <2>1, <2>2, ElemsOfFew, PairwiseFew
<1>3. Elems(<<d>>) = {d} /\ Pairwise(<<d>>, Apart)
  BY ElemsOfFew, PairwiseFew
<1> QED  BY <1>1, <1>2, <1>3

\* The server says something that is no refusal of the page's request.
LEMMA SaysOn ==
    ASSUME IInv, UNCHANGED <<asked, chan, map, stack>>, NEW t \in Seq(Messages), down' = down \o t,
           \A d \in Elems(t) : ~ Refusal(d)
    PROVE  /\ Expected \/ (\E d \in Elems(t) : Success(d)) => Expected'
           /\ Settling => Settling'
<1>1. /\ down \in Seq(Messages) /\ DOMAIN down = 1 .. Len(down) /\ Len(down) \in Nat
      /\ Len(t) \in Nat /\ DOMAIN t = 1 .. Len(t)
      /\ DOMAIN down' = 1 .. Len(down) + Len(t)
      /\ \A i \in 1 .. Len(down) : down'[i] = down[i]
      /\ \A i \in 1 .. Len(t) : down'[Len(down) + i] = t[i] /\ t[i] \in Elems(t)
      /\ \A i \in 1 .. Len(down) + Len(t) : i \in 1 .. Len(down) \/ \E k \in 1 .. Len(t) : i = Len(down) + k
  <2>1. down \in Seq(Messages)
    BY Parts DEF TypeOK
  <2>2. \A i \in 1 .. Len(t) : t[i] \in Elems(t)
    BY ElemsTyped
  <2>3. ASSUME NEW i \in 1 .. Len(down) + Len(t), i \notin 1 .. Len(down)
        PROVE  \E k \in 1 .. Len(t) : i = Len(down) + k
    <3>1. i - Len(down) \in 1 .. Len(t) /\ i = Len(down) + (i - Len(down))
      BY <2>1, <2>3
    <3> QED  BY <3>1
  <2> QED  BY <2>1, <2>2, <2>3
<1>2. /\ \A d : Refusal(d)' <=> Refusal(d)
      /\ \A d : Success(d)' <=> Success(d)
  BY DEF Refusal, Success
<1>3. \A j \in DOMAIN down' : Refusal(down[j])' => j \in 1 .. Len(down) /\ Refusal(down[j])
  <2> SUFFICES ASSUME NEW j \in DOMAIN down', Refusal(down[j])'
               PROVE  j \in 1 .. Len(down) /\ Refusal(down[j])
    OBVIOUS
  <2>1. PICK d : d = down'[j]
    OBVIOUS
  <2>2. Refusal(d)
    BY <1>2, <2>1 DEF Refusal
  <2>3. CASE j \in 1 .. Len(down)
    BY <1>1, <2>1, <2>2, <2>3
  <2>4. CASE j \notin 1 .. Len(down)
    BY <1>1, <2>1, <2>2, <2>4
  <2> QED  BY <2>3, <2>4
<1>4. ASSUME NEW i \in DOMAIN down', Success(down[i])', i \notin 1 .. Len(down) PROVE Expected'
  <2>1. \A j \in 1 .. Len(down) : j < i
    BY <1>1, <1>4
  <2>2. \A j \in DOMAIN down' : Refusal(down[j])' => j < i
    BY <1>3, <2>1
  <2> QED  BY <1>4, <2>2 DEF Expected
<1>5. ASSUME Expected PROVE Expected'
  <2>1. PICK i \in DOMAIN down : Success(down[i]) /\ \A j \in DOMAIN down : Refusal(down[j]) => j < i
    BY <1>5 DEF Expected
  <2>2. i \in DOMAIN down' /\ Success(down[i])'
    <3>1. i \in DOMAIN down' /\ down'[i] = down[i]
      BY <1>1
    <3> QED  BY <2>1, <3>1 DEF Success
  <2>3. \A j \in DOMAIN down' : Refusal(down[j])' => j < i
    BY <1>1, <1>3, <2>1
  <2> QED  BY <2>2, <2>3 DEF Expected
<1>6. ASSUME NEW d \in Elems(t), Success(d) PROVE Expected'
  <2>1. PICK k \in 1 .. Len(t) : d = t[k]
    BY <1>1, ElemsTyped
  <2>2. Len(down) + k \in DOMAIN down' /\ Len(down) + k \notin 1 .. Len(down) /\ down'[Len(down) + k] = d
    BY <1>1, <2>1
  <2>3. PICK i \in DOMAIN down' : i \notin 1 .. Len(down) /\ down'[i] = d
    BY <2>2
  <2>4. Success(down[i])'
    BY <1>6, <2>3 DEF Success
  <2> QED  BY <1>4, <2>3, <2>4
<1>7. ASSUME Settling PROVE Settling'
  <2>1. Elems(down') = Elems(down) \cup Elems(t)
    BY <1>1, ElemsOfConcat
  <2>2. \A d \in Elems(down') : ~ Refusal(d)'
    BY <1>2, <1>7, <2>1 DEF Settling
  <2>3. Wanted' \/ Signed'
    BY <1>7 DEF Settling, Wanted, Signed
  <2> QED  BY <2>2, <2>3 DEF Settling
<1> QED  BY <1>5, <1>6, <1>7

\* A message of the client is taken, and nothing else happens on its side.
LEMMA TakenSite ==
    ASSUME IInv, AInv, SInv, up # <<>>, up' = Tail(up), UNCHANGED <<selfVars, linkVars, ws, stack, siteVars>>,
           NEW t \in Seq(Messages), down' = down \o t, Pairwise(t, Apart),
           \A d \in Elems(t) : d.cid \in {0, Head(up).cid}
    PROVE  /\ Steady' /\ OpeningTask' /\ Exchange' /\ Logins'
           /\ UNCHANGED <<asked, state, chan, map, stack>>
           /\ (Opening' <=> Opening) /\ (Late' <=> Late)
           /\ \A m \in Elems(up') : m.ev # "handshake"
           /\ Elems(down') = Elems(down) \cup Elems(t)
           /\ Elems(up) = {Head(up)} \cup Elems(up')
<1> DEFINE h == Head(up)
<1>1. /\ up \in Seq(Messages) /\ h \in Messages /\ Elems(up) = {h} \cup Elems(up') /\ up' \in Seq(Messages)
      /\ down \in Seq(Messages) /\ Elems(down') = Elems(down) \cup Elems(t)
  <2>1. up \in Seq(Messages) /\ down \in Seq(Messages)
    BY Parts DEF TypeOK
  <2> QED  BY <2>1, ElemsOfTail, ElemsOfConcat
<1>2. UNCHANGED <<active, asked, state, chan, map, ws, stack, watched, late>>
  BY DEF selfVars, linkVars, siteVars
<1>3. Pairwise(up', Apart) /\ \A y \in Elems(up') : <<h, y>> \in Apart
  BY <1>1, PairwiseTail DEF SInv, Exchange
<1>4. \A m \in Elems(up') : m.ev # "handshake"
  <2>1. Len(up') = Len(up) - 1 /\ Len(up) \in Nat /\ \A i \in 1 .. Len(up') : up'[i] = up[i + 1]
    BY <1>1, HeadTailProperties
  <2>2. ASSUME NEW m \in Elems(up') PROVE m.ev # "handshake"
    <3>1. PICK k \in 1 .. Len(up') : m = up'[k]
      <4>1. up' \in Seq(Messages)
        BY <1>1
      <4> QED  BY <4>1 DEF Elems
    <3>2. k + 1 \in DOMAIN up /\ k + 1 # 1 /\ m = up[k + 1]
      BY <1>1, <2>1, <3>1
    <3> QED  BY <3>2 DEF AInv, Introduced
  <2> QED  BY <2>2
<1> HIDE DEF h
<1>5. \A m \in Elems(up') : m.cid # 0 => m.cid # h.cid
  BY <1>3 DEF Apart
<1>6. Exchange'
  <2>1. \A d \in Elems(t) : d.cid \in {0, h.cid}
    BY DEF h
  <2>2. \A m \in Elems(up), d \in Elems(down) : m.cid # 0 => m.cid # d.cid
    BY DEF SInv, Exchange
  <2>3. \A m \in Elems(up'), d \in Elems(down') : m.cid # 0 => m.cid # d.cid
    BY <1>1, <1>5, <2>1, <2>2
  <2>4. Pairwise(down', Apart)
    <3>1. Elems(down) \subseteq Messages /\ Elems(t) \subseteq Messages
      BY <1>1, ElemsTyped
    <3>2. \A x \in Elems(down), y \in Elems(t) : <<x, y>> \in Apart
      BY <1>1, <2>1, <2>2, <3>1 DEF Apart
    <3> QED  BY <1>1, <3>2, PairwiseConcat DEF SInv, Exchange
  <2> QED  BY <1>3, <2>3, <2>4 DEF Exchange
<1>7. Steady'
  <2>1. \A f \in Elems(stack') : f.do # "cid"
    BY <1>2 DEF SInv, Steady, Doing
  <2>2. \A c \in Channels : ~ chan'[c].torn /\ (chan'[c].st = "none" <=> chan[c].st = "none")
    BY <1>2 DEF SInv, Steady
  <2> QED  BY <1>1, <1>2, <2>1, <2>2, SteadyStill
<1>8. OpeningTask' /\ (Opening' <=> Opening) /\ (Late' <=> Late)
  BY <1>2 DEF SInv, OpeningTask, Opening, Doing, Late
<1>9. Logins'
  BY <1>1, <1>2, <1>8 DEF SInv, Logins
<1> QED  BY <1>1, <1>2, <1>4, <1>6, <1>7, <1>8, <1>9 DEF h


\* handleHandshake: nothing was said before.
LEMMA PeerHandshakeSite ==
    ASSUME IInv, AInv, SInv, PeerHandshake, UNCHANGED siteVars PROVE SInv'
<1>1. PICK valid \in BOOLEAN : peer' = [peer EXCEPT !.authed = valid] /\ down' = Append(down, Answer(Head(up), valid))
  BY DEF PeerHandshake
<1>2. /\ PeerTakes("handshake") /\ UNCHANGED <<selfVars, linkVars, ws, stack>>
      /\ up # <<>> /\ up' = Tail(up) /\ ws = "open"
  BY DEF PeerHandshake, PeerTakes
<1>3. /\ Head(up) \in Messages /\ Head(up).ev = "handshake" /\ Head(up) \in Elems(up)
      /\ down \in Seq(Messages) /\ peer \in [authed : BOOLEAN, subs : SUBSET Channels]
  BY <1>2, Taken, Parts DEF TypeOK
<1> DEFINE d == Answer(Head(up), valid)
<1>4. d \in Messages /\ d.ev = "answer" /\ d.cid = Head(up).cid /\ d.ok = valid
  BY <1>3, AnswerIs DEF Answer, Message
<1>5. down' = Append(down, d) /\ down = <<>> /\ state # "open" /\ peer'.authed = valid
  BY <1>1, <1>3 DEF SInv, Shaking
<1> HIDE DEF d
<1> DEFINE t == <<d>>
<1>6. t \in Seq(Messages) /\ Elems(t) = {d} /\ Pairwise(t, Apart) /\ down' = down \o t
  BY <1>3, <1>4, <1>5, FewMessages
<1> HIDE DEF t
<1>7. /\ Steady' /\ OpeningTask' /\ Exchange' /\ Logins'
      /\ UNCHANGED <<state, map>> /\ \A m \in Elems(up') : m.ev # "handshake"
      /\ Elems(down') = Elems(down) \cup Elems(t)
  BY <1>2, <1>4, <1>6, TakenSite
<1>8. Shaking'
  <2>1. \A m \in Elems(down') : m.ok <=> peer'.authed
    BY <1>4, <1>5, <1>6, <1>7, ElemsOfFew
  <2> QED  BY <1>2, <1>7, <2>1 DEF Shaking
<1>9. Due'
  BY <1>5, <1>7 DEF Due
<1> QED  BY <1>7, <1>8, <1>9 DEF SInv, Visiting

\* handleLogin.  A Yes to a login that was not given up comes after all that was refused.
LEMMA PeerLoginSite ==
    ASSUME IInv, AInv, SInv, PeerLogin, UNCHANGED siteVars PROVE SInv'
<1> DEFINE h   == Head(up)
           yes == Answer(h, TRUE)
           no  == Answer(h, FALSE)
           set == Message("setAuthToken", None, 0, TRUE)
<1>1. /\ PeerTakes("login") /\ UNCHANGED <<selfVars, linkVars, ws, stack>>
      /\ up # <<>> /\ up' = Tail(up) /\ ws = "open"
  BY DEF PeerLogin, PeerTakes
<1>2. /\ h \in Messages /\ h.ev = "login" /\ h \in Elems(up)
      /\ down \in Seq(Messages) /\ peer \in [authed : BOOLEAN, subs : SUBSET Channels]
      /\ map \in Seq(Entries) /\ asked \subseteq Calls
  BY <1>1, Taken, Parts DEF TypeOK
<1>3. /\ yes \in Messages /\ yes.ev = "answer" /\ yes.cid = h.cid /\ yes.ok
      /\ no \in Messages /\ no.ev = "answer" /\ no.cid = h.cid /\ ~ no.ok
      /\ set \in Messages /\ set.ev = "setAuthToken" /\ set.cid = 0
  <2>1. None \in Names /\ "setAuthToken" \in Evs /\ 0 \in 0 .. MaxCid
    BY NamesDiffer, SCClientAssumption DEF Evs
  <2>2. set \in Messages /\ set.ev = "setAuthToken" /\ set.cid = 0
    BY <2>1, MessageIs
  <2> QED  BY <1>2, <2>2, AnswerIs DEF Answer, Message
<1>4. \/ peer' = [peer EXCEPT !.authed = TRUE] /\ down' = down \o <<yes, set>>
      \/ peer' = peer /\ down' = Append(down, no)
  BY DEF PeerLogin
\* The callback of a login that was not given up.
<1>5. state # "connecting" /\ ~ Opening
  BY <1>2 DEF SInv, Logins
<1>6. state = "open" /\ ~ Late => \E x \in Elems(map) : x.cid = h.cid /\ x.at \in asked
  BY <1>2 DEF SInv, Logins
<1> HIDE DEF h, yes, no, set
<1>7. ASSUME NEW t \in Seq(Messages), down' = down \o t, Pairwise(t, Apart), \A m \in Elems(t) : m.cid \in {0, h.cid},
             state = "open" /\ ~ Late => \A m \in Elems(t) : ~ Refusal(m),
             state = "open" /\ ~ Late /\ peer'.authed => peer.authed \/ \E m \in Elems(t) : Success(m)
      PROVE  SInv'
  <2>1. /\ Steady' /\ OpeningTask' /\ Exchange' /\ Logins'
        /\ UNCHANGED <<asked, state, chan, map, stack>>
        /\ (Opening' <=> Opening) /\ (Late' <=> Late)
        /\ \A m \in Elems(up') : m.ev # "handshake"
    BY <1>1, <1>7, TakenSite DEF h
  <2>2. Shaking'
    BY <1>1, <1>5, <2>1 DEF Shaking
  <2>3. Due'
    <3> SUFFICES ASSUME state = "open", ~ Late, peer'.authed PROVE Expected' \/ Settling'
      BY <1>5, <2>1 DEF Due
    <3>1. /\ Expected \/ (\E d \in Elems(t) : Success(d)) => Expected'
          /\ Settling => Settling'
      BY <1>7, <2>1, SaysOn
    <3>2. peer.authed => Expected \/ Settling
      BY DEF SInv, Due
    <3> QED  BY <1>7, <3>1, <3>2
  <2> QED  BY <2>1, <2>2, <2>3 DEF SInv, Visiting
<1>8. CASE peer' = [peer EXCEPT !.authed = TRUE] /\ down' = down \o <<yes, set>>
  <2> DEFINE t == <<yes, set>>
  <2>1. t \in Seq(Messages) /\ Elems(t) = {yes, set} /\ Pairwise(t, Apart)
    BY <1>2, <1>3, FewMessages
  <2>2. down' = down \o t
    BY <1>8
  <2> HIDE DEF t
  <2>3. \A m \in Elems(t) : m.cid \in {0, h.cid} /\ ~ Refusal(m)
    BY <1>3, <2>1 DEF Refusal
  <2>4. state = "open" /\ ~ Late => Success(yes)
    BY <1>3, <1>6 DEF Success
  <2> QED  BY <1>7, <2>1, <2>2, <2>3, <2>4
<1>9. CASE peer' = peer /\ down' = Append(down, no)
  <2> DEFINE t == <<no>>
  <2>1. t \in Seq(Messages) /\ Elems(t) = {no} /\ Pairwise(t, Apart) /\ down' = down \o t
    BY <1>2, <1>3, <1>9, FewMessages
  <2> HIDE DEF t
  <2>2. state = "open" /\ ~ Late => ~ Refusal(no)
    <3> SUFFICES ASSUME state = "open", ~ Late, NEW y \in Elems(map), y.cid = h.cid PROVE y.at # Visitor
      BY <1>3 DEF Refusal
    <3>1. PICK x \in Elems(map) : x.cid = h.cid /\ x.at \in asked
      BY <1>6
    <3>2. x = y
      BY <1>2, <3>1, OneEntry, Parts DEF Held
    <3> QED  BY <1>2, <3>1, <3>2, NamesDiffer DEF SInv, Visiting
  <2> QED  BY <1>3, <1>7, <1>9, <2>1, <2>2
<1> QED  BY <1>4, <1>8, <1>9


\* handleSubscribe: an authenticated visitor is not refused.
LEMMA PeerSubscribeSite ==
    ASSUME IInv, AInv, SInv, PeerSubscribe, UNCHANGED siteVars PROVE SInv'
<1> DEFINE h == Head(up)
           d == Answer(h, peer.authed)
<1>1. /\ PeerTakes("subscribe") /\ UNCHANGED <<selfVars, linkVars, ws, stack>>
      /\ up # <<>> /\ up' = Tail(up) /\ ws = "open" /\ down' = Append(down, d)
      /\ peer' = [peer EXCEPT !.subs = IF peer.authed THEN @ \cup {Head(up).at} ELSE @]
  BY DEF PeerSubscribe, PeerTakes
<1>2. /\ h \in Messages /\ h.ev = "subscribe" /\ h \in Elems(up)
      /\ down \in Seq(Messages) /\ peer \in [authed : BOOLEAN, subs : SUBSET Channels]
  BY <1>1, Taken, Parts DEF TypeOK
<1>3. d \in Messages /\ d.ev = "answer" /\ d.cid = h.cid /\ d.ok = peer.authed /\ peer'.authed = peer.authed
  BY <1>1, <1>2, AnswerIs DEF Answer, Message
<1>4. h.at \in Channels
  BY <1>2, Parts DEF Typed, WireOK
<1>5. state # "connecting"
  BY <1>2, <1>4 DEF AInv, Introduced, Untold, About
<1> HIDE DEF d
<1> DEFINE t == <<d>>
<1>6. t \in Seq(Messages) /\ Elems(t) = {d} /\ Pairwise(t, Apart) /\ down' = down \o t
  BY <1>1, <1>2, <1>3, FewMessages
<1> HIDE DEF t
<1>7. /\ Steady' /\ OpeningTask' /\ Exchange' /\ Logins'
      /\ UNCHANGED <<asked, state, chan, map, stack>>
      /\ (Opening' <=> Opening) /\ (Late' <=> Late)
      /\ \A m \in Elems(up') : m.ev # "handshake"
  BY <1>1, <1>3, <1>6, TakenSite
<1>8. Shaking'
  BY <1>1, <1>5, <1>7 DEF Shaking
<1>9. Due'
  <2> SUFFICES ASSUME state = "open", peer.authed, Opening \/ ~ Late PROVE Expected' \/ Settling'
    BY <1>3, <1>7 DEF Due
  <2>1. \A m \in Elems(t) : ~ Refusal(m)
    BY <1>3, <1>6 DEF Refusal
  <2>2. Expected \/ Settling
    BY DEF SInv, Due
  <2> QED  BY <1>6, <1>7, <2>1, <2>2, SaysOn
<1> QED  BY <1>7, <1>8, <1>9 DEF SInv, Visiting

\* handleUnsubscribe, and what the server does not answer.
LEMMA PeerIgnoresSite ==
    ASSUME IInv, AInv, SInv, PeerUnsubscribe \/ PeerIgnores, UNCHANGED siteVars PROVE SInv'
<1>1. /\ UNCHANGED <<selfVars, linkVars, ws, stack>>
      /\ up # <<>> /\ up' = Tail(up) /\ ws = "open" /\ down' = down
      /\ peer' = peer \/ peer' = [peer EXCEPT !.subs = @ \ {Head(up).at}]
  BY DEF PeerUnsubscribe, PeerIgnores, PeerTakes
<1>2. down \in Seq(Messages) /\ peer \in [authed : BOOLEAN, subs : SUBSET Channels]
  BY Parts DEF TypeOK
<1> DEFINE t == <<>>
<1>3. t \in Seq(Messages) /\ Elems(t) = {} /\ Pairwise(t, Apart) /\ down' = down \o t
  BY <1>1, <1>2, ElemsOfFew, PairwiseFew, ConcatEmptySeq
<1> HIDE DEF t
<1>4. /\ Steady' /\ OpeningTask' /\ Exchange' /\ Logins'
      /\ UNCHANGED <<asked, state, chan, map, stack>>
      /\ (Opening' <=> Opening) /\ (Late' <=> Late)
      /\ \A m \in Elems(up') : m.ev # "handshake"
  BY <1>1, <1>3, TakenSite
<1>5. peer'.authed = peer.authed
  BY <1>1, <1>2
<1>6. Shaking'
  BY <1>1, <1>4, <1>5 DEF SInv, Shaking
<1>7. Due'
  <2>1. Expected' \/ Settling' \/ ~ (Expected \/ Settling)
    BY <1>3, <1>4, SaysOn
  <2> QED  BY <1>4, <1>5, <2>1 DEF SInv, Due
<1> QED  BY <1>4, <1>6, <1>7 DEF SInv, Visiting

\* A publication.
LEMMA PeerPublishSite ==
    ASSUME IInv, AInv, SInv, PeerPublish, UNCHANGED siteVars PROVE SInv'
<1>1. PICK c \in peer.subs : down' = Append(down, Message("publish", c, 0, TRUE))
  BY DEF PeerPublish
<1>2. /\ UNCHANGED <<active, asked, state, chan, map, ws, up, peer, stack, watched, late>> /\ ws = "open"
  BY DEF PeerPublish, selfVars, linkVars, siteVars
<1>3. /\ down \in Seq(Messages) /\ up \in Seq(Messages) /\ Elems(up) \subseteq Messages /\ Elems(down) \subseteq Messages
      /\ c \in Channels
  BY Parts, ElemsTyped DEF TypeOK
<1> DEFINE d == Message("publish", c, 0, TRUE)
<1>4. d \in Messages /\ d.ev = "publish" /\ d.cid = 0
  <2>1. c \in Names /\ "publish" \in Evs /\ 0 \in 0 .. MaxCid
    BY <1>3, NamesDiffer, SCClientAssumption DEF Evs
  <2> QED  BY <2>1, MessageIs
<1>5. down' = Append(down, d)
  BY <1>1
<1> HIDE DEF d
<1> DEFINE t == <<d>>
<1>6. /\ t \in Seq(Messages) /\ Elems(t) = {d} /\ down' = down \o t
      /\ Elems(down') = Elems(down) \cup {d}
  BY <1>3, <1>4, <1>5, FewMessages, ElemsOfAppend
<1> HIDE DEF t
<1>7. Exchange'
  <2>1. \A x \in Elems(down) : <<x, d>> \in Apart
    BY <1>3, <1>4 DEF Apart
  <2>2. Pairwise(down', Apart)
    BY <1>3, <1>4, <1>5, <2>1, PairwiseAppend DEF SInv, Exchange
  <2>3. \A m \in Elems(up), x \in Elems(down') : m.cid # 0 => m.cid # x.cid
    BY <1>4, <1>6 DEF SInv, Exchange
  <2> QED  BY <1>2, <2>2, <2>3 DEF SInv, Exchange
<1>8. Steady' /\ OpeningTask' /\ (Opening' <=> Opening) /\ (Late' <=> Late) /\ Logins'
  BY <1>2 DEF SInv, Steady, SaidGoodbye, OpeningTask, Opening, Doing, Late, Logins
<1>9. Shaking'
  <2>1. \A m \in Elems(up) : m.ev # "handshake"
    BY DEF AInv, Introduced, Elems
  <2> QED  BY <1>2, <1>4, <1>6, <2>1 DEF SInv, Shaking
<1>10. Due'
  <2>1. \A m \in Elems(t) : ~ Refusal(m)
    BY <1>4, <1>6 DEF Refusal
  <2>2. Expected' \/ Settling' \/ ~ (Expected \/ Settling)
    BY <1>2, <1>6, <2>1, SaysOn
  <2> QED  BY <1>2, <1>8, <2>2 DEF SInv, Due
<1> QED  BY <1>7, <1>8, <1>9, <1>10 DEF SInv, Visiting

-----------------------------------------------------------------------------
(***************************************************************************)
(* The invariant, and what follows from it.                                *)
(***************************************************************************)

\* A page that has just been loaded.
LEMMA InitSite == SiteInit /\ Visiting => IInv /\ AInv /\ SInv
<1> SUFFICES ASSUME SiteInit, Visiting PROVE IInv /\ AInv /\ SInv
  OBVIOUS
<1>1. IInv /\ AInv
  BY InitIInv, InitAInv DEF SiteInit
<1>2. /\ active /\ state = "connecting" /\ ws = "connecting" /\ up = <<>> /\ down = <<>> /\ map = <<>>
      /\ stack = <<>> /\ ~ late
      /\ \A c \in Channels : chan[c].st = "none" /\ ~ chan[c].torn
  BY DEF SiteInit, Init, NoChannel
<1>3. Elems(up) = {} /\ Elems(down) = {} /\ Elems(stack) = {} /\ Elems(map) = {}
  BY <1>2, ElemsOfFew
<1>4. Pairwise(up, Apart) /\ Pairwise(down, Apart) /\ Pairwise(stack, Opens)
  BY <1>2, PairwiseFew
<1> QED  BY <1>1, <1>2, <1>3, <1>4 DEF SInv, Visiting, Steady, Doing, SaidGoodbye, OpeningTask, Opening, Exchange,
                                 Shaking, Logins, Due

\* Every step of the page, its client, the browser and the server keeps the invariant.
LEMMA StepSite == IInv /\ AInv /\ SInv /\ [SiteNext]_allVars => IInv' /\ AInv' /\ SInv'
<1> SUFFICES ASSUME IInv, AInv, SInv, [SiteNext]_allVars PROVE IInv' /\ AInv' /\ SInv'
  OBVIOUS
<1>1. CASE Site
  <2>1. IInv' /\ AInv'
    BY <1>1, SiteKeeps DEF SInv, Visiting
  <2> QED  BY <1>1, <2>1, ConnectSiteVisitorSite, OnConnectAnonymousSite, ReturnsSite DEF Site
<1>2. CASE (Library \/ Browser \/ Peer) /\ UNCHANGED siteVars
  <2>1. IInv'
    BY <1>2, StepKeeps DEF Next
  <2>2. AInv'
    BY <1>2, <2>1, StepAgrees DEF Next
  <2>3. CASE Library
    <3>1. ~ AssignCid
      <4>1. AssignCid => stack # <<>> /\ Top.do = "cid"
        BY DEF AssignCid, Step, Top
      <4>2. stack # <<>> => Top \in Elems(stack)
        BY Popped, Parts
      <4> QED  BY <4>1, <4>2 DEF SInv, Steady, Doing
    <3>2. CASE AbortBuffered \/ TryReconnect \/ CloseWebSocket \/ FailPending
      BY <1>2, <2>1, <2>2, <3>2, ClosersSite
    <3>3. CASE TrySubscribe \/ Flush \/ FlushAll \/ CancelResponse \/ Respond \/ Connected
      BY <1>2, <2>1, <2>2, <3>3, TrySubscribeSite, FlushSite, FlushAllSite, RespondSite, ConnectedSite
    <3> QED  BY <2>1, <2>2, <2>3, <3>1, <3>2, <3>3 DEF Library
  <2>4. CASE Browser
    <3>1. ~ WsClosing
      BY DEF WsClosing, SInv, Visiting
    <3>2. CASE WsError \/ WsClose \/ ConnectTimeout \/ PingTimeout \/ HandshakeTimeout
      BY <1>2, <2>1, <2>2, <3>2, BrokenSite
    <3>3. CASE WsOpen \/ ReconnectTimer
      BY <1>2, <2>1, <2>2, <3>3, BeginsSite
    <3>4. CASE ReceiveAnswer \/ ReceiveEvent
      BY <1>2, <2>1, <2>2, <3>4, ReceiveAnswerSite, ReceiveEventSite
    <3>5. CASE \E e \in Calls : AckTimeout(e)
      BY <1>2, <2>1, <2>2, <3>5, AckTimeoutSite
    <3> QED  BY <2>1, <2>2, <2>4, <3>1, <3>2, <3>3, <3>4, <3>5 DEF Browser
  <2>5. CASE Peer
    <3>1. ~ PeerDisconnect
      <4>1. PeerDisconnect => PeerTakes("disconnect")
        BY DEF PeerDisconnect
      <4> QED  BY <4>1, Taken DEF SInv, Steady, SaidGoodbye
    <3>2. CASE PeerHandshake \/ PeerLogin \/ PeerSubscribe
      BY <1>2, <2>1, <2>2, <3>2, PeerHandshakeSite, PeerLoginSite, PeerSubscribeSite
    <3>3. CASE PeerUnsubscribe \/ PeerIgnores \/ PeerPublish
      BY <1>2, <2>1, <2>2, <3>3, PeerIgnoresSite, PeerPublishSite
    <3> QED  BY <2>1, <2>2, <2>5, <3>1, <3>2, <3>3 DEF Peer
  <2> QED  BY <1>2, <2>3, <2>4, <2>5
<1>3. CASE UNCHANGED allVars
  <2>1. UNCHANGED vars /\ UNCHANGED siteVars
    BY <1>3 DEF allVars
  <2>2. IInv' /\ AInv'
    <3>1. IInv'
      BY <2>1, StepKeeps
    <3> QED  BY <2>1, <3>1, StepAgrees
  <2>3. SInv'
    <3>1. UNCHANGED <<active, state, ws, up, down, peer, map, asked, chan, stack, watched, late>>
      BY <2>1 DEF vars, siteVars
    <3>2. Steady' /\ OpeningTask' /\ Elems(map') = Elems(map)
      BY <3>1 DEF SInv, Steady, Doing, SaidGoodbye, OpeningTask, Opening
    <3>3. (Opening' <=> Opening) /\ (Late' <=> Late) /\ (Wanted' <=> Wanted) /\ (Signed' <=> Signed)
      BY <3>1 DEF Opening, Doing, Late, Wanted, Signed
    <3> QED  BY <3>1, <3>2, <3>3, StackStep
  <2> QED  BY <2>2, <2>3
<1> QED  BY <1>1, <1>2, <1>3 DEF SiteNext

\* Between tasks, with nothing under way, what is due has happened.
LEMMA HasItsChannel == IInv /\ AInv /\ SInv => SiteListens
<1> SUFFICES ASSUME IInv, AInv, SInv, Idle, state = "open", ws = "open", up = <<>>, down = <<>>, peer.authed, ~ late
             PROVE  watched /\ peer.subs = {Visitor} /\ chan[Visitor].st = "subscribed"
  BY DEF SiteListens
<1>1. Elems(stack) = {} /\ Elems(up) = {} /\ Elems(down) = {} /\ DOMAIN up = {} /\ DOMAIN down = {}
  BY Resting, ElemsOfFew
<1>2. Wanted
  BY <1>1 DEF SInv, Due, Late, Expected, Settling, Signed
<1>3. Visitor \in Channels /\ ~ chan[Visitor].torn /\ \A c \in Channels \ {Visitor} : chan[c].st = "none"
  BY DEF SInv, Visiting, Steady
<1>4. chan[Visitor].st # "pending"
  <2> SUFFICES ASSUME chan[Visitor].st = "pending" PROVE FALSE
    OBVIOUS
  <2>1. ~ Doing("open")
    BY <1>1 DEF Doing
  <2>2. chan[Visitor].cid # 0
    BY <1>1, <1>3, <2>1, Parts DEF Requested
  <2>3. Agreed(Visitor) /\ Waiting(Visitor)
    BY <1>3, <2>2 DEF AInv, Agreeing, Waiting
  <2> QED  BY <1>1, <2>3 DEF Agreed, Asking, Told
<1>5. chan[Visitor].st = "subscribed" /\ watched
  BY <1>2, <1>3, <1>4 DEF Wanted, SInv, Steady
<1>6. peer.subs = {c \in Channels : chan[c].st = "subscribed"}
  BY SameRecord DEF Agreement
<1> QED  BY <1>3, <1>5, <1>6


\* The types of the variables, with the client's invariants.
SiteTypes == IInv /\ AInv /\ watched \in BOOLEAN /\ late \in BOOLEAN

\* A page begins with them.
LEMMA SiteTypesInit == ASSUME SiteInit PROVE SiteTypes
  BY InitIInv, InitAInv DEF SiteInit, SiteTypes

\* A step keeps them.
LEMMA SiteTypesStep == ASSUME Visitor \in Channels, SiteTypes, [SiteNext]_allVars PROVE SiteTypes'
<1> USE DEF SiteTypes
<1>1. watched' \in BOOLEAN /\ late' \in BOOLEAN
  BY DEF SiteNext, Site, ConnectSiteVisitor, OnConnectAnonymous, Returns, allVars, siteVars
<1>2. CASE Site
  BY <1>1, <1>2, SiteKeeps
<1>3. CASE [Next]_vars
  <2>1. IInv'
    BY <1>3, StepKeeps
  <2> QED  BY <1>1, <1>3, <2>1, StepAgrees
<1> QED  BY <1>2, <1>3 DEF SiteNext, Next, allVars

\* They are the types of the variables.
LEMMA SiteTypesAre == ASSUME SiteTypes PROVE SiteTypeOK
  BY Parts DEF SiteTypes, SiteTypeOK

\* The variables of the page and of its client keep their types.
THEOREM SiteTypesCorrect == ASSUME Visitor \in Channels PROVE SiteSpec => []SiteTypeOK
<1>1. SiteInit => SiteTypes
  BY SiteTypesInit
<1>2. SiteTypes /\ [SiteNext]_allVars => SiteTypes'
  BY SiteTypesStep
<1>3. SiteTypes => SiteTypeOK
  BY SiteTypesAre
<1> QED  BY <1>1, <1>2, <1>3, PTL DEF SiteSpec

\* All of the invariant.
SiteInv == IInv /\ AInv /\ SInv

\* A page begins with it.
LEMMA SiteInvInit == ASSUME Visiting, SiteInit PROVE SiteInv
  BY InitSite DEF SiteInv

\* Every step keeps it.
LEMMA SiteInvStep == ASSUME SiteInv, [SiteNext]_allVars PROVE SiteInv'
  BY StepSite DEF SiteInv

\* It has the property.
LEMMA SiteInvPromise == ASSUME SiteInv PROVE SiteListens
  BY HasItsChannel DEF SiteInv

\* An authenticated visitor's page has its channel: whatever connections were lost, calls
\* timed out, and requests were refused before the login, in any order (connectSiteVisitor,
\* _trySubscribe, processPendingSubscriptions, handleLogin, handleSubscribe).
THEOREM VisitorListens == ASSUME Visiting PROVE SiteSpec => []SiteListens
<1>1. SiteInit => SiteInv
  BY SiteInvInit
<1>2. SiteInv /\ [SiteNext]_allVars => SiteInv'
  BY SiteInvStep
<1>3. SiteInv => SiteListens
  BY SiteInvPromise
<1> QED  BY <1>1, <1>2, <1>3, PTL DEF SiteSpec

=============================================================================
