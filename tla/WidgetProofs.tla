---------------------------- MODULE WidgetProofs ----------------------------
(***************************************************************************)
(* Proofs about WidgetPage, for any number of logins and reconnects: the   *)
(* page polls slowly only while it has its channel, and no message on the  *)
(* channel is handled twice.  They rest on IInv and AInv of the client.    *)
(***************************************************************************)
EXTENDS WidgetPage, ClientProofs

(***************************************************************************)
(* The inductive invariant, relative to IInv and AInv.                     *)
(***************************************************************************)

\* What follows is about one channel, on a browser that never lets a task find the
\* WebSocket CLOSING.
Hosting == Chat \in Channels /\ ~ ClosingWindow

Logins == Joins \cup Reauths

\* A login whose $.post is under way is not with the client, and nothing else is called.
Waits == posts \subseteq Logins /\ \A e \in Calls : e \in posts \/ e \notin Logins => Unused(e)

\* The client loses no connection in the middle of a task, says goodbye only when it is
\* destroyed, and has no channel but the page's.
Whole ==
    /\ state # "closed" /\ (state = "open" \/ Doing("respond")) => ws = "open"
    /\ ~ Doing("cid") /\ \A c \in Channels : ~ chan[c].torn
    /\ SaidGoodbye => ~ active
    /\ \A c \in Channels \ {Chat} : chan[c].st = "none"

\* What closes a transport or calls a login's error does nothing else, and the page hears of
\* its deauthentication from _onSCOpen.
Enders == Closers \cup {"refused", "cancel"}
Tasked ==
    /\ OpeningTask
    /\ Doing("deauthenticate") => Doing("open")
    /\ (\E f \in Elems(stack) : f.do \in Enders) => \A f \in Elems(stack) : f.do \in Enders

\* The callback of a login that succeeded is called on its own.
Alright ==
    \A f \in Elems(stack) : f.do = "answered" =>
        /\ stack = <<f>> /\ f.at \notin Elems(buffer) /\ \A x \in Elems(map) : x.at # f.at
        /\ state = "open" \/ (~ active /\ overlap # "none")

\* What the page has put on the channel goes with it.
Kept ==
    /\ watchers \in Nat
    /\ watchers > 0 => sample
    /\ listening => watchers > 0
    /\ chan[Chat].st # "none" => watchers > 0

\* The page has joined a connection that is there, or is told that it is not.
Where ==
    /\ watchers > 0 => state = "open" \/ Doing("close") \/ (~ active /\ overlap # "none")
    /\ overlap # "join" /\ watchers > 0 =>
          /\ watchers = 1 /\ ~ Opening /\ Underway(Joins) = {}

\* One login at a time.
Single ==
    /\ overlap # "join" => \A d, e \in Underway(Joins) : d = e
    /\ overlap = "none" /\ ~ Opening => \A d, e \in Underway(Logins) : d = e
    /\ overlap = "none" /\ state = "closed" => \A x \in Elems(map) : x.at \notin asked

\* The server has authenticated the connection that the page has joined, or is about to join.
Authed ==
    /\ state = "open" =>
          /\ watchers > 0 => peer.authed
          /\ \A f \in Elems(stack) : f.do = "answered" \/ (f.do \in Starts /\ f.n = 1) => peer.authed
          /\ \A m \in Elems(up) : m.ev # "handshake" /\ (m.ev = "subscribe" => peer.authed)
    /\ \A m \in Elems(down) : m.ev = "answer" /\ m.ok => peer.authed
    /\ ws = "connecting" \/ (\E m \in Elems(up) : m.ev = "handshake") => down = <<>>

\* So it has the channel, and is not refused it.
Wanted ==
    state = "open" =>
        /\ watchers > 0 => chan[Chat].st \in {"pending", "subscribed"}
        /\ \A m \in Elems(down), x \in Elems(map) :
              m.ev = "answer" /\ m.cid = x.cid /\ x.at \in Channels => m.ok

\* The inductive invariant.
WInv == Hosting /\ Waits /\ Whole /\ Tasked /\ Alright /\ Kept /\ Where /\ Single /\ Authed /\ Wanted

-----------------------------------------------------------------------------
(***************************************************************************)
(* What a step may do to it.                                               *)
(***************************************************************************)

\* No call becomes one that something is about, but a login that PHP has answered.
Fewer == posts' \subseteq posts /\ \A e \in Calls \ (posts \ posts') : Unused(e) => Unused(e)'

\* Then no login gets under way.
LEMMA FewerLogins ==
    ASSUME Fewer, NEW S \in SUBSET Calls
    PROVE  Underway(S)' \subseteq Underway(S)
  BY DEF Fewer, Underway

\* The logins, which are calls, and the page's channel.
LEMMA LoginsAre == Joins \subseteq Calls /\ Reauths \subseteq Calls /\ Logins \subseteq Calls /\ Joins \cap Reauths = {}
  BY LoginAssumption DEF Logins

\* A step of a client that stays connected, or stays away.
LEMMA StillWidget ==
    ASSUME WInv, UNCHANGED <<active, state, overlap, sample, watchers, listening>>,
           Fewer, OpeningTask', Opening' <=> Opening, (Doing("deauthenticate") => Doing("open"))',
           ((\E f \in Elems(stack) : f.do \in Enders) => \A f \in Elems(stack) : f.do \in Enders)',
           Doing("close") => Doing("close")', Doing("respond")' => Doing("respond") \/ ws = "open",
           \A f \in Elems(stack') : f.do \notin {"cid", "answered"},
           \A f \in Elems(stack') : f.do \in Starts => \E g \in Elems(stack) : g.do \in Starts /\ g.n = f.n,
           \A c \in Channels : ~ chan'[c].torn /\ (chan'[c].st = "none" <=> chan[c].st = "none"),
           state = "open" /\ watchers > 0 => chan'[Chat].st \in {"pending", "subscribed"},
           state = "closed" /\ overlap = "none" => \A x \in Elems(map') : x.at \notin asked',
           state = "open" => \A x \in Elems(map') : x \in Elems(map) \/ \A m \in Elems(down) : m.cid # x.cid,
           \A m \in Elems(up') : m \in Elems(up) \/
              (m.ev \notin {"handshake", "disconnect"} /\ (m.ev = "subscribe" => peer.authed)),
           \/ UNCHANGED <<ws, peer>> /\ Elems(down') \subseteq Elems(down) /\ (down = <<>> => down' = <<>>)
           \/ state = "closed" /\ down' = <<>>
    PROVE  WInv'
<1>1. Hosting' /\ (\A m \in Elems(down') : m \in Elems(down))
  BY ElemsOfFew DEF WInv, Hosting
<1>2. Underway(Joins)' \subseteq Underway(Joins) /\ Underway(Logins)' \subseteq Underway(Logins)
  BY FewerLogins, LoginsAre
<1>3. Waits'
  BY DEF WInv, Waits, Fewer
<1>4. Whole'
  <2>1. SaidGoodbye' => SaidGoodbye
    BY DEF SaidGoodbye
  <2>2. ~ Doing("cid")'
    BY DEF Doing
  <2> QED  BY <2>1, <2>2 DEF WInv, Whole
<1>5. Tasked' /\ Alright'
  BY DEF Tasked, Alright
<1>6. Kept'
  BY DEF WInv, Kept, Hosting
<1>7. Where'
  BY <1>2 DEF WInv, Where
<1>8. Single'
  BY <1>2 DEF WInv, Single
<1>9. Authed'
  <2>1. ASSUME state = "open"
        PROVE  /\ watchers > 0 => peer'.authed
               /\ \A f \in Elems(stack') : f.do \in Starts /\ f.n = 1 => peer'.authed
               /\ \A m \in Elems(up') : m.ev # "handshake" /\ (m.ev = "subscribe" => peer'.authed)
    BY <2>1 DEF WInv, Authed
  <2>2. \A m \in Elems(down') : m.ev = "answer" /\ m.ok => peer'.authed
    BY ElemsOfFew DEF WInv, Authed
  <2>3. ws' = "connecting" \/ (\E m \in Elems(up') : m.ev = "handshake") => down' = <<>>
    BY DEF WInv, Authed
  <2> QED  BY <2>1, <2>2, <2>3 DEF Authed
<1>10. Wanted'
  BY <1>1 DEF WInv, Wanted
<1> QED  BY <1>1, <1>3, <1>4, <1>5, <1>6, <1>7, <1>8, <1>9, <1>10 DEF WInv

\* The same, while no connection is being opened.
LEMMA CalmWidget ==
    ASSUME IInv', WInv, UNCHANGED <<active, state, overlap, sample, watchers, listening>>,
           Fewer, ~ Opening,
           ((\E f \in Elems(stack) : f.do \in Enders) => \A f \in Elems(stack) : f.do \in Enders)',
           Doing("close") => Doing("close")', Doing("respond")' => Doing("respond") \/ ws = "open",
           \A f \in Elems(stack') : f.do \notin Starts \cup {"cid", "answered", "deauthenticate"},
           \A c \in Channels : ~ chan'[c].torn /\ (chan'[c].st = "none" <=> chan[c].st = "none"),
           state = "open" /\ watchers > 0 => chan'[Chat].st \in {"pending", "subscribed"},
           state = "closed" /\ overlap = "none" => \A x \in Elems(map') : x.at \notin asked',
           state = "open" => \A x \in Elems(map') : x \in Elems(map) \/ \A m \in Elems(down) : m.cid # x.cid,
           \A m \in Elems(up') : m \in Elems(up) \/
              (m.ev \notin {"handshake", "disconnect"} /\ (m.ev = "subscribe" => peer.authed)),
           \/ UNCHANGED <<ws, peer>> /\ Elems(down') \subseteq Elems(down) /\ (down = <<>> => down' = <<>>)
           \/ state = "closed" /\ down' = <<>>
    PROVE  WInv'
<1>1. ~ Opening' /\ OpeningTask'
  <2>1. stack' \in Seq(Frames) /\ ~ Opening'
    BY DEF IInv, Typed, TypeOK, Opening, Doing, Starts
  <2> QED  BY <2>1, NoneOpens DEF OpeningTask
<1>2. (Doing("deauthenticate") => Doing("open"))'
  BY DEF Doing
<1> QED  BY <1>1, <1>2, StillWidget

\* A step that leaves the client without a transport.
LEMMA ShutWidget ==
    ASSUME IInv', WInv, state' = "closed", ~ Opening, overlap' = overlap, Fewer,
           \A f \in Elems(stack') : f.do \in Enders,
           active' => active, SaidGoodbye' => ~ active',
           \/ watchers' = 0 /\ ~ listening' /\ chan'[Chat].st = "none"
           \/ /\ UNCHANGED <<sample, watchers, listening>>
              /\ watchers > 0 => Doing("close")' \/ (~ active' /\ overlap # "none"),
           \A c \in Channels : ~ chan'[c].torn /\ (chan[c].st = "none" => chan'[c].st = "none"),
           overlap = "none" => \A x \in Elems(map') : x.at \notin asked',
           \A m \in Elems(up') : m \in Elems(up) \/ m.ev # "handshake",
           UNCHANGED <<ws, peer, down>> \/ down' = <<>>
    PROVE  WInv'
<1>1. Hosting' /\ (\A m \in Elems(down') : m \in Elems(down) /\ peer' = peer)
  BY ElemsOfFew DEF WInv, Hosting
<1>2. Underway(Joins)' \subseteq Underway(Joins) /\ Underway(Logins)' \subseteq Underway(Logins)
  BY FewerLogins, LoginsAre
<1>3. Waits'
  BY DEF WInv, Waits, Fewer
<1>4. ~ Opening' /\ ~ Doing("cid")' /\ ~ Doing("deauthenticate")'
  BY DEF Opening, Doing, Enders, Closers
<1>5. Whole'
  BY <1>4 DEF WInv, Whole, Hosting
<1>6. Tasked' /\ Alright'
  <2>1. stack' \in Seq(Frames)
    BY DEF IInv, Typed, TypeOK
  <2>2. OpeningTask'
    BY <1>4, <2>1, NoneOpens DEF OpeningTask, Enders, Closers, Starts
  <2>3. Alright'
    BY DEF Alright, Enders, Closers
  <2> QED  BY <1>4, <2>2, <2>3 DEF Tasked
<1>7. Kept'
  BY DEF WInv, Kept, Hosting
<1>8. Where'
  BY <1>2, <1>4 DEF WInv, Where
<1>9. Single'
  BY <1>2 DEF WInv, Single
<1>10. Authed'
  BY <1>1 DEF WInv, Authed
<1>11. Wanted'
  BY DEF Wanted
<1> QED  BY <1>1, <1>3, <1>5, <1>6, <1>7, <1>8, <1>9, <1>10, <1>11 DEF WInv

\* A new transport of a page that has not joined.
LEMMA AnewWidget ==
    ASSUME WInv, NewTransport, watchers = 0, Elems(stack') = {}, OpeningTask', ~ Opening, active' = active,
           UNCHANGED <<chan, overlap, sample, watchers, listening>>, Fewer
    PROVE  WInv'
<1>1. Hosting'
  BY DEF WInv, Hosting
<1>3. Underway(Joins)' \subseteq Underway(Joins) /\ Underway(Logins)' \subseteq Underway(Logins)
  BY FewerLogins, LoginsAre
<1>4. Waits'
  BY DEF WInv, Waits, Fewer
<1>5. Whole' /\ Tasked' /\ Alright' /\ Kept' /\ Wanted' /\ Authed'
  <2>1. ~ SaidGoodbye' /\ ~ Opening' /\ ~ Doing("deauthenticate")' /\ ~ Doing("cid")' /\ ~ Doing("respond")'
    BY ElemsOfFew DEF NewTransport, SaidGoodbye, Opening, Doing
  <2>2. Tasked' /\ Alright'
    BY <2>1 DEF Tasked, Alright
  <2>3. Whole' /\ Kept'
    BY <2>1 DEF WInv, Whole, Kept, NewTransport
  <2>4. Authed' /\ Wanted'
    BY ElemsOfFew DEF NewTransport, Authed, Wanted
  <2> QED  BY <2>2, <2>3, <2>4
<1>6. Where' /\ Single'
  <2>1. ~ Opening'
    BY DEF Opening, Doing
  <2> QED  BY <1>3, <2>1 DEF WInv, Where, Single, NewTransport
<1> QED  BY <1>1, <1>4, <1>5, <1>6 DEF WInv

\* What lies under a call that neither opens the connection nor reports a login.
LEMMA Beneath ==
    ASSUME IInv, WInv, stack # <<>>, Top.do \notin Starts \cup {"deauthenticate", "tries", "answered"}
    PROVE  /\ Top \in Frames /\ Tail(stack) \in Seq(Frames) /\ Elems(Tail(stack)) \subseteq Frames
           /\ Elems(stack) = {Top} \cup Elems(Tail(stack))
           /\ ~ Opening
           /\ \A f \in Elems(Tail(stack)) : /\ f.do \notin Starts \cup {"cid", "answered", "deauthenticate"}
                                            /\ f.do \in Enders <=> Top.do \in Enders
           /\ Top.do \in Closers => state = "closed"
<1>1. /\ Top \in Frames /\ Tail(stack) \in Seq(Frames) /\ Elems(Tail(stack)) \subseteq Frames
      /\ Elems(stack) = {Top} \cup Elems(Tail(stack))
  BY Popped, Parts
<1>2. ~ Opening
  BY Opened1 DEF WInv, Tasked
<1>3. \A f \in Elems(stack) : f.do \notin Starts \cup {"cid", "answered", "deauthenticate"}
  <2>1. \A f \in Elems(stack) : f.do # "answered"
    BY DEF WInv, Alright, Top
  <2>2. \A f \in Elems(stack) : f.do \notin {"open", "connect", "cid", "deauthenticate"}
    BY <1>2 DEF WInv, Whole, Tasked, Opening, Doing
  <2> QED  BY <2>1, <2>2 DEF Starts
<1>4. \A f \in Elems(Tail(stack)) : f.do \in Enders <=> Top.do \in Enders
  BY <1>1 DEF WInv, Tasked
<1>5. Top.do \in Closers => state = "closed"
  BY <1>1, Parts DEF Disciplined
<1> QED  BY <1>1, <1>2, <1>3, <1>4, <1>5

-----------------------------------------------------------------------------
(***************************************************************************)
(* The steps of the library.                                               *)
(***************************************************************************)

\* A round of the loop that rejects the buffered calls.
LEMMA AbortBufferedWidget ==
    ASSUME IInv, IInv', WInv, AbortBuffered, UNCHANGED <<loginVars, widgetVars>> PROVE WInv'
<1> DEFINE t == Tail(stack)
           a == IF Top.at \in asked THEN <<Frame("refused", Top.at)>> ELSE <<>>
           b == IF Top.at = None THEN <<>> ELSE <<Frame("abort", After(buffer, Top.at))>>
<1>1. stack # <<>> /\ Top.do = "abort" /\ Top.do \in Closers /\ Top.do \in Enders
  BY DEF Step, Top, AbortBuffered, Closers, Enders
<1>2. /\ Top \in Frames /\ t \in Seq(Frames) /\ Elems(stack) = {Top} \cup Elems(t) /\ ~ Opening /\ state = "closed"
      /\ \A f \in Elems(t) : f.do \in Enders
  BY <1>1, Beneath DEF Starts
<1>3. /\ buffer' = Minus(buffer, Top.at) /\ asked' = asked \ {Top.at} /\ stack' = a \o b \o t
      /\ UNCHANGED <<active, state, map, chan, ws, up, down, peer, posts, overlap, sample, watchers, listening>>
  BY DEF AbortBuffered, Minus, wireVars, loginVars, widgetVars
<1>4. Elems(buffer') \subseteq Elems(buffer)
  <2>1. buffer \in Seq(Calls \cup Casts)
    BY Parts DEF TypeOK
  <2>2. buffer' = Minus(buffer, Top.at)
    BY <1>3
  <2>3. buffer' \in Seq(Calls \cup Casts) /\ Elems(buffer') = Elems(buffer) \ {Top.at}
    BY <2>1, <2>2, WithoutItem
  <2> QED  BY <2>3
<1>5. Top.at \in Names /\ After(buffer, Top.at) \in Names
      /\ (After(buffer, Top.at) \in Calls => After(buffer, Top.at) \in Elems(buffer))
  BY <1>2, Parts, AfterTyped, NamesDiffer DEF Frames, TypeOK
<1>6. /\ Frame("refused", Top.at) \in Frames /\ Frame("refused", Top.at).do = "refused"
      /\ Frame("refused", Top.at).at = Top.at
      /\ Frame("abort", After(buffer, Top.at)) \in Frames /\ Frame("abort", After(buffer, Top.at)).do = "abort"
      /\ Frame("abort", After(buffer, Top.at)).at = After(buffer, Top.at)
  BY <1>5, FrameIs, DosAre
<1> HIDE DEF t
<1>7. /\ a \in Seq(Frames) /\ \A f \in Elems(a) : f.do = "refused" /\ f.at = Top.at
      /\ b \in Seq(Frames) /\ \A f \in Elems(b) : f.do = "abort" /\ (f.at \in Calls => f.at \in Elems(buffer))
  BY <1>5, <1>6, ElemsOfFew
<1> HIDE DEF a, b
<1>8. Elems(stack') = Elems(a) \cup Elems(b) \cup Elems(t)
  <2> DEFINE ab == a \o b
  <2>1. ab \in Seq(Frames) /\ Elems(ab) = Elems(a) \cup Elems(b)
    BY <1>7, ElemsOfConcat
  <2>2. stack' = ab \o t
    BY <1>3
  <2> HIDE DEF ab
  <2> QED  BY <1>2, <2>1, <2>2, ElemsOfConcat
<1>9. Fewer
  BY <1>2, <1>3, <1>4, <1>7, <1>8 DEF Fewer, Unused
<1>10. /\ \A f \in Elems(stack') : f.do \in Enders /\ f.do \notin Starts \cup {"cid", "answered", "deauthenticate"}
       /\ (Doing("close") => Doing("close")') /\ ~ Doing("respond")'
  BY <1>1, <1>2, <1>7, <1>8 DEF Doing, Enders, Closers, Starts
<1>11. \A c \in Channels : ~ chan'[c].torn /\ (chan'[c].st = "none" <=> chan[c].st = "none")
  BY <1>3 DEF WInv, Whole
<1>12. overlap = "none" => \A x \in Elems(map') : x.at \notin asked'
  BY <1>2, <1>3 DEF WInv, Single
<1> QED  BY <1>2, <1>3, <1>9, <1>10, <1>11, <1>12, CalmWidget

\* The reconnect timer, and the close of the WebSocket.
LEMMA ReconnectsWidget ==
    ASSUME IInv, IInv', WInv, TryReconnect \/ CloseWebSocket, UNCHANGED <<loginVars, widgetVars>> PROVE WInv'
<1> DEFINE t == Tail(stack)
<1>1. stack # <<>> /\ Top.do \in {"retry", "wsclose"} /\ Top.do \in Closers /\ Top.do \in Enders
  BY DEF Step, Top, TryReconnect, CloseWebSocket, Closers, Enders
<1>2. /\ Top \in Frames /\ t \in Seq(Frames) /\ Elems(stack) = {Top} \cup Elems(t) /\ ~ Opening /\ state = "closed"
      /\ \A f \in Elems(t) : f.do \in Enders
  BY <1>1, Beneath DEF Starts
<1>3. /\ stack' = t /\ UNCHANGED <<active, state, map, chan, asked, buffer, posts, overlap, sample, watchers, listening>>
      /\ UNCHANGED <<ws, up, down, peer>> \/ (up' = <<>> /\ down' = <<>>)
  BY DEF TryReconnect, CloseWebSocket, Gone, wireVars, linkVars, selfVars, loginVars, widgetVars
<1> HIDE DEF t
<1>4. Fewer
  BY <1>2, <1>3 DEF Fewer, Unused
<1>5. /\ \A f \in Elems(stack') : f.do \in Enders /\ f.do \notin Starts \cup {"cid", "answered", "deauthenticate"}
      /\ (Doing("close") => Doing("close")') /\ ~ Doing("respond")'
  BY <1>1, <1>2, <1>3 DEF Doing, Enders, Closers, Starts
<1>6. /\ \A c \in Channels : ~ chan'[c].torn /\ (chan'[c].st = "none" <=> chan[c].st = "none")
      /\ overlap = "none" => \A x \in Elems(map') : x.at \notin asked'
      /\ \A m \in Elems(up') : m \in Elems(up)
  BY <1>2, <1>3, ElemsOfFew DEF WInv, Whole, Single
<1> QED  BY <1>2, <1>3, <1>4, <1>5, <1>6, CalmWidget

\* A round of the loop that rejects the pending calls.  When it ends in an exception, the page has
\* been destroyed, and what stays in the map is not called: no second login is under way.
LEMMA FailPendingWidget ==
    ASSUME IInv, IInv', WInv, FailPending, UNCHANGED <<loginVars, widgetVars>> PROVE WInv'
<1> DEFINE t == Tail(stack)
           e == Top.at
<1>1. stack # <<>> /\ Top.do = "fail" /\ Top.do \in Closers /\ Top.do \in Enders
  BY DEF Step, Top, FailPending, Closers, Enders
<1>2. /\ Top \in Frames /\ t \in Seq(Frames) /\ Elems(stack) = {Top} \cup Elems(t) /\ Elems(t) \subseteq Frames
      /\ ~ Opening /\ state = "closed" /\ \A f \in Elems(t) : f.do \in Enders
  BY <1>1, Beneath DEF Starts
<1>3. /\ UNCHANGED <<active, state, posts, overlap, sample, watchers, listening>>
      /\ UNCHANGED <<ws, up, down, peer>> \/ (up' = <<>> /\ down' = <<>>)
      /\ buffer' = buffer
  BY DEF FailPending, Gone, wireVars, linkVars, selfVars, loginVars, widgetVars
<1>4. \A m \in Elems(up') : m \in Elems(up)
  BY <1>3, ElemsOfFew
<1>5. \A c \in Channels : ~ chan[c].torn
  BY DEF WInv, Whole
<1> HIDE DEF t
<1>6. ASSUME UNCHANGED <<map, chan>> \/ UNCHANGED <<map, asked>>,
             asked' \subseteq asked, stack' = t \/ stack' = <<Frame("refused", e)>> \o t,
             \A c \in Channels : ~ chan'[c].torn /\ (chan'[c].st = "none" <=> chan[c].st = "none")
      PROVE  WInv'
  <2>1. /\ \A f \in Elems(stack') : f \in Elems(t) \/ (f.do = "refused" /\ f.at = Top.at)
        /\ Elems(t) \subseteq Elems(stack')
    <3> DEFINE r == Frame("refused", e)
    <3>1. r \in Frames /\ r.do = "refused" /\ r.at = e
      BY <1>2, FrameIs, DosAre DEF Frames
    <3> HIDE DEF r
    <3>2. <<r>> \o t \in Seq(Frames) /\ Elems(<<r>> \o t) = {r} \cup Elems(t)
      BY <1>2, <3>1, Under
    <3> QED  BY <1>6, <3>1, <3>2 DEF r
  <2>2. Fewer
    BY <1>2, <1>3, <1>6, <2>1 DEF Fewer, Unused
  <2>3. /\ \A f \in Elems(stack') : f.do \in Enders /\ f.do \notin Starts \cup {"cid", "answered", "deauthenticate"}
        /\ (Doing("close") => Doing("close")') /\ ~ Doing("respond")'
    BY <1>1, <1>2, <2>1 DEF Doing, Enders, Closers, Starts
  <2>4. overlap = "none" => \A x \in Elems(map') : x.at \notin asked'
    BY <1>2, <1>6 DEF WInv, Single
  <2> QED  BY <1>2, <1>3, <1>4, <1>6, <2>2, <2>3, <2>4, CalmWidget
<1>7. CASE e = Handshake /\ Gone /\ stack' = Tail(stack) /\ UNCHANGED <<selfVars, linkVars>>
  BY <1>5, <1>6, <1>7 DEF selfVars, linkVars, t
<1>8. CASE /\ e \in asked
           /\ asked' = asked \ {e}
           /\ stack' = <<Frame("refused", e)>> \o Tail(stack)
           /\ UNCHANGED <<active, auth, token, preparing, tried, linkVars, wireVars>>
  BY <1>5, <1>6, <1>8 DEF linkVars, t
<1>9. CASE /\ e \in Channels
           /\ chan' = [chan EXCEPT ![e] = Settled(@, "unsubscribed")]
           /\ stack' = Tail(stack)
           /\ UNCHANGED <<selfVars, state, retry, code, map, buffer, wireVars>>
  <2>1. ~ Settled(chan[e], "unsubscribed").torn
        /\ (Settled(chan[e], "unsubscribed").st = "none" <=> chan[e].st = "none")
    BY DEF Settled, NoChannel
  <2>2. \A c \in Channels : chan'[c] = IF c = e THEN Settled(chan[e], "unsubscribed") ELSE chan[c]
    BY <1>9, Parts DEF TypeOK
  <2>3. \A c \in Channels : ~ chan'[c].torn /\ (chan'[c].st = "none" <=> chan[c].st = "none")
    BY <1>5, <2>1, <2>2
  <2> QED  BY <1>6, <1>9, <2>3 DEF selfVars, t
<1>10. CASE /\ e \in Calls \ asked
            /\ LET left == Without(Tail(stack), LAMBDA f : f.do # "fail")
               IN  map' = [i \in DOMAIN left |-> [cid |-> left[i].n, at |-> left[i].at]]
            /\ stack' = <<>>
            /\ UNCHANGED <<selfVars, state, retry, code, chan, buffer, wireVars>>
  <2> DEFINE left == FailsOf(t)
  <2>1. left \in Seq(Frames) /\ Elems(left) = {f \in Elems(t) : f.do = "fail"}
    <3>1. Pairwise(t, Nesting)
      BY <1>1, Popped, Parts DEF t
    <3> QED  BY <1>2, <3>1, OnlyFails
  <2>2. map' = [i \in DOMAIN left |-> [cid |-> left[i].n, at |-> left[i].at]]
    BY <1>10 DEF FailsOf, t
  <2> HIDE DEF left
  <2>3. \A x \in Elems(map') : \E f \in Elems(t) : f.at = x.at
    <3>1. \A x \in Elems(map') : \E i \in DOMAIN left : x.at = left[i].at
      BY <2>2 DEF Elems
    <3>2. \A i \in DOMAIN left : left[i] \in Elems(left)
      BY DEF Elems
    <3> QED  BY <2>1, <3>1, <3>2
  <2>4. Elems(stack') = {}
    BY <1>10, ElemsOfFew
  <2>5. Fewer
    BY <1>2, <1>3, <1>10, <2>3, <2>4 DEF Fewer, Unused, selfVars
  <2>6. overlap = "none" => \A x \in Elems(map') : x.at \notin asked'
    <3> SUFFICES ASSUME overlap = "none", NEW x \in Elems(map'), x.at \in asked PROVE FALSE
      BY <1>10 DEF selfVars
    <3>1. x.at \in Calls /\ e \in Calls /\ ~ Unused(x.at) /\ ~ Unused(e)
      BY <1>2, <1>10, <2>3, Parts DEF Unused, TypeOK
    <3>2. x.at \in Underway(Logins) /\ e \in Underway(Logins)
      BY <3>1 DEF WInv, Waits, Underway
    <3>3. x.at = e
      BY <1>2, <3>2 DEF WInv, Single
    <3> QED  BY <1>10, <3>3
  <2>7. ~ Doing("close")
    <3>1. \A g \in Elems(t) : Fits(Top, g)
      BY <1>1, Popped, Parts DEF t
    <3> QED  BY <1>1, <1>2, <3>1 DEF Doing, Fits, MayNest
  <2>8. /\ \A c \in Channels : ~ chan'[c].torn /\ (chan'[c].st = "none" <=> chan[c].st = "none")
        /\ UNCHANGED <<ws, up, down, peer>>
    BY <1>5, <1>10 DEF wireVars
  <2> QED  BY <1>2, <1>3, <1>4, <2>4, <2>5, <2>6, <2>7, <2>8, CalmWidget DEF Doing
<1> QED  BY <1>7, <1>8, <1>9, <1>10 DEF FailPending

\* The loops of an open task and the end of a timeout.
LEMMA FlushAllWidget ==
    ASSUME IInv, IInv', WInv, FlushAll \/ CancelResponse, UNCHANGED <<loginVars, widgetVars>> PROVE WInv'
<1> DEFINE t == Tail(stack)
           next == Frame("flush", First(buffer))
<1>1. stack # <<>> /\ Top.do \in {"flushall", "cancel"} /\ TypeOK
  BY Parts DEF Step, Top, FlushAll, CancelResponse
<1>2. /\ Top \in Frames /\ t \in Seq(Frames) /\ Elems(stack) = {Top} \cup Elems(t) /\ ~ Opening
      /\ \A f \in Elems(t) : /\ f.do \notin Starts \cup {"cid", "answered", "deauthenticate"}
                             /\ f.do \in Enders <=> Top.do \in Enders
  BY <1>1, Beneath DEF Starts
<1>3. UNCHANGED <<active, state, ws, up, down, peer, asked, buffer, chan, posts, overlap, sample, watchers, listening>>
  BY DEF FlushAll, CancelResponse, selfVars, linkVars, wireVars, loginVars, widgetVars
<1>4. next \in Frames /\ next.do = "flush" /\ (next.at \in Calls => next.at \in Elems(buffer))
  <2>1. First(buffer) \in Names /\ (First(buffer) \in Calls => First(buffer) \in Elems(buffer))
    BY <1>1, FirstTyped, NamesDiffer DEF TypeOK
  <2> QED  BY <2>1, FrameIs, DosAre
<1>5. stack' = t \/ (stack' = <<next>> \o t /\ Top.do = "flushall")
  <2>1. <<>> \o t = t
    BY <1>2, Beside
  <2> QED  BY <2>1 DEF FlushAll, CancelResponse, Step, Top
<1> HIDE DEF t, next
<1>6. /\ \A f \in Elems(stack') : f \in Elems(t) \/
            (f.do = "flush" /\ (f.at \in Calls => f.at \in Elems(buffer)) /\ Top.do = "flushall")
      /\ \A f \in Elems(t) : f \in Elems(stack')
  <2>1. <<next>> \o t \in Seq(Frames) /\ Elems(<<next>> \o t) = {next} \cup Elems(t)
    BY <1>2, <1>4, Under
  <2> QED  BY <1>4, <1>5, <2>1
<1>7. Elems(map') \subseteq Elems(map)
  <2>1. CASE FlushAll
    BY <2>1 DEF FlushAll, linkVars
  <2>2. CASE CancelResponse
    <3>1. map' = MinusName(map, Top.at) /\ map \in Seq(Entries)
      BY <1>1, <2>2 DEF CancelResponse, MinusName, TypeOK
    <3> QED  BY <3>1, WithoutName
  <2> QED  BY <2>1, <2>2
<1>8. Fewer
  BY <1>2, <1>3, <1>4, <1>6, <1>7 DEF Fewer, Unused
<1>9. /\ \A f \in Elems(stack') : f.do \notin Starts \cup {"cid", "answered", "deauthenticate"}
      /\ ((\E f \in Elems(stack) : f.do \in Enders) => \A f \in Elems(stack) : f.do \in Enders)'
      /\ (Doing("close") => Doing("close")') /\ (Doing("respond")' => Doing("respond"))
  <2>1. \A f \in Elems(stack') : f.do \notin Starts \cup {"cid", "answered", "deauthenticate"}
    BY <1>2, <1>4, <1>6 DEF Starts
  <2>2. ((\E f \in Elems(stack) : f.do \in Enders) => \A f \in Elems(stack) : f.do \in Enders)'
    BY <1>1, <1>2, <1>4, <1>6 DEF Enders, Closers
  <2>3. (Doing("close") => Doing("close")') /\ (Doing("respond")' => Doing("respond"))
    BY <1>1, <1>2, <1>6 DEF Doing
  <2> QED  BY <2>1, <2>2, <2>3
<1>10. /\ \A c \in Channels : ~ chan'[c].torn /\ (chan'[c].st = "none" <=> chan[c].st = "none")
       /\ state = "open" /\ watchers > 0 => chan'[Chat].st \in {"pending", "subscribed"}
       /\ state = "closed" /\ overlap = "none" => \A x \in Elems(map') : x.at \notin asked'
  BY <1>3, <1>7 DEF WInv, Whole, Wanted, Single
<1> QED  BY <1>2, <1>3, <1>7, <1>8, <1>9, <1>10, CalmWidget

\* _onSCOpen from connectAttempts = 0 on.
LEMMA ConnectedWidget ==
    ASSUME IInv, WInv, Connected, UNCHANGED <<loginVars, widgetVars>> PROVE WInv'
<1> DEFINE t == Tail(stack)
           f1 == ProcessPending
           f2 == [Frame("connect", None) EXCEPT !.n = Top.n]
           f3 == Frame("flushall", None)
<1>1. stack # <<>> /\ Top.do = "open" /\ OpeningTask
  BY DEF Step, Top, Connected, WInv, Tasked
<1>2. /\ Top \in Frames /\ t \in Seq(Frames) /\ Elems(stack) = {Top} \cup Elems(t) /\ Elems(t) \subseteq Frames
  BY <1>1, Popped, Parts
<1>3. \A g \in Elems(t) : g.do = "flushall"
  BY <1>1, Opened1 DEF Starts
<1>4. /\ f1 \in Frames /\ f1.do = "tries" /\ f1.at = None
      /\ f2 \in Frames /\ f2.do = "connect" /\ f2.n = Top.n /\ f2.at = None
      /\ f3 \in Frames /\ f3.do = "flushall" /\ f3.at = None
  <2>1. None \in Names /\ Pending \in SUBSET Channels /\ Top.n \in Nat
    BY <1>2, NamesDiffer DEF Pending, Frames
  <2>2. Frame("tries", None) \in Frames /\ Frame("tries", None).do = "tries" /\ Frame("tries", None).at = None
        /\ Frame("connect", None) \in Frames /\ Frame("connect", None).do = "connect" /\ Frame("connect", None).at = None
        /\ f3 \in Frames /\ f3.do = "flushall" /\ f3.at = None
    BY <2>1, FrameIs, DosAre
  <2>3. f1 \in Frames /\ f1.do = "tries" /\ f1.at = None
    BY <2>1, <2>2, FrameWithOf DEF ProcessPending
  <2>4. f2 \in Frames /\ f2.do = "connect" /\ f2.n = Top.n /\ f2.at = None
    BY <2>1, <2>2, FrameWithN
  <2> QED  BY <2>2, <2>3, <2>4
<1>5. /\ stack' = <<f1, f2, f3>> \o t
      /\ UNCHANGED <<active, asked, linkVars, wireVars, loginVars, widgetVars>>
  BY DEF Connected
<1> HIDE DEF t, f1, f2, f3
<1>6. stack' = <<f1>> \o (<<f2>> \o (<<f3>> \o t))
  <2>1. <<f1, f2, f3>> \o t = <<f1>> \o (<<f2>> \o (<<f3>> \o t))
    BY <1>2, <1>4, Beside
  <2> QED  BY <1>5, <2>1
<1> DEFINE t3 == <<f3>> \o t
           t2 == <<f2>> \o t3
<1>7. t3 \in Seq(Frames) /\ Elems(t3) = {f3} \cup Elems(t)
  BY <1>2, <1>4, Under
<1> HIDE DEF t3
<1>8. t2 \in Seq(Frames) /\ Pairwise(t2, Opens) /\ Elems(t2) = {f2} \cup Elems(t3)
  <2>1. Pairwise(t3, Opens)
    BY <1>3, <1>4, <1>7, NoneOpens DEF Starts
  <2>2. \A g \in Elems(t3) : <<f2, g>> \in Opens
    BY <1>2, <1>3, <1>4, <1>7 DEF Opens, Starts
  <2> QED  BY <1>4, <1>7, <2>1, <2>2, Under
<1> HIDE DEF t2
<1>9. Pairwise(stack', Opens) /\ Elems(stack') = {f1, f2, f3} \cup Elems(t)
  <2>1. \A g \in Elems(t2) : <<f1, g>> \in Opens
    BY <1>2, <1>3, <1>4, <1>7, <1>8 DEF Opens, Starts
  <2>2. stack' = <<f1>> \o t2
    BY <1>6 DEF t2, t3
  <2>3. Pairwise(stack', Opens) /\ Elems(stack') = {f1} \cup Elems(t2)
    BY <1>4, <1>8, <2>1, <2>2, Under
  <2> QED  BY <1>7, <1>8, <2>3
<1>10. Opening /\ Opening' /\ OpeningTask'
  <2>1. Opening /\ Opening'
    BY <1>1, <1>2, <1>4, <1>9 DEF Opening, Doing
  <2> QED  BY <1>1, <1>5, <1>9, <2>1 DEF OpeningTask, linkVars
<1>11. Fewer
  BY <1>2, <1>4, <1>5, <1>9, NamesDiffer DEF Fewer, Unused, linkVars, loginVars
<1>12. /\ ~ Doing("deauthenticate")' /\ ~ Doing("close") /\ ~ Doing("respond")'
       /\ \A f \in Elems(stack') : f.do \notin Enders \cup {"cid", "answered"}
       /\ \A f \in Elems(stack') : f.do \in Starts => \E g \in Elems(stack) : g.do \in Starts /\ g.n = f.n
  BY <1>1, <1>2, <1>3, <1>4, <1>9 DEF Doing, Enders, Closers, Starts
<1>13. /\ \A c \in Channels : ~ chan'[c].torn /\ (chan'[c].st = "none" <=> chan[c].st = "none")
       /\ state = "open" /\ watchers > 0 => chan'[Chat].st \in {"pending", "subscribed"}
       /\ state = "open"
  BY <1>1, <1>5, <1>10 DEF WInv, Whole, Wanted, linkVars, OpeningTask
<1>14. UNCHANGED <<active, state, ws, up, down, peer, map, posts, overlap, sample, watchers, listening>>
  BY <1>5 DEF linkVars, wireVars, loginVars, widgetVars
<1> QED  BY <1>10, <1>11, <1>12, <1>13, <1>14, StillWidget

\* Response.end.
LEMMA RespondWidget ==
    ASSUME IInv, IInv', WInv, Respond, UNCHANGED <<loginVars, widgetVars>> PROVE WInv'
<1> DEFINE t == Tail(stack)
           m == Message("respond", None, 0, TRUE)
<1>1. /\ stack # <<>> /\ Top.do = "respond" /\ Send(m, buffer, map, chan, t)
      /\ UNCHANGED <<selfVars, loginVars, widgetVars>>
  BY DEF Step, Top, Respond
<1>2. /\ Top \in Frames /\ t \in Seq(Frames) /\ Elems(stack) = {Top} \cup Elems(t) /\ ~ Opening
      /\ \A f \in Elems(t) : /\ f.do \notin Starts \cup {"cid", "answered", "deauthenticate"}
                             /\ f.do \notin Enders
  <2>1. Top.do \notin Enders \cup Starts \cup {"deauthenticate", "tries", "answered"}
    BY <1>1 DEF Enders, Closers, Starts
  <2> QED  BY <1>1, <2>1, Beneath
<1>3. m \in Messages /\ m.ev = "respond"
  <2>1. None \in Names /\ "respond" \in Evs /\ 0 \in 0 .. MaxCid
    BY NamesDiffer, SCClientAssumption DEF Evs
  <2> QED  BY <2>1, MessageIs
<1>4. state # "closed" => ws = "open"
  BY <1>1, <1>2 DEF WInv, Whole, Doing
<1>5. /\ stack' = t /\ UNCHANGED <<state, chan, buffer, map, ws, down, peer>>
      /\ up' = up \/ up' = Append(up, m)
  BY <1>1, <1>4 DEF Send, ShutDown, wireVars
<1>6. UNCHANGED <<active, asked, posts, overlap, sample, watchers, listening>>
  BY <1>1 DEF selfVars, loginVars, widgetVars
<1> HIDE DEF m, t
<1>7. \A y \in Elems(up') : y \in Elems(up) \/ y = m
  <2>1. up \in Seq(Messages)
    BY Parts DEF TypeOK
  <2>2. Elems(Append(up, m)) = Elems(up) \cup {m}
    BY <1>3, <2>1, ElemsOfAppend
  <2> QED  BY <1>5, <2>2
<1>8. Fewer
  BY <1>2, <1>5, <1>6 DEF Fewer, Unused
<1>9. /\ \A f \in Elems(stack') : f.do \notin Enders
      /\ Doing("close") => Doing("close")'
      /\ Doing("respond")' => Doing("respond")
  BY <1>1, <1>2, <1>5 DEF Doing
<1>10. /\ \A c \in Channels : ~ chan'[c].torn /\ (chan'[c].st = "none" <=> chan[c].st = "none")
       /\ state = "open" /\ watchers > 0 => chan'[Chat].st \in {"pending", "subscribed"}
       /\ state = "closed" /\ overlap = "none" => \A x \in Elems(map') : x.at \notin asked'
  BY <1>5, <1>6 DEF WInv, Whole, Wanted, Single
<1> QED  BY <1>2, <1>3, <1>5, <1>6, <1>7, <1>8, <1>9, <1>10, CalmWidget

\* A round of the loop over the emit buffer.  Without a transport nothing in it waits for an answer.
LEMMA FlushWidget ==
    ASSUME IInv, IInv', WInv, Flush, UNCHANGED <<loginVars, widgetVars>> PROVE WInv'
<1> DEFINE t    == Tail(stack)
           e    == Top.at
           buf  == Minus(buffer, e)
           next == Frame("flush", After(buffer, e))
           rest == <<next>> \o t
           m1(cid) == Message("login", e, cid, TRUE)
           x1(cid) == [cid |-> cid, at |-> e]
           m2 == Message("publish", e, 0, TRUE)
<1>1. /\ stack # <<>> /\ Top.do = "flush" /\ UNCHANGED <<selfVars, loginVars, widgetVars>>
      /\ \/ e = None /\ stack' = t /\ UNCHANGED <<linkVars, wireVars>>
         \/ e \in asked /\ \E cid \in FreshCids : Send(m1(cid), buf, Append(map, x1(cid)), chan, rest)
         \/ e \notin asked \cup {None} /\ Send(m2, buf, map, chan, rest)
  BY DEF Step, Top, Flush, Minus
<1>2. /\ Top \in Frames /\ t \in Seq(Frames) /\ Elems(stack) = {Top} \cup Elems(t) /\ ~ Opening
      /\ \A f \in Elems(t) : f.do \notin Starts \cup {"cid", "answered", "deauthenticate"} \cup Enders
  <2>1. Top.do \notin Enders \cup Starts \cup {"deauthenticate", "tries", "answered"}
    BY <1>1 DEF Enders, Closers, Starts
  <2> QED  BY <1>1, <2>1, Beneath
<1>3. /\ e \in Names /\ asked \subseteq Calls /\ map \in Seq(Entries) /\ buffer \in Seq(Calls \cup Casts)
      /\ up \in Seq(Messages)
  BY <1>2, Parts DEF Frames, TypeOK
<1>4. UNCHANGED <<active, asked, posts, overlap, sample, watchers, listening>>
  BY <1>1 DEF selfVars, loginVars, widgetVars
<1>5. next \in Frames /\ next.do = "flush" /\ (next.at \in Calls => next.at \in Elems(buffer))
  <2>1. After(buffer, e) \in Names /\ (After(buffer, e) \in Calls => After(buffer, e) \in Elems(buffer))
    BY <1>3, AfterTyped, NamesDiffer
  <2> QED  BY <2>1, FrameIs, DosAre
<1>6. buf \in Seq(Calls \cup Casts) /\ Elems(buf) \subseteq Elems(buffer)
  <2>1. buf \in Seq(Calls \cup Casts) /\ Elems(buf) = Elems(buffer) \ {e}
    BY <1>3, WithoutItem
  <2> QED  BY <2>1
<1>7. /\ state \in {"closed", "open"} /\ (state = "open" => ws = "open")
      /\ (state = "closed" => e \notin asked)
  <2>1. state # "connecting" /\ state \in {"closed", "connecting", "open"}
    BY <1>1, <1>2, Parts DEF Disciplined, Doing, TypeOK
  <2>2. ~ Doing("abort") /\ Doing("flush")
    BY <1>1, <1>2 DEF Doing, Enders, Closers
  <2>3. ASSUME state = "closed", e \in asked PROVE FALSE
    <3>1. buffer = <<>> /\ e \in Elems(buffer)
      BY <1>1, <1>2, <2>2, <2>3, Parts DEF Walking
    <3> QED  BY <3>1, ElemsOfFew
  <2> QED  BY <2>1, <2>3 DEF WInv, Whole
<1> HIDE DEF next, t, buf
<1>8. rest \in Seq(Frames) /\ Elems(rest) = {next} \cup Elems(t)
  BY <1>2, <1>5, Under
<1> HIDE DEF rest
<1>9. ASSUME stack' = t \/ stack' = rest, UNCHANGED <<state, chan, ws, peer, down>>,
             Elems(buffer') \subseteq Elems(buffer),
             \A x \in Elems(map') : x \in Elems(map) \/ (state = "open" /\ x.at = e /\ \A m \in Elems(down) : m.cid # x.cid),
             \A y \in Elems(up') : y \in Elems(up) \/ y.ev \notin {"handshake", "disconnect", "subscribe"}
      PROVE  WInv'
  <2>1. /\ \A f \in Elems(stack') : f \in Elems(t) \/ (f.do = "flush" /\ (f.at \in Calls => f.at \in Elems(buffer)))
        /\ \A f \in Elems(t) : f \in Elems(stack')
    BY <1>5, <1>8, <1>9
  <2>2. Fewer
    BY <1>1, <1>2, <1>4, <1>9, <2>1 DEF Fewer, Unused
  <2>3. /\ \A f \in Elems(stack') : f.do \notin Starts \cup {"cid", "answered", "deauthenticate"} \cup Enders
        /\ ~ Doing("close") /\ (Doing("respond")' => Doing("respond"))
    BY <1>1, <1>2, <2>1 DEF Doing, Enders, Closers, Starts
  <2>4. /\ \A c \in Channels : ~ chan'[c].torn /\ (chan'[c].st = "none" <=> chan[c].st = "none")
        /\ state = "open" /\ watchers > 0 => chan'[Chat].st \in {"pending", "subscribed"}
        /\ state = "closed" /\ overlap = "none" => \A x \in Elems(map') : x.at \notin asked'
    BY <1>4, <1>9 DEF WInv, Whole, Wanted, Single
  <2> QED  BY <1>2, <1>4, <1>9, <2>2, <2>3, <2>4, CalmWidget
<1>10. CASE e = None /\ stack' = t /\ UNCHANGED <<linkVars, wireVars>>
  BY <1>9, <1>10 DEF linkVars, wireVars
<1>11. ASSUME e \in asked, NEW cid \in FreshCids, Send(m1(cid), buf, Append(map, x1(cid)), chan, rest)
       PROVE  WInv'
  <2> DEFINE m == m1(cid)
             x == x1(cid)
  <2>1. cid \in Cids /\ cid \in 0 .. MaxCid /\ \A y \in Elems(down) : y.cid # cid
    BY Fresh, SCClientAssumption DEF Cids
  <2>2. m \in Messages /\ m.ev = "login"
    <3>1. "login" \in Evs /\ TRUE \in BOOLEAN
      BY DEF Evs
    <3> HIDE DEF e
    <3> QED  BY <1>3, <2>1, <3>1, MessageIs, ZenonT(60)
  <2>3. x \in Entries /\ x.at = e /\ x.cid = cid
    BY <1>3, <2>1 DEF Entries
  <2>4. /\ up' = Append(up, m) /\ map' = Append(map, x) /\ stack' = rest /\ buffer' = buf
        /\ UNCHANGED <<state, chan, ws, down, peer>> /\ state = "open"
    BY <1>7, <1>11 DEF Send
  <2> HIDE DEF m, x, e
  <2>5. Elems(map') = Elems(map) \cup {x} /\ Elems(up') = Elems(up) \cup {m}
    BY <1>3, <2>2, <2>3, <2>4, ElemsOfAppend
  <2> QED  BY <1>6, <1>9, <2>1, <2>2, <2>3, <2>4, <2>5
<1>12. ASSUME Send(m2, buf, map, chan, rest) PROVE WInv'
  <2>1. m2 \in Messages /\ m2.ev = "publish"
    <3>1. "publish" \in Evs /\ TRUE \in BOOLEAN /\ 0 \in 0 .. MaxCid
      BY SCClientAssumption DEF Evs
    <3> HIDE DEF e
    <3> QED  BY <1>3, <3>1, MessageIs, Zenon
  <2>2. /\ (up' = Append(up, m2) \/ up' = up) /\ map' = map /\ stack' = rest /\ buffer' = buf
        /\ UNCHANGED <<state, chan, ws, down, peer>>
    BY <1>7, <1>12 DEF Send, ShutDown, wireVars
  <2> HIDE DEF m2, e
  <2>3. Elems(Append(up, m2)) = Elems(up) \cup {m2}
    BY <1>3, <2>1, ElemsOfAppend
  <2>4. \A y \in Elems(up') : y \in Elems(up) \/ y.ev \notin {"handshake", "disconnect", "subscribe"}
    BY <2>1, <2>2, <2>3
  <2> QED  BY <1>6, <1>9, <2>2, <2>4
<1> QED  BY <1>1, <1>10, <1>11, <1>12

\* A round of processPendingSubscriptions, or the request of a subscribe: only a page that has joined has
\* something to ask for, and the server knows it.
LEMMA TrySubscribeWidget ==
    ASSUME IInv, AInv, WInv, TrySubscribe, UNCHANGED <<loginVars, widgetVars>> PROVE WInv'
<1> DEFINE t == Tail(stack)
           next(c) == [Top EXCEPT !.of = @ \ {c}]
           rest(c) == <<next(c)>> \o t
           m(c, cid) == Message("subscribe", c, cid, TRUE)
           x(c, cid) == [cid |-> cid, at |-> c]
<1>1. stack # <<>> /\ Top.do = "tries" /\ UNCHANGED <<selfVars, loginVars, widgetVars>>
  BY DEF Step, Top, TrySubscribe
<1>2. /\ Top \in Frames /\ t \in Seq(Frames) /\ Elems(stack) = {Top} \cup Elems(t)
      /\ Pairwise(t, Opens) /\ \A f \in Elems(t) : f.do \notin {"cid", "answered"} \cup Enders
  <2>1. /\ Top \in Frames /\ t \in Seq(Frames) /\ Elems(stack) = {Top} \cup Elems(t)
    BY <1>1, Popped, Parts
  <2>2. \A f \in Elems(stack) : f.do # "answered"
    BY <1>1 DEF WInv, Alright, Top
  <2>3. Top.do \notin Enders
    BY <1>1 DEF Enders, Closers
  <2>4. Pairwise(t, Opens)
    BY <1>1, Opened1 DEF WInv, Tasked
  <2> QED  BY <2>1, <2>2, <2>3, <2>4 DEF WInv, Whole, Tasked, Doing
<1>3. UNCHANGED <<active, asked, posts, overlap, sample, watchers, listening>>
  BY <1>1 DEF selfVars, loginVars, widgetVars
<1>4. Top.of \in SUBSET Channels
  BY <1>2 DEF Frames
<1> HIDE DEF t
<1>5. ASSUME NEW c \in Top.of
      PROVE  /\ next(c) \in Frames /\ next(c).do = "tries" /\ next(c).at = Top.at
             /\ rest(c) \in Seq(Frames) /\ Elems(rest(c)) = {next(c)} \cup Elems(t) /\ Pairwise(rest(c), Opens)
  <2>1. next(c) \in Frames /\ next(c).do = "tries" /\ next(c).at = Top.at
    BY <1>1, <1>2 DEF Frames
  <2> DEFINE f == next(c)
  <2>2. f \in Frames /\ f.do = "tries"
    BY <2>1
  <2> HIDE DEF f
  <2>3. \A g \in Elems(t) : <<f, g>> \in Opens
    <3>1. Elems(t) \subseteq Frames /\ \A g \in Elems(t) : g.do \in Starts => f.do \in {"deauthenticate", "tries"}
      BY <1>2, <2>2, ElemsTyped
    <3> QED  BY <2>2, <3>1 DEF Opens, Starts
  <2>4. <<f>> \o t \in Seq(Frames) /\ Elems(<<f>> \o t) = {f} \cup Elems(t) /\ Pairwise(<<f>> \o t, Opens)
    BY <1>2, <2>2, <2>3, Under
  <2> QED  BY <2>1, <2>4 DEF f
<1>6. ASSUME stack' = t \/ \E c \in Top.of : stack' = rest(c), UNCHANGED <<state, ws, buffer, peer, down>>,
             \A d \in Elems(up') : d \in Elems(up) \/ (d.ev = "subscribe" /\ peer.authed),
             \A d \in Channels : chan'[d].torn = chan[d].torn /\ chan'[d].st = chan[d].st,
             \A d \in Elems(map') : d \in Elems(map) \/
                (state = "open" /\ d.at \notin Calls /\ \A y \in Elems(down) : y.cid # d.cid)
      PROVE  WInv'
  <2>1. /\ Pairwise(stack', Opens)
        /\ \A f \in Elems(stack') : f \in Elems(t) \/ (f.do = "tries" /\ f.at = Top.at)
        /\ \A f \in Elems(t) : f \in Elems(stack')
    <3>1. CASE stack' = t
      BY <1>2, <3>1
    <3>2. ASSUME NEW c \in Top.of, stack' = rest(c)
          PROVE  /\ Pairwise(stack', Opens)
                 /\ \A f \in Elems(stack') : f \in Elems(t) \/ (f.do = "tries" /\ f.at = Top.at)
                 /\ \A f \in Elems(t) : f \in Elems(stack')
      <4> HIDE DEF next, rest
      <4> QED  BY <1>5, <3>2
    <3> QED  BY <1>6, <3>1, <3>2
  <2>2. Opening' <=> Opening
    BY <1>1, <1>2, <2>1 DEF Opening, Doing
  <2>3. OpeningTask'
    BY <1>6, <2>1, <2>2 DEF WInv, Tasked, OpeningTask
  <2>4. (Doing("deauthenticate") => Doing("open"))'
    BY <1>1, <1>2, <2>1 DEF WInv, Tasked, Doing
  <2>5. /\ ~ Doing("close") /\ (Doing("respond")' => Doing("respond"))
        /\ \A f \in Elems(stack') : f.do \notin {"cid", "answered"} \cup Enders
        /\ \A f \in Elems(stack') : f.do \in Starts => \E g \in Elems(stack) : g.do \in Starts /\ g.n = f.n
    BY <1>1, <1>2, <2>1 DEF Doing, Enders, Closers, Starts
  <2>6. Fewer
    BY <1>2, <1>3, <1>6, <2>1 DEF Fewer, Unused
  <2>7. /\ \A c \in Channels : ~ chan'[c].torn /\ (chan'[c].st = "none" <=> chan[c].st = "none")
        /\ state = "open" /\ watchers > 0 => chan'[Chat].st \in {"pending", "subscribed"}
        /\ state = "closed" /\ overlap = "none" => \A y \in Elems(map') : y.at \notin asked'
    BY <1>3, <1>6 DEF WInv, Hosting, Whole, Wanted, Single
  <2> QED  BY <1>3, <1>6, <2>2, <2>3, <2>4, <2>5, <2>6, <2>7, StillWidget
<1>7. ASSUME stack' = t \/ \E c \in Top.of : stack' = rest(c), UNCHANGED <<linkVars, wireVars>>
      PROVE  WInv'
  <2>1. UNCHANGED <<state, chan, ws, up, down, peer, map, buffer>>
    BY <1>7 DEF linkVars, wireVars
  <2> HIDE DEF rest
  <2> QED  BY <1>6, <1>7, <2>1
<1>8. ASSUME NEW c \in Top.of, NEW cid \in FreshCids, ws = "open", state = "open",
             Send(m(c, cid), buffer, Append(map, x(c, cid)), [chan EXCEPT ![c].cid = cid], rest(c))
      PROVE  WInv'
  <2> DEFINE mm == m(c, cid)
             xx == x(c, cid)
  <2>1. /\ cid \in Cids /\ cid \in 0 .. MaxCid /\ \A y \in Elems(down) : y.cid # cid
        /\ c \in Channels /\ c \in Names /\ c \notin Calls
    BY <1>4, Fresh, NamesDiffer, SCClientAssumption DEF Cids
  <2>2. mm \in Messages /\ mm.ev = "subscribe"
    <3>1. "subscribe" \in Evs /\ TRUE \in BOOLEAN
      BY DEF Evs
    <3> QED  BY <2>1, <3>1, MessageIs, ZenonT(60)
  <2>3. xx \in Entries /\ xx.at = c /\ xx.cid = cid
    BY <2>1 DEF Entries
  <2>4. /\ up' = Append(up, mm) /\ map' = Append(map, xx) /\ stack' = rest(c)
        /\ chan' = [chan EXCEPT ![c].cid = cid] /\ UNCHANGED <<state, ws, down, peer, buffer>>
    BY <1>8 DEF Send
  <2>5. peer.authed
    <3>1. chan[c].st = "pending"
      BY <1>1, <1>8 DEF AInv, Trying, Step, Top
    <3>2. c = Chat
      BY <2>1, <3>1 DEF WInv, Whole
    <3> QED  BY <1>8, <3>1, <3>2 DEF WInv, Kept, Authed
  <2> HIDE DEF mm, xx, rest
  <2>6. Elems(map') = Elems(map) \cup {xx} /\ Elems(up') = Elems(up) \cup {mm}
    BY <2>2, <2>3, <2>4, Parts, ElemsOfAppend DEF TypeOK
  <2>7. \A d \in Channels : chan'[d].torn = chan[d].torn /\ chan'[d].st = chan[d].st
    BY <2>4, Parts DEF TypeOK
  <2> QED  BY <1>6, <1>8, <2>1, <2>2, <2>3, <2>4, <2>5, <2>6, <2>7
<1>9. \/ stack' = t /\ UNCHANGED <<linkVars, wireVars>>
      \/ \E c \in Top.of : stack' = rest(c) /\ UNCHANGED <<linkVars, wireVars>>
      \/ state = "open" /\ ws = "open" /\ \E c \in Top.of : \E cid \in FreshCids :
            Send(m(c, cid), buffer, Append(map, x(c, cid)), [chan EXCEPT ![c].cid = cid], rest(c))
  <2>1. state = "open" => ws = "open"
    BY DEF WInv, Whole
  <2> QED  BY <2>1 DEF TrySubscribe, t
<1> QED  BY <1>7, <1>8, <1>9

\* The library as a whole.
LEMMA LibraryWidget ==
    ASSUME IInv, AInv, IInv', WInv, Library, UNCHANGED <<loginVars, widgetVars>> PROVE WInv'
<1>1. ~ AssignCid
  <2>1. AssignCid => stack # <<>> /\ Top.do = "cid"
    BY DEF AssignCid, Step, Top
  <2>2. stack # <<>> => Top \in Elems(stack)
    BY Popped, Parts
  <2> QED  BY <2>1, <2>2 DEF WInv, Whole, Doing
<1>2. CASE AbortBuffered \/ TryReconnect \/ CloseWebSocket \/ FailPending
  BY <1>2, AbortBufferedWidget, ReconnectsWidget, FailPendingWidget
<1>3. CASE TrySubscribe \/ Flush \/ FlushAll \/ CancelResponse
  BY <1>3, TrySubscribeWidget, FlushWidget, FlushAllWidget
<1>4. CASE Respond \/ Connected
  BY <1>4, RespondWidget, ConnectedWidget
<1> QED  BY <1>1, <1>2, <1>3, <1>4 DEF Library

-----------------------------------------------------------------------------
(***************************************************************************)
(* What the browser reports.                                               *)
(***************************************************************************)

\* The close of a transport, and what becomes of its WebSocket.
LEMMA ShutDownWidget ==
    ASSUME IInv', WInv, ~ Opening, state # "closed", NEW how \in Nat, NEW buf, NEW mp, NEW rest,
           ShutDown(how, buf, mp, chan, rest), MayClose(buf, mp, rest),
           Elems(buf) \subseteq Elems(buffer), Elems(mp) \subseteq Elems(map),
           \A f \in Elems(rest) : f.do \in Enders /\ (f \in Elems(stack) \/ f.at \notin Calls),
           UNCHANGED <<asked, posts, overlap, sample, watchers, listening>>,
           active' => active, SaidGoodbye' => ~ active',
           \A m \in Elems(up') : m \in Elems(up) \/ m.ev # "handshake",
           UNCHANGED <<ws, peer, down>> \/ down' = <<>>
    PROVE  WInv'
<1>1. /\ state' = "closed" /\ chan' = [c \in Channels |-> Suspended(chan[c])]
      /\ map' = <<>> /\ buffer' = buf
      /\ \A f \in Elems(stack') : f \in Elems(rest) \/ f.do \in Closers
      /\ Doing("close")'
      /\ \A f \in Elems(stack') : f \in Elems(rest) \/ f.at \notin Calls \/ f.at \in Elems(buf)
                                   \/ \E x \in Elems(mp) : x.at = f.at
  BY ShutCalls
<1>2. \A c \in Channels : ~ chan'[c].torn /\ (chan[c].st = "none" => chan'[c].st = "none")
  BY <1>1 DEF Suspended, NoChannel
<1>3. Elems(map') = {}
  BY <1>1, ElemsOfFew
<1>4. Fewer
  BY <1>1, <1>3 DEF Fewer, Unused
<1>5. \A f \in Elems(stack') : f.do \in Enders
  BY <1>1 DEF Enders
<1> QED  BY <1>1, <1>2, <1>3, <1>4, <1>5, ShutWidget

\* onerror, onclose and the timeouts of a connection.
LEMMA BrokenWidget ==
    ASSUME IInv, IInv', WInv, WsError \/ WsClose \/ ConnectTimeout \/ PingTimeout \/ HandshakeTimeout,
           UNCHANGED <<loginVars, widgetVars>>
    PROVE  WInv'
<1>1. Idle /\ UNCHANGED <<active, asked, posts, overlap, sample, watchers, listening>>
  BY DEF WsError, WsClose, ConnectTimeout, PingTimeout, HandshakeTimeout, WsClosed, selfVars, loginVars, widgetVars
<1>2. stack = <<>> /\ Elems(stack) = {} /\ ~ Opening
  BY <1>1, Resting DEF Opening, Doing
<1> DEFINE one == <<Frame("wsclose", None)>>
<1>3. Elems(<<>>) = {} /\ \A f \in Elems(one) : f.do \in Enders /\ f.at \notin Calls
  <2> DEFINE f == Frame("wsclose", None)
  <2>1. f \in Frames /\ f.do = "wsclose" /\ f.at = None /\ None \notin Calls
    BY NamesDiffer, FrameIs, DosAre
  <2> HIDE DEF f
  <2>2. Elems(<<f>>) = {f}
    BY <2>1, Alone
  <2> QED  BY <2>1, <2>2, ElemsOfFew DEF Enders, Closers, f
<1> HIDE DEF one
<1>4. ASSUME up' = up \/ up' = <<>>
      PROVE  /\ SaidGoodbye' => ~ active'
             /\ \A m \in Elems(up') : m \in Elems(up)
  <2>1. \A m \in Elems(up') : m \in Elems(up)
    BY <1>4, ElemsOfFew
  <2> QED  BY <1>1, <2>1 DEF WInv, Whole, SaidGoodbye
<1>5. ASSUME NEW how \in Nat, state # "closed", NEW mp, Elems(mp) \subseteq Elems(map),
             \/ ShutDown(how, buffer, mp, chan, <<>>) /\ Gone /\ MayClose(buffer, mp, <<>>)
             \/ ShutDown(how, buffer, mp, chan, one) /\ UNCHANGED wireVars /\ MayClose(buffer, mp, one)
      PROVE  WInv'
  <2>1. SaidGoodbye' => ~ active'
    BY <1>4, <1>5 DEF Gone, wireVars
  <2>2. CASE ShutDown(how, buffer, mp, chan, <<>>) /\ Gone /\ MayClose(buffer, mp, <<>>)
    <3>1. up' = <<>> /\ down' = <<>>
      BY <2>2 DEF Gone
    <3>2. \A m \in Elems(up') : m \in Elems(up)
      BY <1>4, <3>1
    <3> QED  BY <1>1, <1>2, <1>3, <1>5, <2>1, <2>2, <3>1, <3>2, ShutDownWidget
  <2>3. CASE ShutDown(how, buffer, mp, chan, one) /\ UNCHANGED wireVars /\ MayClose(buffer, mp, one)
    <3>1. UNCHANGED <<ws, up, peer, down>>
      BY <2>3 DEF wireVars
    <3> QED  BY <1>1, <1>2, <1>3, <1>5, <2>1, <2>3, <3>1, ShutDownWidget
  <2> QED  BY <1>5, <2>2, <2>3
<1>6. state # "closed" => MayClose(buffer, map, <<>>) /\ MayClose(buffer, map, one)
  BY <1>1, MayCloseNow DEF one
<1>7. CASE WsError
  BY <1>5, <1>6, <1>7 DEF WsError, WsClosed, Closing
<1>8. CASE ConnectTimeout
  BY <1>5, <1>6, <1>8 DEF ConnectTimeout, Closing, one
<1>9. CASE PingTimeout
  BY <1>5, <1>6, <1>9 DEF PingTimeout, Closing, one
<1>10. CASE WsClose
  <2>1. PICK how \in CloseCodes : WsClosed(how, <<>>)
    BY <1>10 DEF WsClose
  <2>2. how \in Nat
    BY SCClientAssumption
  <2>3. CASE state # "closed"
    BY <1>5, <1>6, <2>1, <2>2, <2>3 DEF WsClosed, Closing
  <2>4. CASE state = "closed"
    <3>1. UNCHANGED <<state, chan, stack, map, buffer>> /\ up' = <<>> /\ down' = <<>>
      BY <1>2, <2>1, <2>4 DEF WsClosed, Closing, ShutDown, Gone
    <3>2. /\ SaidGoodbye' => ~ active'
          /\ \A m \in Elems(up') : m \in Elems(up)
      BY <1>4, <3>1
    <3>3. Fewer
      BY <1>1, <3>1 DEF Fewer, Unused
    <3>4. /\ watchers > 0 => ~ active /\ overlap # "none"
          /\ \A c \in Channels : ~ chan[c].torn
          /\ overlap = "none" => \A x \in Elems(map) : x.at \notin asked
      BY <1>2, <2>4 DEF WInv, Where, Whole, Single, Doing
    <3> QED  BY <1>1, <1>2, <2>4, <3>1, <3>2, <3>3, <3>4, ShutWidget
  <2> QED  BY <2>3, <2>4
<1>11. CASE HandshakeTimeout
  <2> DEFINE mp == MinusName(map, Handshake)
  <2>1. state = "connecting" /\ UNCHANGED wireVars /\ ShutDown(4003, buffer, mp, chan, one)
    BY <1>11 DEF HandshakeTimeout, MinusName, one
  <2>2. mp \in Seq(Entries) /\ Pairwise(mp, EntriesDiffer) /\ Elems(mp) = {x \in Elems(map) : x.at # Handshake}
    BY Parts, WithoutName DEF TypeOK, Held
  <2> HIDE DEF mp
  <2>3. Elems(mp) = {} /\ \A x \in Elems(map) : x.at \notin asked
    <3>1. \A x \in Elems(map) : x.at = Handshake
      BY <2>1, Parts DEF Disciplined
    <3> QED  BY <2>2, <3>1, Parts, NamesDiffer DEF TypeOK
  <2>4. MayClose(buffer, mp, one) /\ 4003 \in Nat
    BY <1>6, <2>1, <2>2, <2>3 DEF MayClose
  <2> QED  BY <1>5, <2>1, <2>3, <2>4
<1> QED  BY <1>7, <1>8, <1>9, <1>10, <1>11

\* What the invariant says nothing about changes.
LEMMA SameWidget ==
    ASSUME WInv, UNCHANGED <<active, state, ws, up, down, peer, buffer, map, asked, chan, stack>>,
           UNCHANGED <<posts, overlap, sample, watchers, listening>>
    PROVE  WInv'
<1>1. Hosting' /\ Waits' /\ Kept'
  BY DEF WInv, Hosting, Waits, Unused, Kept
<1>2. Whole' /\ Tasked' /\ Alright'
  BY DEF WInv, Whole, Doing, SaidGoodbye, Tasked, OpeningTask, Opening, Alright
<1>3. Where' /\ Single'
  BY DEF WInv, Where, Single, Opening, Doing, Underway, Unused
<1>4. Authed' /\ Wanted'
  BY DEF WInv, Authed, Wanted
<1> QED  BY <1>1, <1>2, <1>3, <1>4 DEF WInv

\* onopen: the handshake is all there is.
LEMMA WsOpenWidget ==
    ASSUME IInv, WInv, WsOpen, UNCHANGED <<loginVars, widgetVars>> PROVE WInv'
<1>1. stack = <<>> /\ Elems(stack) = {}
  BY Resting DEF WsOpen
<1>2. PICK cid \in FreshCids : /\ map' = <<[cid |-> cid, at |-> Handshake]>>
                               /\ up' = <<Message("handshake", Handshake, cid, token)>>
  BY DEF WsOpen
<1>3. /\ ws = "connecting" /\ ws' = "open" /\ state = "connecting"
      /\ UNCHANGED <<active, asked, state, chan, buffer, down, peer, stack, posts, overlap, sample, watchers, listening>>
  BY DEF WsOpen, selfVars, loginVars, widgetVars
<1>4. /\ \A x \in Elems(map') : x.at \notin Calls
      /\ \A m \in Elems(up') : m.ev # "disconnect"
  <2>1. \A m \in Elems(up') : m = Message("handshake", Handshake, cid, token)
    BY <1>2, ElemsOfFew
  <2> QED  BY <1>2, <2>1, ElemsOfFew, NamesDiffer DEF Message
<1>5. down' = <<>>
  BY <1>3 DEF WInv, Authed
<1>6. Fewer
  BY <1>1, <1>3, <1>4 DEF Fewer, Unused
<1>7. Underway(Joins)' \subseteq Underway(Joins) /\ Underway(Logins)' \subseteq Underway(Logins)
  BY <1>3, <1>6, FewerLogins, LoginsAre
<1>8. Hosting' /\ Waits' /\ Kept'
  BY <1>3, <1>6 DEF WInv, Hosting, Waits, Fewer, Kept
<1>9. Whole' /\ Tasked' /\ Alright'
  <2>1. ~ SaidGoodbye' /\ ~ Opening' /\ \A do : ~ Doing(do)'
    BY <1>1, <1>3, <1>4 DEF SaidGoodbye, Opening, Doing
  <2>2. Whole'
    BY <1>3, <2>1 DEF WInv, Whole
  <2>3. Tasked' /\ Alright'
    BY <1>1, <1>3, <2>1 DEF WInv, Tasked, OpeningTask, Alright
  <2> QED  BY <2>2, <2>3
<1>10. Where' /\ Single'
  <2>1. (Opening' <=> Opening) /\ (Doing("close")' <=> Doing("close"))
    BY <1>3 DEF Opening, Doing
  <2> QED  BY <1>3, <1>7, <2>1 DEF WInv, Where, Single
<1>11. Authed' /\ Wanted'
  BY <1>3, <1>5, ElemsOfFew DEF Authed, Wanted
<1> QED  BY <1>8, <1>9, <1>10, <1>11 DEF WInv

\* The reconnect timer: a page that has not been destroyed has left the channel.
LEMMA ReconnectTimerWidget ==
    ASSUME IInv, WInv, ReconnectTimer, UNCHANGED <<loginVars, widgetVars>> PROVE WInv'
<1>1. Idle /\ stack = <<>> /\ Elems(stack) = {} /\ ~ Opening
  BY Resting DEF ReconnectTimer, Opening, Doing
<1>2. UNCHANGED <<active, asked, chan, buffer, stack, posts, overlap, sample, watchers, listening>> /\ retry # "none"
  BY DEF ReconnectTimer, selfVars, loginVars, widgetVars
<1>3. CASE ~ active
  <2>1. UNCHANGED <<state, map, ws, up, down, peer>>
    BY <1>3 DEF ReconnectTimer, wireVars
  <2> QED  BY <1>2, <2>1, SameWidget
<1>4. CASE active
  <2>1. NewTransport /\ map' = <<>> /\ state' = "connecting"
    BY <1>4 DEF ReconnectTimer, NewTransport
  <2>2. state = "closed"
    BY <1>2, Parts DEF Disciplined
  <2>3. watchers = 0
    <3>1. watchers \in Nat
      BY DEF WInv, Kept
    <3> QED  BY <1>1, <1>4, <2>2, <3>1 DEF WInv, Where, Doing
  <2>4. Fewer
    BY <1>2, <2>1, ElemsOfFew DEF Fewer, Unused
  <2>5. OpeningTask'
    BY <1>1, <1>2, PairwiseFew DEF OpeningTask, Opening, Doing
  <2> QED  BY <1>1, <1>2, <2>1, <2>3, <2>4, <2>5, AnewWidget
<1> QED  BY <1>3, <1>4

\* A login that is not answered in time.
LEMMA AckTimeoutWidget ==
    ASSUME IInv, IInv', WInv, NEW e \in Calls, AckTimeout(e), UNCHANGED <<loginVars, widgetVars>> PROVE WInv'
<1> DEFINE f1 == Frame("refused", e)
           f2 == Frame("cancel", e)
<1>1. stack = <<>> /\ Elems(stack) = {} /\ ~ Opening /\ TypeOK
  BY Resting, Parts DEF AckTimeout, Opening, Doing
<1>2. f1 \in Frames /\ f1.do = "refused" /\ f1.at = e /\ f2 \in Frames /\ f2.do = "cancel" /\ f2.at = e
  BY NamesDiffer, FrameIs, DosAre
<1>3. /\ stack' = <<f1, f2>> /\ e \in asked /\ asked' = asked \ {e} /\ buffer' = Minus(buffer, e)
      /\ UNCHANGED <<active, state, map, chan, ws, up, down, peer, posts, overlap, sample, watchers, listening>>
  BY DEF AckTimeout, Minus, wireVars, loginVars, widgetVars
<1> HIDE DEF f1, f2
<1>4. \A f \in Elems(stack') : f.do \in {"refused", "cancel"} /\ f.at = e
  BY <1>2, <1>3, ElemsOfFew
<1>5. Elems(buffer') \subseteq Elems(buffer)
  <2>1. buffer \in Seq(Calls \cup Casts) /\ buffer' = Minus(buffer, e)
    BY <1>1, <1>3 DEF TypeOK
  <2>2. buffer' \in Seq(Calls \cup Casts) /\ Elems(buffer') = Elems(buffer) \ {e}
    BY <2>1, WithoutItem
  <2> QED  BY <2>2
<1>6. Fewer
  BY <1>3, <1>4, <1>5 DEF Fewer, Unused
<1>7. /\ \A f \in Elems(stack') : f.do \in Enders /\ f.do \notin Starts \cup {"cid", "answered", "deauthenticate"}
      /\ (Doing("close") => Doing("close")') /\ ~ Doing("respond")'
  BY <1>1, <1>4 DEF Doing, Enders, Starts
<1>8. /\ \A c \in Channels : ~ chan'[c].torn /\ (chan'[c].st = "none" <=> chan[c].st = "none")
      /\ state = "open" /\ watchers > 0 => chan'[Chat].st \in {"pending", "subscribed"}
      /\ state = "closed" /\ overlap = "none" => \A x \in Elems(map') : x.at \notin asked'
  BY <1>3 DEF WInv, Whole, Wanted, Single
<1> QED  BY <1>1, <1>3, <1>6, <1>7, <1>8, CalmWidget

\* An event: a new token, or a publication.
LEMMA ReceiveEventWidget ==
    ASSUME IInv, IInv', WInv, ReceiveEvent, UNCHANGED <<loginVars, widgetVars>> PROVE WInv'
<1>1. stack = <<>> /\ Elems(stack) = {} /\ ~ Opening /\ TypeOK
  BY Resting, Parts DEF ReceiveEvent, Opening, Doing
<1> DEFINE m == Head(down)
<1>2. /\ ws = "open" /\ down # <<>> /\ down' = Tail(down)
      /\ UNCHANGED <<active, asked, state, chan, map, buffer, ws, up, peer, posts, overlap, sample, watchers, listening>>
  BY DEF ReceiveEvent, linkVars, loginVars, widgetVars
<1>3. \/ stack' = (IF auth THEN <<>> ELSE <<ProcessPending>>) \o <<Frame("respond", None)>>
      \/ m.ev = "publish" /\ (stack' = <<Frame("message", m.at)>> \/ stack' = <<>>)
      \/ stack' = stack
  BY DEF ReceiveEvent
<1>4. m \in Messages /\ Elems(down') \subseteq Elems(down) /\ (m.ev = "publish" => m.at \in Channels)
  <2>1. m \in Messages /\ Elems(down) = {m} \cup Elems(Tail(down))
    BY <1>1, <1>2, ElemsOfTail DEF TypeOK
  <2> QED  BY <1>2, <2>1, Parts DEF Typed, WireOK
<1> HIDE DEF m
<1>5. \A f \in Elems(stack') : f.do \in {"tries", "respond", "message"} /\ f.at \notin Calls
  <2>1. CASE m.ev = "publish" /\ (stack' = <<Frame("message", m.at)>> \/ stack' = <<>>)
    <3> DEFINE told == Frame("message", m.at)
    <3>1. m.at \in Names /\ m.at \notin Calls
      BY <1>4, <2>1, NamesDiffer
    <3>2. told \in Frames /\ told.do = "message" /\ told.at \notin Calls
      BY <3>1, FrameIs, DosAre
    <3> HIDE DEF told
    <3>3. Elems(stack') \subseteq {told}
      BY <2>1, <3>2, CallOrNone DEF told
    <3> QED  BY <3>2, <3>3
  <2>2. CASE stack' = (IF auth THEN <<>> ELSE <<ProcessPending>>) \o <<Frame("respond", None)>>
    <3> DEFINE one == <<Frame("respond", None)>>
    <3>1. None \in Names /\ Pending \in SUBSET Channels /\ None \notin Calls
      BY NamesDiffer DEF Pending
    <3>2. /\ Frame("respond", None) \in Frames /\ Frame("respond", None).do = "respond" /\ Frame("respond", None).at = None
          /\ Frame("tries", None) \in Frames /\ Frame("tries", None).do = "tries" /\ Frame("tries", None).at = None
      BY <3>1, FrameIs, DosAre
    <3>3. ProcessPending \in Frames /\ ProcessPending.do = "tries" /\ ProcessPending.at = None
      BY <3>1, <3>2, FrameWithOf DEF ProcessPending
    <3>4. one \in Seq(Frames) /\ Elems(one) = {Frame("respond", None)}
      BY <3>2, Alone
    <3>5. stack' = <<ProcessPending>> \o one \/ stack' = <<>> \o one
      BY <2>2
    <3> HIDE DEF one
    <3>6. Elems(<<ProcessPending>> \o one) = {ProcessPending} \cup Elems(one)
      BY <3>3, <3>4, Under
    <3>7. <<>> \o one = one
      BY <3>4, Beside
    <3> QED  BY <3>1, <3>2, <3>3, <3>4, <3>5, <3>6, <3>7
  <2>3. CASE stack' = stack
    BY <1>1, <2>3
  <2> QED  BY <1>3, <2>1, <2>2, <2>3
<1>6. Fewer
  BY <1>2, <1>5 DEF Fewer, Unused
<1>7. /\ \A f \in Elems(stack') : f.do \notin Enders \cup Starts \cup {"cid", "answered", "deauthenticate"}
      /\ ~ Doing("close")
  BY <1>1, <1>5 DEF Doing, Enders, Closers, Starts
<1>8. /\ \A c \in Channels : ~ chan'[c].torn /\ (chan'[c].st = "none" <=> chan[c].st = "none")
      /\ state = "open" /\ watchers > 0 => chan'[Chat].st \in {"pending", "subscribed"}
      /\ state = "closed" /\ overlap = "none" => \A x \in Elems(map') : x.at \notin asked'
  BY <1>2 DEF WInv, Whole, Wanted, Single
<1> QED  BY <1>1, <1>2, <1>4, <1>6, <1>7, <1>8, CalmWidget

\* The answer to the handshake: the page has not joined yet.
LEMMA OpenedWidget ==
    ASSUME IInv, AInv, WInv, Idle, ws = "open", down # <<>>, Head(down).ev = "answer", down' = Tail(down),
           NEW e \in Elems(map), e.at = Handshake, e.cid = Head(down).cid, map' = MinusCid(map, e.cid),
           Opened(Head(down).ok),
           UNCHANGED <<active, asked, chan, buffer, ws, up, peer, posts, overlap, sample, watchers, listening>>
    PROVE  WInv'
<1> DEFINE m == Head(down)
<1>1. /\ stack = <<>> /\ Elems(stack) = {} /\ TypeOK /\ Disciplined /\ Held
      /\ m \in Messages /\ m \in Elems(down) /\ Elems(down') \subseteq Elems(down)
  <2>1. TypeOK /\ Disciplined /\ Held /\ Elems(stack) = {} /\ stack = <<>>
    BY Resting, Parts
  <2>2. m \in Messages /\ Elems(down) = {m} \cup Elems(Tail(down))
    BY <2>1, ElemsOfTail DEF TypeOK
  <2> QED  BY <2>1, <2>2
<1>2. state = "connecting" /\ active /\ watchers = 0
  <2>1. state = "connecting"
    BY <1>1 DEF Disciplined, TypeOK
  <2>2. active
    BY <1>1, <2>1 DEF Disciplined
  <2> QED  BY <1>1, <2>1, <2>2 DEF WInv, Where, Kept, Doing
<1>3. Elems(map') = {}
  <2>1. map \in Seq(Entries) /\ Pairwise(map, EntriesDiffer)
    BY <1>1 DEF TypeOK, Held
  <2>2. Elems(map') = {x \in Elems(map) : x.cid # e.cid}
    BY <2>1, WithoutCid
  <2>3. \A x \in Elems(map) : x = e
    <3>1. \A x \in Elems(map) : x.at = Handshake
      BY <1>1, <1>2 DEF Disciplined
    <3> QED  BY <2>1, <3>1, OneEntry
  <2> QED  BY <2>2, <2>3
<1> DEFINE bye == Frame("deauthenticate", None)
           go  == [Frame("open", None) EXCEPT !.n = IF m.ok THEN 1 ELSE 0]
<1>4. /\ bye \in Frames /\ bye.do = "deauthenticate" /\ bye.at \notin Calls
      /\ go \in Frames /\ go.do = "open" /\ go.n = (IF m.ok THEN 1 ELSE 0) /\ go.at \notin Calls
  <2>1. None \in Names /\ None \notin Calls /\ (IF m.ok THEN 1 ELSE 0) \in Nat
    BY NamesDiffer
  <2>2. /\ bye \in Frames /\ bye.do = "deauthenticate" /\ bye.at = None
        /\ Frame("open", None) \in Frames /\ Frame("open", None).do = "open" /\ Frame("open", None).at = None
    BY <2>1, FrameIs, DosAre
  <2> HIDE DEF bye, m
  <2> QED  BY <2>1, <2>2, FrameWithN
<1>5. state' = "open" /\ stack' = (IF auth /\ ~ m.ok THEN <<bye>> ELSE <<>>) \o <<go>>
  BY DEF Opened
<1> HIDE DEF bye, go, m
<1>6. /\ Pairwise(stack', Opens) /\ Elems(stack') \subseteq {bye, go} /\ go \in Elems(stack')
  <2> DEFINE one == <<go>>
  <2>1. one \in Seq(Frames) /\ Elems(one) = {go} /\ Pairwise(one, Opens)
    BY <1>4, Alone, PairwiseFew
  <2>2. stack' = <<bye>> \o one \/ stack' = <<>> \o one
    BY <1>5
  <2> HIDE DEF one
  <2>3. <<bye, go>> \in Opens
    BY <1>4 DEF Opens, Starts
  <2>4. /\ <<bye>> \o one \in Seq(Frames) /\ Elems(<<bye>> \o one) = {bye} \cup Elems(one)
        /\ Pairwise(<<bye>> \o one, Opens)
    BY <1>4, <2>1, <2>3, Under
  <2>5. <<>> \o one = one
    BY <2>1, Beside
  <2> QED  BY <2>1, <2>2, <2>4, <2>5
<1>7. Opening' /\ OpeningTask'
  <2>1. Opening'
    BY <1>4, <1>6 DEF Opening, Doing
  <2> QED  BY <1>5, <1>6, <2>1 DEF OpeningTask
<1>8. Fewer
  BY <1>3, <1>4, <1>6 DEF Fewer, Unused
<1>9. Hosting' /\ Waits' /\ Kept'
  BY <1>8 DEF WInv, Hosting, Waits, Fewer, Kept
<1>10. Whole'
  <2>1. SaidGoodbye' => SaidGoodbye
    BY DEF SaidGoodbye
  <2>2. ~ Doing("cid")'
    BY <1>4, <1>6 DEF Doing
  <2> QED  BY <1>5, <2>1, <2>2 DEF WInv, Whole
<1>11. Tasked' /\ Alright'
  <2>1. Doing("open")' /\ \A f \in Elems(stack') : f.do \notin Enders \cup {"answered"}
    BY <1>4, <1>6 DEF Doing, Enders, Closers
  <2> QED  BY <1>7, <2>1 DEF Tasked, Alright
<1>12. Where'
  BY <1>2, <1>5 DEF Where
<1>13. Single'
  <2>1. Underway(Joins)' \subseteq Underway(Joins)
    BY <1>8, FewerLogins, LoginsAre
  <2> QED  BY <1>5, <1>7, <2>1 DEF WInv, Single
<1>14. Authed'
  <2>1. m.ok => peer.authed
    BY <1>1 DEF WInv, Authed, m
  <2>2. \A f \in Elems(stack') : f.do = "answered" \/ (f.do \in Starts /\ f.n = 1) => peer'.authed
    BY <1>4, <1>6, <2>1 DEF Starts
  <2>3. \A d \in Elems(up') : d.ev # "handshake"
    BY <1>2 DEF WInv, Authed
  <2>4. \A d \in Elems(up') : d.ev # "subscribe"
    <3>1. \A d \in Elems(up) : d.ev = "subscribe" => d.at \in Channels
      BY Parts DEF Typed, WireOK
    <3>2. \A c \in Channels : Untold(c)
      BY <1>2 DEF AInv, Introduced
    <3> QED  BY <3>1, <3>2 DEF Untold, About
  <2>5. \A d \in Elems(down') : d.ev = "answer" /\ d.ok => peer'.authed
    BY <1>1 DEF WInv, Authed
  <2> QED  BY <1>2, <2>2, <2>3, <2>4, <2>5 DEF Authed
<1>15. Wanted'
  BY <1>2, <1>3 DEF Wanted
<1> QED  BY <1>9, <1>10, <1>11, <1>12, <1>13, <1>14, <1>15 DEF WInv

\* The answer to a login that succeeded, and still has its callback.
LEMMA AnsweredWidget ==
    ASSUME IInv, WInv, Idle, down # <<>>, Head(down).ev = "answer", Head(down).ok, down' = Tail(down),
           NEW e \in Elems(map), e.at \in asked, asked' = asked \ {e.at}, map' = MinusCid(map, e.cid),
           stack' = <<Frame("answered", e.at)>>,
           UNCHANGED <<active, state, chan, buffer, ws, up, peer, posts, overlap, sample, watchers, listening>>
    PROVE  WInv'
<1> DEFINE told == Frame("answered", e.at)
<1>1. /\ stack = <<>> /\ Elems(stack) = {} /\ TypeOK /\ Disciplined /\ Held /\ e.at \in Calls /\ e.at # Handshake
      /\ peer.authed /\ Elems(down') \subseteq Elems(down) /\ ~ Opening
  <2>1. TypeOK /\ Disciplined /\ Held /\ Elems(stack) = {} /\ stack = <<>>
    BY Resting, Parts
  <2>2. Head(down) \in Elems(down) /\ Elems(down') \subseteq Elems(down)
    <3>1. Elems(down) = {Head(down)} \cup Elems(Tail(down))
      BY <2>1, ElemsOfTail DEF TypeOK
    <3> QED  BY <3>1
  <2>3. peer.authed
    BY <2>2 DEF WInv, Authed
  <2>4. e.at \in Calls /\ e.at # Handshake
    BY <2>1, NamesDiffer DEF TypeOK
  <2> QED  BY <2>1, <2>2, <2>3, <2>4 DEF Opening, Doing
<1>2. told \in Frames /\ told.do = "answered" /\ told.at = e.at
  BY <1>1, NamesDiffer, FrameIs, DosAre
<1> HIDE DEF told
<1>3. Elems(stack') = {told} /\ Pairwise(stack', Opens) /\ stack' = <<told>>
  <2>1. stack' = <<told>>
    BY DEF told
  <2>2. Elems(<<told>>) = {told}
    BY <1>2, Alone
  <2>3. Pairwise(<<told>>, Opens)
    BY PairwiseFew
  <2> QED  BY <2>1, <2>2, <2>3
<1>4. /\ Elems(map') \subseteq Elems(map) /\ \A x \in Elems(map') : x.at # e.at
      /\ e.at \notin Elems(buffer)
  <2>1. map \in Seq(Entries) /\ Pairwise(map, EntriesDiffer)
    BY <1>1 DEF TypeOK, Held
  <2>2. Elems(map') = {x \in Elems(map) : x.cid # e.cid}
    BY <2>1, WithoutCid
  <2>3. \A x \in Elems(map) : x.at = e.at => x = e
    BY <1>1, <2>1, OneEntry
  <2>4. e.at \notin Elems(buffer)
    BY <1>1 DEF Held, InBuffer, InMap
  <2> QED  BY <2>2, <2>3, <2>4
<1>5. state = "open" \/ (~ active /\ overlap # "none")
  <2>1. state # "connecting"
    BY <1>1 DEF Disciplined
  <2>2. state = "closed" => ~ active
    BY <1>1, ElemsOfFew DEF Disciplined
  <2>3. state = "closed" => overlap # "none"
    BY <1>1 DEF WInv, Single
  <2> QED  BY <1>1, <2>1, <2>2, <2>3 DEF TypeOK
<1>6. ~ Opening' /\ OpeningTask'
  <2>1. ~ Opening'
    BY <1>2, <1>3 DEF Opening, Doing
  <2> QED  BY <1>3, <2>1 DEF OpeningTask
<1>7. Fewer
  BY <1>1, <1>2, <1>3, <1>4 DEF Fewer, Unused
<1>8. Hosting' /\ Waits' /\ Kept'
  BY <1>7 DEF WInv, Hosting, Waits, Fewer, Kept
<1>9. Whole'
  <2>1. SaidGoodbye' => SaidGoodbye
    BY DEF SaidGoodbye
  <2>2. ~ Doing("cid")' /\ ~ Doing("respond")'
    BY <1>2, <1>3 DEF Doing
  <2> QED  BY <2>1, <2>2 DEF WInv, Whole
<1>10. Tasked' /\ Alright'
  <2>1. ~ Doing("deauthenticate")' /\ \A f \in Elems(stack') : f.do \notin Enders
    BY <1>2, <1>3 DEF Doing, Enders, Closers
  <2> QED  BY <1>2, <1>3, <1>4, <1>5, <1>6, <2>1 DEF Tasked, Alright
<1>11. Where' /\ Single'
  <2>1. Underway(Joins)' \subseteq Underway(Joins) /\ Underway(Logins)' \subseteq Underway(Logins)
    BY <1>7, FewerLogins, LoginsAre
  <2>2. ~ Doing("close")
    BY <1>1 DEF Doing
  <2> QED  BY <1>1, <1>4, <1>6, <2>1, <2>2 DEF WInv, Where, Single
<1>12. Authed' /\ Wanted'
  BY <1>1, <1>2, <1>3, <1>4, ElemsOfFew DEF WInv, Authed, Wanted, Starts
<1> QED  BY <1>8, <1>9, <1>10, <1>11, <1>12 DEF WInv

\* The answer to a call.
LEMMA ReceiveAnswerWidget ==
    ASSUME IInv, AInv, IInv', WInv, ReceiveAnswer, UNCHANGED <<loginVars, widgetVars>> PROVE WInv'
<1> DEFINE m == Head(down)
<1>1. /\ stack = <<>> /\ Elems(stack) = {} /\ TypeOK /\ ~ Opening /\ Held /\ Idle
      /\ \A c \in Channels : ~ chan[c].torn
  <2>1. Elems(stack) = {} /\ stack = <<>>
    BY Resting DEF ReceiveAnswer
  <2> QED  BY <2>1, Parts DEF ReceiveAnswer, Opening, Doing, WInv, Whole
<1>2. /\ ws = "open" /\ down # <<>> /\ m.ev = "answer" /\ down' = Tail(down)
      /\ map' = MinusCid(map, m.cid)
      /\ UNCHANGED <<active, buffer, ws, up, peer, posts, overlap, sample, watchers, listening>>
  BY DEF ReceiveAnswer, MinusCid, loginVars, widgetVars
<1>3. m \in Elems(down) /\ Elems(down') \subseteq Elems(down)
  <2>1. Elems(down) = {m} \cup Elems(Tail(down))
    BY <1>1, <1>2, ElemsOfTail DEF TypeOK
  <2> QED  BY <1>2, <2>1
<1>4. Elems(map') = {x \in Elems(map) : x.cid # m.cid}
  <2>1. map \in Seq(Entries)
    BY <1>1 DEF TypeOK
  <2> QED  BY <1>2, <2>1, WithoutCid
<1>5. \/ /\ \A e \in Elems(map) : e.cid # m.cid
         /\ UNCHANGED <<state, preparing, auth, asked, chan, stack>>
      \/ \E e \in Elems(map) :
               /\ e.cid = m.cid
               /\ \/ /\ e.at = Handshake
                     /\ Opened(m.ok)
                     /\ UNCHANGED <<asked, chan>>
                  \/ /\ e.at \in Calls
                     /\ asked' = asked \ {e.at}
                     /\ stack' = IF e.at \in asked
                                 THEN <<IF m.ok THEN Frame("answered", e.at) ELSE Denied(e.at)>> ELSE <<>>
                     /\ UNCHANGED <<state, preparing, auth, chan>>
                  \/ /\ e.at \in Channels
                     /\ chan' = [chan EXCEPT ![e.at] =
                                   Settled(@, IF m.ok THEN "subscribed" ELSE "unsubscribed")]
                     /\ stack' = IF m.ok /\ chan[e.at].st \notin {"none", "subscribed"}
                                 THEN <<Frame("subscribe", e.at)>> ELSE <<>>
                     /\ UNCHANGED <<state, preparing, auth, asked>>
  BY DEF ReceiveAnswer
\* Where no login succeeds.
<1>6. ASSUME UNCHANGED state, asked' \subseteq asked,
             \A f \in Elems(stack') : \/ f.do = "subscribe" /\ f.at \notin Calls
                                      \/ f.do = "refused" /\ \E x \in Elems(map) : x.at = f.at,
             Elems(stack') = {} \/ \E do \in {"subscribe", "refused"} : \A f \in Elems(stack') : f.do = do,
             \A c \in Channels : ~ chan'[c].torn /\ (chan'[c].st = "none" <=> chan[c].st = "none"),
             state = "open" /\ watchers > 0 => chan'[Chat].st \in {"pending", "subscribed"}
      PROVE  WInv'
  <2>1. Fewer
    BY <1>2, <1>4, <1>6 DEF Fewer, Unused
  <2>2. /\ \A f \in Elems(stack') : f.do \notin Starts \cup {"cid", "answered", "deauthenticate", "respond"}
        /\ ((\E f \in Elems(stack) : f.do \in Enders) => \A f \in Elems(stack) : f.do \in Enders)'
        /\ ~ Doing("close") /\ ~ Doing("respond")'
    BY <1>1, <1>6 DEF Doing, Enders, Closers, Starts
  <2>3. state = "closed" /\ overlap = "none" => \A x \in Elems(map') : x.at \notin asked'
    BY <1>1, <1>4, <1>6 DEF WInv, Single
  <2>4. \A x \in Elems(map') : x \in Elems(map)
    BY <1>4
  <2> QED  BY <1>1, <1>2, <1>3, <1>6, <2>1, <2>2, <2>3, <2>4, CalmWidget
<1>7. CASE /\ \A e \in Elems(map) : e.cid # m.cid
           /\ UNCHANGED <<state, preparing, auth, asked, chan, stack>>
  <2>1. state = "open" /\ watchers > 0 => chan'[Chat].st \in {"pending", "subscribed"}
    BY <1>7 DEF WInv, Wanted
  <2> QED  BY <1>1, <1>6, <1>7, <2>1
<1>8. ASSUME NEW e \in Elems(map), e.cid = m.cid, e.at = Handshake, Opened(m.ok), UNCHANGED <<asked, chan>>
      PROVE  WInv'
  BY <1>1, <1>2, <1>8, OpenedWidget
<1>9. ASSUME NEW e \in Elems(map), e.cid = m.cid, e.at \in Calls, asked' = asked \ {e.at},
             stack' = IF e.at \in asked
                      THEN <<IF m.ok THEN Frame("answered", e.at) ELSE Denied(e.at)>> ELSE <<>>,
             UNCHANGED <<state, preparing, auth, chan>>
      PROVE  WInv'
  <2>1. CASE e.at \in asked /\ m.ok
    BY <1>1, <1>2, <1>9, <2>1, AnsweredWidget
  <2>2. CASE ~ (e.at \in asked /\ m.ok)
    <3> DEFINE told == Denied(e.at)
    <3>1. told \in Frames /\ told.do = "refused" /\ told.at = e.at
      <4>1. Frame("refused", e.at) \in Frames /\ Frame("refused", e.at).do = "refused" /\ Frame("refused", e.at).at = e.at
        BY <1>9, NamesDiffer, FrameIs, DosAre
      <4> QED  BY <4>1, FrameWithN DEF Denied
    <3> HIDE DEF told
    <3>2. stack' = <<told>> \/ stack' = <<>>
      BY <1>9, <2>2 DEF told
    <3>3. Elems(stack') \subseteq {told}
      BY <3>1, <3>2, CallOrNone
    <3>4. state = "open" /\ watchers > 0 => chan'[Chat].st \in {"pending", "subscribed"}
      BY <1>9 DEF WInv, Wanted
    <3> HIDE DEF m
    <3> QED  BY <1>1, <1>6, <1>9, <3>1, <3>3, <3>4
  <2> QED  BY <2>1, <2>2
<1>10. ASSUME NEW e \in Elems(map), e.cid = m.cid, e.at \in Channels,
              chan' = [chan EXCEPT ![e.at] = Settled(@, IF m.ok THEN "subscribed" ELSE "unsubscribed")],
              stack' = IF m.ok /\ chan[e.at].st \notin {"none", "subscribed"}
                       THEN <<Frame("subscribe", e.at)>> ELSE <<>>,
              UNCHANGED <<state, preparing, auth, asked>>
       PROVE  WInv'
  <2> DEFINE told == Frame("subscribe", e.at)
             new == Settled(chan[e.at], IF m.ok THEN "subscribed" ELSE "unsubscribed")
  <2>1. told \in Frames /\ told.do = "subscribe" /\ told.at \notin Calls
    <3>1. e.at \in Names /\ e.at \notin Calls
      BY <1>10, NamesDiffer
    <3> QED  BY <3>1, FrameIs, DosAre
  <2>2. stack' = <<told>> \/ stack' = <<>>
    BY <1>10
  <2> HIDE DEF told
  <2>3. Elems(stack') \subseteq {told}
    BY <2>1, <2>2, CallOrNone
  <2>4. state = "open" => m.ok
    BY <1>2, <1>3, <1>10 DEF WInv, Wanted
  <2>5. ~ new.torn /\ (new.st = "none" <=> chan[e.at].st = "none")
        /\ (m.ok /\ chan[e.at].st # "none" => new.st = "subscribed")
    BY DEF Settled, NoChannel
  <2>6. \A c \in Channels : chan'[c] = IF c = e.at THEN new ELSE chan[c]
    BY <1>1, <1>10 DEF TypeOK
  <2> HIDE DEF new
  <2>7. \A c \in Channels : ~ chan'[c].torn /\ (chan'[c].st = "none" <=> chan[c].st = "none")
    BY <1>1, <2>5, <2>6
  <2>8. state = "open" /\ watchers > 0 => chan'[Chat].st \in {"pending", "subscribed"}
    BY <2>4, <2>5, <2>6 DEF WInv, Wanted, Hosting
  <2>9. \A f \in Elems(stack') : f.do = "subscribe" /\ f.at \notin Calls
    BY <2>1, <2>3
  <2> HIDE DEF m
  <2> QED  BY <1>6, <1>10, <2>7, <2>8, <2>9
<1> QED  BY <1>5, <1>7, <1>8, <1>9, <1>10

\* The browser as a whole.
LEMMA BrowserWidget ==
    ASSUME IInv, AInv, IInv', WInv, Browser, UNCHANGED <<loginVars, widgetVars>> PROVE WInv'
<1>1. ~ WsClosing
  BY DEF WInv, Hosting, WsClosing
<1>2. CASE WsOpen \/ ReconnectTimer \/ \E e \in Calls : AckTimeout(e)
  BY <1>2, WsOpenWidget, ReconnectTimerWidget, AckTimeoutWidget
<1>3. CASE WsError \/ WsClose \/ ConnectTimeout \/ PingTimeout \/ HandshakeTimeout
  BY <1>3, BrokenWidget
<1>4. CASE ReceiveAnswer \/ ReceiveEvent
  BY <1>4, ReceiveAnswerWidget, ReceiveEventWidget
<1> QED  BY <1>1, <1>2, <1>3, <1>4 DEF Browser

-----------------------------------------------------------------------------
(***************************************************************************)
(* What the server does.                                                   *)
(***************************************************************************)

\* A step of the server, or of the WebSocket.
LEMMA WireWidget ==
    ASSUME WInv, UNCHANGED <<selfVars, linkVars, stack, loginVars, widgetVars>>, ws = "open",
           ws' = "open" \/ (ws' = "closing" /\ state = "closed" /\ Idle),
           Elems(up') \subseteq Elems(up), state = "open" /\ peer.authed => peer'.authed,
           \A m \in Elems(down') : m.ev = "answer" /\ m.ok => peer'.authed,
           (\E m \in Elems(up') : m.ev = "handshake") => down' = <<>>,
           state = "open" =>
              \A m \in Elems(down'), x \in Elems(map) :
                 m.ev = "answer" /\ m.cid = x.cid /\ x.at \in Channels => m \in Elems(down) \/ m.ok
    PROVE  WInv'
<1>1. UNCHANGED <<active, state, buffer, map, asked, chan, stack, posts, overlap, sample, watchers, listening>>
  BY DEF selfVars, linkVars, loginVars, widgetVars
<1>2. Hosting' /\ Waits' /\ Kept'
  BY <1>1 DEF WInv, Hosting, Waits, Unused, Kept
<1>3. Tasked' /\ Alright'
  BY <1>1 DEF WInv, Tasked, Doing, OpeningTask, Opening, Alright
<1>4. Where' /\ Single'
  BY <1>1 DEF WInv, Where, Single, Opening, Doing, Underway, Unused
<1>5. Whole'
  <2>1. SaidGoodbye' => SaidGoodbye
    BY DEF SaidGoodbye
  <2>2. Idle => ~ Doing("respond")'
    BY <1>1, ElemsOfFew DEF Idle, Doing
  <2>3. state' = "closed" \/ ws' = "open"
    BY <1>1
  <2>4. ws' = "open" \/ (state' = "closed" /\ ~ Doing("respond")')
    BY <1>1, <2>2
  <2>5. ~ Doing("cid")'
    BY <1>1 DEF WInv, Whole, Doing
  <2> QED  BY <1>1, <2>1, <2>3, <2>4, <2>5 DEF WInv, Whole
<1>6. Authed'
  BY <1>1 DEF WInv, Authed
<1>7. Wanted'
  BY <1>1 DEF WInv, Wanted
<1> QED  BY <1>2, <1>3, <1>4, <1>5, <1>6, <1>7 DEF WInv

\* Only the subscribe that a channel waits for has its call id.
LEMMA AskedFor ==
    ASSUME IInv, AInv, state = "open", ws = "open", NEW m \in Elems(up), NEW x \in Elems(map),
           x.at \in Channels, m.cid = x.cid
    PROVE  m.ev = "subscribe"
<1>1. /\ active /\ x.cid # 0
      /\ up \in Seq(Messages)
  <2>1. map \in Seq(Entries) /\ up \in Seq(Messages) /\ active
    BY Parts DEF TypeOK, Disciplined
  <2>2. x \in Entries
    BY <2>1, ElemsTyped
  <2> QED  BY <2>1, <2>2 DEF Entries, Cids
<1>2. chan[x.at].cid = x.cid /\ Waiting(x.at)
  BY <1>1 DEF AInv, Current, Waiting
<1>3. Asking(x.at) \/ Told(x.at)
  BY <1>2 DEF AInv, Agreeing, Agreed
<1>4. CASE Told(x.at)
  BY <1>2, <1>4 DEF Told
<1>5. CASE Asking(x.at)
  <2>1. PICK j \in DOMAIN up : up[j] = m
    BY DEF Elems
  <2>2. PICK i \in DOMAIN up : up[i].ev = "subscribe" /\ \A k \in DOMAIN up : k # i => up[k].cid # chan[x.at].cid
    BY <1>5 DEF Asking
  <2> QED  BY <1>2, <2>1, <2>2
<1> QED  BY <1>3, <1>4, <1>5

\* handleHandshake.
LEMMA PeerHandshakeWidget ==
    ASSUME IInv, AInv, WInv, PeerHandshake, UNCHANGED <<loginVars, widgetVars>> PROVE WInv'
<1>1. /\ PeerTakes("handshake") /\ UNCHANGED <<selfVars, linkVars, ws, stack>>
      /\ up # <<>> /\ up' = Tail(up)
  BY DEF PeerHandshake, PeerTakes
<1>2. PICK valid \in BOOLEAN : peer' = [peer EXCEPT !.authed = valid] /\ down' = Append(down, Answer(Head(up), valid))
  BY DEF PeerHandshake
<1>3. /\ ws = "open" /\ Head(up) \in Messages /\ Head(up).ev = "handshake" /\ Head(up) \in Elems(up)
      /\ up' \in Seq(Messages) /\ Elems(up') \subseteq Elems(up)
  BY <1>1, Taken
<1>4. /\ up \in Seq(Messages) /\ down \in Seq(Messages) /\ peer \in [authed : BOOLEAN, subs : SUBSET Channels]
  BY Parts DEF TypeOK
<1>5. state # "open" /\ down = <<>>
  BY <1>3 DEF WInv, Authed
<1>6. \A m \in Elems(up') : m.ev # "handshake"
  <2>1. \A i \in DOMAIN up : up[i].ev = "handshake" => i = 1
    BY DEF AInv, Introduced
  <2>2. \A i \in DOMAIN up' : up'[i] = up[i + 1] /\ i + 1 \in DOMAIN up /\ i + 1 # 1
    BY <1>1, <1>4
  <2> QED  BY <2>1, <2>2 DEF Elems
<1>7. \A m \in Elems(down') : m.ok => peer'.authed
  <2> DEFINE a == Answer(Head(up), valid)
  <2>1. a \in Messages /\ a.ok = valid
    BY <1>3, AnswerIs DEF Answer, Message
  <2>2. peer'.authed = valid
    BY <1>2, <1>4
  <2>3. Elems(down') = Elems(down) \cup {a}
    BY <1>2, <1>4, <2>1, ElemsOfAppend
  <2> HIDE DEF a
  <2>4. Elems(down) = {}
    BY <1>5, ElemsOfFew
  <2> QED  BY <2>1, <2>2, <2>3, <2>4
<1> QED  BY <1>1, <1>3, <1>5, <1>6, <1>7, WireWidget

\* handleLogin.
LEMMA PeerLoginWidget ==
    ASSUME IInv, AInv, WInv, PeerLogin, UNCHANGED <<loginVars, widgetVars>> PROVE WInv'
<1>1. PeerTakes("login") /\ UNCHANGED <<selfVars, linkVars, ws, stack>>
  BY DEF PeerLogin
<1>2. /\ ws = "open" /\ Head(up) \in Messages /\ Head(up).ev = "login" /\ Head(up) \in Elems(up)
      /\ Elems(up') \subseteq Elems(up)
  BY <1>1, Taken
<1>3. down \in Seq(Messages) /\ peer \in [authed : BOOLEAN, subs : SUBSET Channels]
  BY Parts DEF TypeOK
<1> DEFINE yes == Answer(Head(up), TRUE)
           no  == Answer(Head(up), FALSE)
           set == Message("setAuthToken", None, 0, TRUE)
<1>4. /\ yes \in Messages /\ yes.ok /\ yes.cid = Head(up).cid
      /\ no \in Messages /\ no.ev = "answer" /\ ~ no.ok /\ no.cid = Head(up).cid
      /\ set \in Messages /\ set.ev = "setAuthToken"
  <2>1. None \in Names /\ "setAuthToken" \in Evs /\ 0 \in 0 .. MaxCid
    BY NamesDiffer, SCClientAssumption DEF Evs
  <2>2. set \in Messages /\ set.ev = "setAuthToken"
    BY <2>1, MessageIs
  <2>3. /\ yes.ok /\ yes.cid = Head(up).cid /\ ~ no.ok /\ no.cid = Head(up).cid
    BY DEF Answer, Message
  <2> QED  BY <1>2, <2>2, <2>3, AnswerIs
<1>5. \/ peer' = [peer EXCEPT !.authed = TRUE] /\ down' = down \o <<yes, set>>
      \/ peer' = peer /\ down' = Append(down, no)
  BY DEF PeerLogin
<1> HIDE DEF yes, no, set
<1>6. \A m \in Elems(down') : m \in Elems(down) \/ m = no \/ ((m = yes \/ m = set) /\ peer'.authed)
  <2>1. CASE peer' = [peer EXCEPT !.authed = TRUE] /\ down' = down \o <<yes, set>>
    <3> DEFINE two == <<yes, set>>
    <3>1. two \in Seq(Messages) /\ Elems(two) = {yes, set}
      BY <1>4, ElemsOfFew
    <3>2. down' = down \o two /\ peer'.authed
      BY <1>3, <2>1
    <3> HIDE DEF two
    <3>3. Elems(down') = Elems(down) \cup Elems(two)
      BY <1>3, <3>1, <3>2, ElemsOfConcat
    <3> QED  BY <3>1, <3>2, <3>3
  <2>2. CASE peer' = peer /\ down' = Append(down, no)
    <3>1. Elems(down') = Elems(down) \cup {no}
      BY <1>3, <1>4, <2>2, ElemsOfAppend
    <3> QED  BY <3>1
  <2> QED  BY <1>5, <2>1, <2>2
<1>7. peer.authed => peer'.authed
  BY <1>3, <1>5
<1>8. \A m \in Elems(up') : m.ev # "handshake"
  <2>1. \A i \in DOMAIN up : up[i].ev = "handshake" => i = 1
    BY DEF AInv, Introduced
  <2>2. up \in Seq(Messages) /\ up # <<>> /\ up' = Tail(up)
    BY <1>1, Parts DEF PeerTakes, TypeOK
  <2>3. \A i \in DOMAIN up' : up'[i] = up[i + 1] /\ i + 1 \in DOMAIN up /\ i + 1 # 1
    BY <2>2
  <2> QED  BY <2>1, <2>3 DEF Elems
<1>9. \A m \in Elems(down') : m.ev = "answer" /\ m.ok => peer'.authed
  BY <1>4, <1>6, <1>7 DEF WInv, Authed
<1>10. state = "open" =>
          \A m \in Elems(down'), x \in Elems(map) :
             m.ev = "answer" /\ m.cid = x.cid /\ x.at \in Channels => m \in Elems(down) \/ m.ok
  <2>1. state = "open" => \A x \in Elems(map) : x.at \in Channels => x.cid # Head(up).cid
    BY <1>2, AskedFor
  <2> QED  BY <1>4, <1>6, <2>1
<1> QED  BY <1>1, <1>2, <1>7, <1>8, <1>9, <1>10, WireWidget

\* handleSubscribe, on the channel of a connection that has been authenticated.
LEMMA PeerSubscribeWidget ==
    ASSUME IInv, AInv, WInv, PeerSubscribe, UNCHANGED <<loginVars, widgetVars>> PROVE WInv'
<1>1. /\ PeerTakes("subscribe") /\ UNCHANGED <<selfVars, linkVars, ws, stack>>
      /\ peer' = [peer EXCEPT !.subs = IF peer.authed THEN @ \cup {Head(up).at} ELSE @]
      /\ down' = Append(down, Answer(Head(up), peer.authed))
  BY DEF PeerSubscribe
<1>2. /\ ws = "open" /\ Head(up) \in Messages /\ Head(up).ev = "subscribe" /\ Head(up) \in Elems(up)
      /\ Elems(up') \subseteq Elems(up)
  BY <1>1, Taken
<1>3. down \in Seq(Messages) /\ peer \in [authed : BOOLEAN, subs : SUBSET Channels] /\ peer.authed \in BOOLEAN
  BY Parts DEF TypeOK
<1> DEFINE a == Answer(Head(up), peer.authed)
<1>4. a \in Messages /\ a.ok = peer.authed
  BY <1>2, <1>3, AnswerIs DEF Answer, Message
<1>5. Elems(down') = Elems(down) \cup {a}
  BY <1>1, <1>3, <1>4, ElemsOfAppend
<1> HIDE DEF a
<1>6. peer'.authed = peer.authed
  BY <1>1, <1>3
<1>7. \A m \in Elems(up') : m.ev # "handshake"
  <2>1. \A i \in DOMAIN up : up[i].ev = "handshake" => i = 1
    BY DEF AInv, Introduced
  <2>2. up \in Seq(Messages) /\ up # <<>> /\ up' = Tail(up)
    BY <1>1, Parts DEF PeerTakes, TypeOK
  <2>3. \A i \in DOMAIN up' : up'[i] = up[i + 1] /\ i + 1 \in DOMAIN up /\ i + 1 # 1
    BY <2>2
  <2> QED  BY <2>1, <2>3 DEF Elems
<1>8. state = "open" => a.ok
  BY <1>2, <1>4 DEF WInv, Authed
<1>9. \A m \in Elems(down') : m.ev = "answer" /\ m.ok => peer'.authed
  BY <1>4, <1>5, <1>6 DEF WInv, Authed
<1> QED  BY <1>1, <1>2, <1>5, <1>6, <1>7, <1>8, <1>9, WireWidget

\* What the server takes without an answer.
LEMMA PeerQuietWidget ==
    ASSUME IInv, AInv, WInv, PeerUnsubscribe \/ PeerIgnores \/ PeerDisconnect, UNCHANGED <<loginVars, widgetVars>>
    PROVE  WInv'
<1>1. PICK ev \in {"unsubscribe", "publish", "respond", "disconnect"} : PeerTakes(ev)
  BY DEF PeerUnsubscribe, PeerIgnores, PeerDisconnect
<1>2. /\ ws = "open" /\ Head(up) \in Messages /\ Head(up) \in Elems(up) /\ Head(up).ev = ev
      /\ Elems(up') \subseteq Elems(up)
  BY <1>1, Taken
<1>3. peer \in [authed : BOOLEAN, subs : SUBSET Channels]
  BY Parts DEF TypeOK
<1>4. /\ UNCHANGED <<selfVars, linkVars, stack, down>> /\ peer'.authed = peer.authed
      /\ ws' = ws \/ (ws' = "closing" /\ ev = "disconnect" /\ Idle)
  <2>1. CASE PeerUnsubscribe
    BY <1>3, <2>1 DEF PeerUnsubscribe
  <2>2. CASE PeerIgnores
    BY <2>2 DEF PeerIgnores
  <2>3. CASE PeerDisconnect
    <3>1. Head(up).ev = "disconnect"
      BY <2>3 DEF PeerDisconnect, PeerTakes
    <3> QED  BY <1>2, <2>3, <3>1 DEF PeerDisconnect
  <2> QED  BY <2>1, <2>2, <2>3
<1>5. ev = "disconnect" => state = "closed"
  <2>1. ev = "disconnect" => ~ active
    BY <1>2 DEF WInv, Whole, SaidGoodbye
  <2> QED  BY <2>1, Parts DEF Disciplined
<1>6. (\E m \in Elems(up') : m.ev = "handshake") => down' = <<>>
  BY <1>2, <1>4 DEF WInv, Authed
<1>7. \A m \in Elems(down') : m.ev = "answer" /\ m.ok => peer'.authed
  BY <1>4 DEF WInv, Authed
<1> QED  BY <1>2, <1>4, <1>5, <1>6, <1>7, WireWidget

\* A publication.
LEMMA PeerPublishWidget ==
    ASSUME IInv, AInv, WInv, PeerPublish, UNCHANGED <<loginVars, widgetVars>> PROVE WInv'
<1>1. ws = "open" /\ UNCHANGED <<selfVars, linkVars, ws, up, peer, stack>>
  BY DEF PeerPublish
<1>2. PICK c \in peer.subs : down' = Append(down, Message("publish", c, 0, TRUE))
  BY DEF PeerPublish
<1>3. /\ down \in Seq(Messages) /\ c \in Names
      /\ "publish" \in Evs /\ 0 \in 0 .. MaxCid
  <2>1. c \in Channels /\ down \in Seq(Messages)
    BY Parts DEF TypeOK
  <2> QED  BY <2>1, NamesDiffer, SCClientAssumption DEF Evs
<1> DEFINE p == Message("publish", c, 0, TRUE)
<1>4. p \in Messages /\ p.ev = "publish"
  BY <1>3, MessageIs
<1>5. Elems(down') = Elems(down) \cup {p}
  BY <1>2, <1>3, <1>4, ElemsOfAppend
<1> HIDE DEF p
<1>6. \A m \in Elems(up') : m.ev # "handshake"
  <2>1. peer.subs # {}
    BY <1>2
  <2>2. \A j \in DOMAIN up : up[j].ev # "handshake"
    BY <2>1 DEF AInv, Introduced
  <2> QED  BY <1>1, <2>2 DEF Elems
<1>7. \A m \in Elems(down') : m.ev = "answer" /\ m.ok => peer'.authed
  BY <1>1, <1>4, <1>5 DEF WInv, Authed
<1> QED  BY <1>1, <1>4, <1>5, <1>6, <1>7, WireWidget

\* The server as a whole.
LEMMA PeerWidget ==
    ASSUME IInv, AInv, WInv, Peer, UNCHANGED <<loginVars, widgetVars>> PROVE WInv'
<1>1. CASE PeerHandshake \/ PeerLogin \/ PeerSubscribe \/ PeerPublish
  BY <1>1, PeerHandshakeWidget, PeerLoginWidget, PeerSubscribeWidget, PeerPublishWidget
<1>2. CASE PeerUnsubscribe \/ PeerIgnores \/ PeerDisconnect
  BY <1>2, PeerQuietWidget
<1> QED  BY <1>1, <1>2 DEF Peer

-----------------------------------------------------------------------------
(***************************************************************************)
(* What the page does.                                                     *)
(***************************************************************************)

\* destroy(), from a task of its own or as the last thing the error of a login does.
LEMMA DestroyWidget ==
    ASSUME IInv, IInv', WInv, NEW rest, Destroy(rest), UNCHANGED <<loginVars, widgetVars>>,
           (Idle /\ rest = <<>>) \/ (Step("refused") /\ rest = Tail(stack))
    PROVE  WInv'
<1>1. /\ active' = FALSE /\ Disconnect(rest)
      /\ UNCHANGED <<asked, posts, overlap, sample, watchers, listening>>
  BY DEF Destroy, loginVars, widgetVars
<1>2. /\ rest \in Seq(Frames) /\ Pairwise(rest, Nesting) /\ Elems(rest) \subseteq Elems(stack)
      /\ \A f \in Elems(rest) : f.do \in Enders
      /\ \A f \in Elems(stack) : f \in Elems(rest) \/ f.do = "refused"
      /\ ~ Opening
  <2>1. CASE Idle /\ rest = <<>>
    BY <2>1, Resting, ElemsOfFew, PairwiseFew DEF Opening, Doing
  <2>2. CASE Step("refused") /\ rest = Tail(stack)
    <3>1. stack # <<>> /\ Top.do = "refused" /\ Top.do \in Enders
      BY <2>2 DEF Step, Top, Enders
    <3>2. /\ rest \in Seq(Frames) /\ Elems(stack) = {Top} \cup Elems(rest) /\ ~ Opening
          /\ \A f \in Elems(rest) : f.do \in Enders
      BY <2>2, <3>1, Beneath DEF Starts
    <3>3. Pairwise(rest, Nesting)
      BY <2>2, <3>1, Popped, Parts
    <3> QED  BY <3>1, <3>2, <3>3
  <2> QED  BY <2>1, <2>2
<1>3. CASE state = "closed"
  <2>1. /\ stack' = rest /\ UNCHANGED <<state, chan, map, buffer, ws, up, down, peer>>
    BY <1>1, <1>3 DEF Disconnect, wireVars
  <2>2. Fewer
    BY <1>1, <1>2, <2>1 DEF Fewer, Unused
  <2>3. /\ watchers > 0 => Doing("close")' \/ (~ active' /\ overlap # "none")
        /\ \A c \in Channels : ~ chan[c].torn
        /\ overlap = "none" => \A x \in Elems(map) : x.at \notin asked
    <3>1. Doing("close") => Doing("close")'
      BY <1>2, <2>1 DEF Doing
    <3> QED  BY <1>1, <1>3, <3>1 DEF WInv, Where, Whole, Single
  <2> QED  BY <1>1, <1>2, <1>3, <2>1, <2>2, <2>3, ShutWidget
<1>4. CASE state # "closed"
  <2> DEFINE bye == Frame("wsclose", None)
             how == IF state = "open" /\ ws # "open" THEN 1005 ELSE 1000
             m == Message("disconnect", None, 0, TRUE)
             left == <<bye>> \o rest
  <2>1. /\ ShutDown(how, buffer, map, chan, left)
        /\ up' = (IF state = "open" /\ ws = "open" THEN Append(up, m) ELSE up)
        /\ UNCHANGED <<ws, down, peer>> /\ how \in Nat
    <3>1. ShutDown(how, buffer, map, chan, left) /\ UNCHANGED <<ws, down, peer>>
      BY <1>1, <1>4 DEF Disconnect, Closing
    <3>2. up' = (IF state = "open" /\ ws = "open" THEN Append(up, m) ELSE up)
      BY <1>1, <1>4 DEF Disconnect
    <3>3. how \in Nat
      OBVIOUS
    <3> HIDE DEF how, left, m
    <3> QED  BY <3>1, <3>2, <3>3
  <2>2. bye \in Frames /\ bye.do = "wsclose" /\ FrameOK(bye) /\ bye.at \notin Calls
    BY CloseCall, NamesDiffer DEF Frame
  <2>3. \A m0 \in Elems(up') : m0 \in Elems(up) \/ m0.ev # "handshake"
    <3>1. m \in Messages /\ m.ev = "disconnect"
      <4>1. None \in Names /\ "disconnect" \in Evs /\ 0 \in 0 .. MaxCid
        BY NamesDiffer, SCClientAssumption DEF Evs
      <4> QED  BY <4>1, MessageIs
    <3>2. up \in Seq(Messages)
      BY Parts DEF TypeOK
    <3> HIDE DEF m
    <3>3. Elems(Append(up, m)) = Elems(up) \cup {m}
      BY <3>1, <3>2, ElemsOfAppend
    <3> QED  BY <2>1, <3>1, <3>3
  <2> HIDE DEF bye, how, m
  <2>4. /\ MayClose(buffer, map, left)
        /\ Elems(left) = {bye} \cup Elems(rest)
    <3>1. \A f \in Elems(rest) : f.do \notin Closers /\ f.do # "open"
      <4>1. \A f \in Elems(rest) : f.do \notin Closers
        BY <1>2, <1>4, Parts DEF Disciplined
      <4> QED  BY <1>2, <4>1 DEF Enders
    <3>2. MayClose(buffer, map, rest)
      BY <1>2, <1>4, <3>1, MayCloseAsIs
    <3>3. \A g \in Elems(rest) : Fits(bye, g)
      BY <2>2, <3>1 DEF Fits, MayNest, CallsDiffer, FailsDiffer, Callbacks, Closers
    <3> QED  BY <2>2, <3>2, <3>3, MayClosePush
  <2> HIDE DEF left
  <2>5. \A f \in Elems(left) : f.do \in Enders /\ (f \in Elems(stack) \/ f.at \notin Calls)
    BY <1>2, <2>2, <2>4 DEF Enders, Closers
  <2> QED  BY <1>1, <1>2, <1>4, <2>1, <2>3, <2>4, <2>5, ShutDownWidget
<1> QED  BY <1>3, <1>4

\* 'close': what the page has put on the channel goes with it.
LEMMA OnCloseWidget ==
    ASSUME IInv, IInv', WInv, OnClose PROVE WInv'
<1> DEFINE t == Tail(stack)
           dropped == MinusChannel(t, Chat)
<1>1. /\ stack # <<>> /\ Top.do = "close" /\ Top.do \in Closers /\ Top.do \in Enders
      /\ listening' = FALSE /\ UNCHANGED <<posts, overlap, sample>>
  BY DEF OnClose, Step, Top, Closers, Enders, loginVars
<1>2. /\ Top \in Frames /\ t \in Seq(Frames) /\ Elems(stack) = {Top} \cup Elems(t) /\ ~ Opening /\ state = "closed"
      /\ \A f \in Elems(t) : f.do \in Enders
  BY <1>1, Beneath DEF Starts
<1>3. dropped \in Seq(Frames) /\ Elems(dropped) \subseteq Elems(t)
  <2>1. Pairwise(t, Nesting)
    BY <1>1, Popped, Parts
  <2> QED  BY <1>2, <2>1, WithoutChannel
<1>4. /\ UNCHANGED <<active, asked, state, buffer, ws, up, down, peer>>
      /\ watchers' = 0
      /\ (chan' = chan /\ chan[Chat].st = "none") \/ chan' = [chan EXCEPT ![Chat] = NoChannel]
      /\ stack' = t \/ stack' = dropped
      /\ map' = map \/ map' = MinusCid(map, chan[Chat].cid)
  <2>1. CASE sample
    BY <1>2, <2>1 DEF OnClose, DestroyChannel, MinusChannel, MinusCid, selfVars, wireVars
  <2>2. CASE ~ sample
    <3>1. watchers = 0 /\ chan[Chat].st = "none"
      BY <2>2 DEF WInv, Kept
    <3> QED  BY <2>2, <3>1 DEF OnClose, selfVars, linkVars, wireVars
  <2> QED  BY <2>1, <2>2
<1> HIDE DEF t, dropped
<1>5. Elems(map') \subseteq Elems(map)
  <2>1. map \in Seq(Entries)
    BY Parts DEF TypeOK
  <2> QED  BY <1>4, <2>1, WithoutCid
<1>6. \A f \in Elems(stack') : f \in Elems(stack) /\ f.do \in Enders
  BY <1>2, <1>3, <1>4
<1>7. /\ chan'[Chat].st = "none"
      /\ \A c \in Channels : ~ chan'[c].torn /\ (chan[c].st = "none" => chan'[c].st = "none")
  <2>1. \A c \in Channels : ~ chan[c].torn
    BY DEF WInv, Whole
  <2>2. CASE chan' = chan /\ chan[Chat].st = "none"
    BY <2>1, <2>2
  <2>3. CASE chan' = [chan EXCEPT ![Chat] = NoChannel]
    <3>1. \A c \in Channels : chan'[c] = IF c = Chat THEN NoChannel ELSE chan[c]
      BY <2>3, Parts DEF TypeOK
    <3>2. NoChannel.st = "none" /\ ~ NoChannel.torn /\ Chat \in Channels
      BY DEF NoChannel, WInv, Hosting
    <3> QED  BY <2>1, <3>1, <3>2
  <2> QED  BY <1>4, <2>2, <2>3
<1>8. Fewer
  BY <1>1, <1>4, <1>5, <1>6 DEF Fewer, Unused
<1>9. /\ SaidGoodbye' => ~ active'
      /\ overlap = "none" => \A x \in Elems(map') : x.at \notin asked'
  BY <1>2, <1>4, <1>5 DEF WInv, Whole, SaidGoodbye, Single
<1> QED  BY <1>1, <1>2, <1>4, <1>6, <1>7, <1>8, <1>9, ShutWidget

\* emit and publish, of a page that has joined or of one whose login PHP has answered.
LEMMA EmitWidget ==
    ASSUME IInv, IInv', WInv, NEW rest, NEW e \in Calls \cup Casts, Unused(e), Emit(e, rest),
           UNCHANGED <<overlap, widgetVars>>,
           \/ Idle /\ rest = <<>> /\ (watchers > 0 \/ e \in posts)
           \/ (Step("subscribe") \/ Step("message")) /\ rest = Tail(stack) /\ watchers > 0,
           \/ e \in Casts /\ posts' = posts
           \/ e \in posts /\ posts' = posts \ {e} /\ Idle
    PROVE  WInv'
<1>1. /\ buffer' = Append(buffer, e) /\ asked' = (IF e \in Calls THEN asked \cup {e} ELSE asked)
      /\ UNCHANGED <<active, chan, sample, watchers, listening, overlap>>
      /\ (state = "closed" /\ active) => NewTransport
      /\ ~ (state = "closed" /\ active) => UNCHANGED <<state, map, ws, up, down, peer>>
  BY DEF Emit, wireVars, widgetVars
<1>2. /\ rest \in Seq(Frames) /\ Elems(rest) \subseteq Elems(stack) /\ ~ Opening
      /\ \A f \in Elems(rest) : f.do \notin Enders \cup Starts \cup {"cid", "answered", "deauthenticate"}
      /\ \A f \in Elems(stack) : f.do \notin Enders
      /\ Idle => rest = <<>> /\ Elems(stack) = {}
  <2>1. CASE Idle /\ rest = <<>>
    <3>1. Elems(stack) = {} /\ Elems(<<>>) = {} /\ <<>> \in Seq(Frames)
      BY <2>1, Resting, ElemsOfFew
    <3> QED  BY <2>1, <3>1 DEF Opening, Doing
  <2>2. CASE (Step("subscribe") \/ Step("message")) /\ rest = Tail(stack)
    <3>1. stack # <<>> /\ Top.do \in {"subscribe", "message"} /\ Top.do \notin Enders
      BY <2>2 DEF Step, Top, Enders, Closers
    <3>2. /\ rest \in Seq(Frames) /\ Elems(stack) = {Top} \cup Elems(rest) /\ ~ Opening
          /\ \A f \in Elems(rest) : /\ f.do \notin Starts \cup {"cid", "answered", "deauthenticate"}
                                    /\ f.do \notin Enders
      BY <2>2, <3>1, Beneath DEF Starts
    <3> QED  BY <3>1, <3>2 DEF Idle
  <2> QED  BY <2>1, <2>2
<1>3. e \in posts => e \in Calls
  BY LoginsAre DEF WInv, Waits
<1>4. Elems(buffer') = Elems(buffer) \cup {e} /\ buffer' \in Seq(Calls \cup Casts) /\ buffer \in Seq(Calls \cup Casts)
  <2>1. buffer \in Seq(Calls \cup Casts)
    BY Parts DEF TypeOK
  <2> QED  BY <1>1, <2>1, ElemsOfAppend
<1> DEFINE f == Frame("flush", First(buffer'))
<1>5. f \in Frames /\ f.do = "flush" /\ (f.at \in Calls => f.at \in Elems(buffer'))
  <2>1. First(buffer') \in Names /\ (First(buffer') \in Calls => First(buffer') \in Elems(buffer'))
    BY <1>4, FirstTyped, NamesDiffer
  <2> QED  BY <2>1, FrameIs, DosAre
<1>6. stack' = (IF state = "open" THEN <<f>> ELSE <<>>) \o rest
  BY DEF Emit
<1> HIDE DEF f
<1>7. Elems(stack') = Elems(rest) \/ (state = "open" /\ Elems(stack') = {f} \cup Elems(rest))
  <2>1. <<>> \o rest = rest /\ Elems(<<f>> \o rest) = {f} \cup Elems(rest)
    BY <1>2, <1>5, Beside, Under
  <2> QED  BY <1>6, <2>1
<1>8. posts' \subseteq posts /\ (e \in Calls => e \in posts \ posts')
  BY NamesDiffer
<1>9. CASE ~ (state = "closed" /\ active)
  <2>1. UNCHANGED <<state, map, ws, up, down, peer>>
    BY <1>1, <1>9
  <2>2. Fewer
    BY <1>1, <1>2, <1>4, <1>5, <1>7, <1>8, <2>1 DEF Fewer, Unused
  <2>3. /\ \A g \in Elems(stack') : g.do \notin Enders \cup Starts \cup {"cid", "answered", "deauthenticate"}
        /\ (Doing("respond")' => Doing("respond")) /\ ~ Doing("close")
    BY <1>2, <1>5, <1>7 DEF Doing, Enders, Closers, Starts
  <2>4. /\ \A c \in Channels : ~ chan'[c].torn /\ (chan'[c].st = "none" <=> chan[c].st = "none")
        /\ state = "open" /\ watchers > 0 => chan'[Chat].st \in {"pending", "subscribed"}
    BY <1>1 DEF WInv, Whole, Wanted
  <2>5. state = "closed" /\ overlap = "none" => \A x \in Elems(map') : x.at \notin asked'
    BY <1>1, <2>1 DEF WInv, Single, Unused
  <2> QED  BY <1>1, <1>2, <2>1, <2>2, <2>3, <2>4, <2>5, CalmWidget
<1>10. CASE state = "closed" /\ active
  <2>1. watchers = 0 /\ Idle /\ e \in posts
    <3>1. ~ Doing("close")
      BY <1>2 DEF Doing, Enders, Closers
    <3>2. ~ (watchers > 0) /\ watchers = 0
      BY <1>10, <3>1 DEF WInv, Where, Kept
    <3> QED  BY <3>2
  <2>2. NewTransport /\ map' = <<>> /\ Elems(map') = {}
    BY <1>1, <1>10, ElemsOfFew DEF NewTransport
  <2>3. Elems(stack') = {} /\ stack' = <<>>
    <3>1. <<>> \o rest = rest
      BY <1>2, Beside
    <3> QED  BY <1>2, <1>6, <1>10, <2>1, <3>1, ElemsOfFew
  <2>4. OpeningTask'
    BY <2>3, PairwiseFew DEF OpeningTask, Opening, Doing
  <2>5. Fewer
    BY <1>1, <1>4, <1>8, <2>2, <2>3 DEF Fewer, Unused
  <2> QED  BY <1>1, <1>2, <2>1, <2>2, <2>3, <2>4, <2>5, AnewWidget
<1> QED  BY <1>9, <1>10

\* A callback that returns, whatever it has asked PHP for: what it leaves of the invariant.
LEMMA ReturnsWidget ==
    ASSUME IInv, WInv, stack # <<>>, stack' = Tail(stack),
           Top.do \in {"connect", "deauthenticate", "answered", "subscribe", "message"},
           UNCHANGED <<selfVars, linkVars, wireVars, widgetVars>>,
           posts \subseteq posts', posts' \subseteq Logins, \A e \in posts' \ posts : Unused(e),
           overlap # "none" => overlap' # "none"
    PROVE  /\ Hosting' /\ Waits' /\ Whole' /\ Tasked' /\ Alright' /\ Kept' /\ Authed' /\ Wanted'
           /\ \A e \in Calls : Unused(e) => Unused(e)'
           /\ Opening' <=> Opening /\ Top.do # "connect"
           /\ Top.do \in {"connect", "deauthenticate"} => Opening /\ state = "open"
           /\ Top.do \notin {"connect", "deauthenticate"} => ~ Opening
<1>1. UNCHANGED <<active, state, ws, up, down, peer, buffer, map, asked, chan, sample, watchers, listening>>
  BY DEF selfVars, linkVars, wireVars, widgetVars
<1>2. /\ Elems(stack) = {Top} \cup Elems(stack') /\ Pairwise(stack', Opens)
      /\ Top.do = "connect" => \A g \in Elems(stack') : g.do = "flushall"
      /\ Top.do \notin {"connect", "deauthenticate"} => ~ Opening
  BY Popped, Parts, Opened1 DEF WInv, Tasked, Starts
<1>3. /\ Top.do \in {"connect", "deauthenticate"} => Opening /\ state = "open"
      /\ Top.do = "deauthenticate" => Opening'
  <2>1. Top.do = "connect" => Opening
    BY <1>2 DEF Opening, Doing
  <2>2. Top.do = "deauthenticate" => Doing("open")
    BY <1>2 DEF WInv, Tasked, Doing
  <2>3. Doing("open") /\ Top.do = "deauthenticate" => Opening /\ Opening'
    BY <1>2 DEF Opening, Doing
  <2> QED  BY <2>1, <2>2, <2>3 DEF WInv, Tasked, OpeningTask
<1>4. Opening' <=> Opening /\ Top.do # "connect"
  <2>1. Top.do = "connect" => ~ Opening'
    BY <1>2 DEF Opening, Doing
  <2>2. Opening' => Opening
    BY <1>2 DEF Opening, Doing
  <2> QED  BY <1>2, <1>3, <2>1, <2>2
<1>5. \A e \in Calls : Unused(e) => Unused(e)'
  BY <1>1, <1>2 DEF Unused
<1>6. Hosting' /\ Waits' /\ Kept'
  BY <1>1, <1>5 DEF WInv, Hosting, Waits, Kept
<1>7. Whole'
  <2>1. SaidGoodbye' => SaidGoodbye
    BY <1>1 DEF SaidGoodbye
  <2>2. ~ Doing("cid")' /\ (Doing("respond")' => Doing("respond"))
    BY <1>2 DEF WInv, Whole, Doing
  <2> QED  BY <1>1, <2>1, <2>2 DEF WInv, Whole
<1>8. Tasked'
  <2>1. (Doing("deauthenticate") => Doing("open"))'
    BY <1>2 DEF WInv, Tasked, Doing
  <2>2. OpeningTask'
    BY <1>1, <1>2, <1>4 DEF WInv, Tasked, OpeningTask
  <2> QED  BY <1>2, <2>1, <2>2 DEF WInv, Tasked
<1>9. Alright'
  <2>1. \A f \in Elems(stack') : f.do # "answered"
    <3> SUFFICES ASSUME NEW f \in Elems(stack'), f.do = "answered" PROVE FALSE
      OBVIOUS
    <3>1. stack = <<f>>
      BY <1>2 DEF WInv, Alright
    <3>2. stack' = <<>>
      BY <3>1
    <3> QED  BY <3>2, ElemsOfFew
  <2> QED  BY <2>1 DEF Alright
<1>10. Authed' /\ Wanted'
  BY <1>1, <1>2 DEF WInv, Authed, Wanted
<1> QED  BY <1>2, <1>3, <1>4, <1>5, <1>6, <1>7, <1>8, <1>9, <1>10

\* 'connect' of a connection that the server did not authenticate.
LEMMA OnConnectAnonymousWidget ==
    ASSUME IInv, WInv, OnConnectAnonymous, UNCHANGED widgetVars PROVE WInv'
<1>1. /\ stack # <<>> /\ Top.do = "connect" /\ stack' = Tail(stack) /\ Post(Joins) /\ overlap' = Overlap
      /\ UNCHANGED <<selfVars, linkVars, wireVars, widgetVars>>
  BY DEF OnConnectAnonymous, Step, Top
<1>2. PICK new \in SUBSET (Joins \ Underway(Joins)) : posts' = posts \cup new /\ \A d, e \in new : d = e
  <2>1. CASE posts' = posts
    <3>1. {} \in SUBSET (Joins \ Underway(Joins)) /\ posts' = posts \cup {}
      BY <2>1
    <3> QED  BY <3>1
  <2>2. ASSUME NEW e \in Joins \ Underway(Joins), posts' = posts \cup {e}
        PROVE  \E new \in SUBSET (Joins \ Underway(Joins)) : posts' = posts \cup new /\ \A c, d \in new : c = d
    <3>1. {e} \in SUBSET (Joins \ Underway(Joins))
      BY <2>2
    <3> QED  BY <2>2, <3>1
  <2> QED  BY <1>1, <2>1, <2>2 DEF Post
<1>3. /\ Opening /\ ~ Opening' /\ state = "open" /\ \A e \in Calls : Unused(e) => Unused(e)'
      /\ Hosting' /\ Waits' /\ Whole' /\ Tasked' /\ Alright' /\ Kept' /\ Authed' /\ Wanted'
  <2>1. posts' \subseteq Logins /\ posts \subseteq posts' /\ \A e \in posts' \ posts : Unused(e)
    BY <1>2 DEF WInv, Waits, Logins, Underway
  <2>2. overlap # "none" => overlap' # "none"
    BY <1>1 DEF Overlap
  <2> QED  BY <1>1, <2>1, <2>2, ReturnsWidget
<1>4. \A e \in Calls : e \in posts' \/ ~ Unused(e)' => e \in new \/ e \in posts \/ ~ Unused(e)
  BY <1>2, <1>3
<1>5. Underway(Joins)' \subseteq Underway(Joins) \cup new /\ Underway(Logins)' \subseteq Underway(Logins) \cup new
  BY <1>4, LoginsAre DEF Underway
<1>6. overlap' # "join" => Underway(Joins) = {} /\ overlap # "join"
  BY <1>1 DEF Overlap
<1>7. overlap' = "none" => Underway(Joins) = {} /\ Underway(Reauths) = {}
  BY <1>1 DEF Overlap
<1>8. UNCHANGED <<state, watchers>>
  BY <1>1 DEF linkVars, widgetVars
<1>9. Where'
  <2>1. overlap' # "join" => watchers = 0
    BY <1>3, <1>6 DEF WInv, Where, Kept
  <2> QED  BY <1>3, <1>8, <2>1 DEF Where
<1>10. Single'
  <2>1. Underway(Logins) = Underway(Joins) \cup Underway(Reauths)
    BY DEF Underway, Logins
  <2> QED  BY <1>2, <1>3, <1>5, <1>6, <1>7, <1>8, <2>1 DEF Single
<1> QED  BY <1>3, <1>9, <1>10 DEF WInv

\* 'deauthenticate': _onSCOpen goes on to 'connect'.
LEMMA OnDeauthenticateWidget ==
    ASSUME IInv, WInv, OnDeauthenticate, UNCHANGED widgetVars PROVE WInv'
<1>1. /\ stack # <<>> /\ Top.do = "deauthenticate" /\ stack' = Tail(stack) /\ Post(Reauths)
      /\ UNCHANGED <<selfVars, linkVars, wireVars, widgetVars, overlap>>
  BY DEF OnDeauthenticate, Step, Top
<1>2. posts \subseteq posts' /\ \A e \in posts' \ posts : e \in Reauths /\ Unused(e)
  BY <1>1 DEF Post, Underway
<1>3. /\ Opening /\ Opening' /\ state = "open" /\ \A e \in Calls : Unused(e) => Unused(e)'
      /\ Hosting' /\ Waits' /\ Whole' /\ Tasked' /\ Alright' /\ Kept' /\ Authed' /\ Wanted'
  <2>1. posts' \subseteq Logins
    BY <1>2 DEF WInv, Waits, Logins
  <2> QED  BY <1>1, <1>2, <2>1, ReturnsWidget
<1>4. Underway(Joins)' \subseteq Underway(Joins)
  BY <1>2, <1>3, LoginsAre DEF Underway
<1>5. UNCHANGED <<state, watchers>>
  BY <1>1 DEF linkVars, widgetVars
<1>6. Where' /\ Single'
  BY <1>1, <1>3, <1>4, <1>5 DEF WInv, Where, Single
<1> QED  BY <1>3, <1>6 DEF WInv

\* A callback that does nothing.
LEMMA NothingWidget ==
    ASSUME IInv, WInv, Step("answered") \/ Step("subscribe") \/ Step("message"), stack' = Tail(stack),
           UNCHANGED <<selfVars, linkVars, wireVars, loginVars, widgetVars>>
    PROVE  WInv'
<1>1. /\ stack # <<>> /\ Top.do \in {"answered", "subscribe", "message"}
      /\ UNCHANGED <<posts, overlap>>
  BY DEF Step, Top, loginVars
<1>2. /\ ~ Opening /\ ~ Opening' /\ \A e \in Calls : Unused(e) => Unused(e)'
      /\ Hosting' /\ Waits' /\ Whole' /\ Tasked' /\ Alright' /\ Kept' /\ Authed' /\ Wanted'
  <2>1. posts \subseteq Logins
    BY DEF WInv, Waits
  <2> QED  BY <1>1, <2>1, ReturnsWidget
<1>3. Underway(Joins)' \subseteq Underway(Joins) /\ Underway(Logins)' \subseteq Underway(Logins)
  <2>1. Fewer
    BY <1>1, <1>2 DEF Fewer
  <2> QED  BY <2>1, FewerLogins, LoginsAre
<1>4. UNCHANGED <<active, state, map, asked, watchers>>
  BY DEF selfVars, linkVars, widgetVars
<1>5. Doing("close") => Doing("close")'
  <2>1. Elems(stack) = {Top} \cup Elems(stack')
    BY <1>1, Popped, Parts
  <2> QED  BY <1>1, <2>1 DEF Doing
<1>6. Where' /\ Single'
  BY <1>1, <1>2, <1>3, <1>4, <1>5 DEF WInv, Where, Single
<1> QED  BY <1>2, <1>6 DEF WInv

\* connectVisitor.
LEMMA JoinedWidget ==
    ASSUME IInv, IInv', WInv, ConnectVisitor PROVE WInv'
<1> DEFINE t == Tail(stack)
           fresh == {d \in {Chat} : chan[d].st \in {"none", "unsubscribed"}}
           f == [Frame("tries", None) EXCEPT !.of = fresh]
<1>1. /\ stack # <<>> /\ sample' = TRUE /\ listening' = TRUE /\ watchers' = watchers + 1
      /\ UNCHANGED posts /\ Subscribe({Chat}, t)
      /\ \/ Top.do = "connect" /\ Top.n = 1 /\ overlap' = Overlap
         \/ Top.do = "answered" /\ Top.at \in Joins /\ overlap' = overlap
  BY DEF ConnectVisitor, Joining, Step, Top
<1>2. /\ Top \in Frames /\ t \in Seq(Frames) /\ Elems(stack) = {Top} \cup Elems(t)
      /\ \A g \in Elems(t) : g.do = "flushall"
      /\ Top.do = "connect" => Opening /\ state = "open"
      /\ Top.do = "answered" => /\ t = <<>> /\ ~ Opening
                                /\ Top.at \notin Elems(buffer) /\ \A x \in Elems(map) : x.at # Top.at
                                /\ Top.at \notin asked
                                /\ state = "open" \/ (~ active /\ overlap # "none")
  <2>1. /\ Top \in Frames /\ t \in Seq(Frames) /\ Elems(stack) = {Top} \cup Elems(t) /\ Top \in Elems(stack)
    BY <1>1, Popped, Parts
  <2>2. CASE Top.do = "connect"
    <3>1. \A g \in Elems(t) : g.do = "flushall"
      BY <1>1, <2>2, Opened1 DEF WInv, Tasked, Starts
    <3>2. Opening
      BY <2>1, <2>2 DEF Opening, Doing
    <3> QED  BY <2>1, <2>2, <3>1, <3>2 DEF WInv, Tasked, OpeningTask
  <2>3. CASE Top.do = "answered"
    <3>1. /\ stack = <<Top>> /\ Top.at \notin Elems(buffer) /\ \A x \in Elems(map) : x.at # Top.at
          /\ state = "open" \/ (~ active /\ overlap # "none")
      BY <2>1, <2>3 DEF WInv, Alright
    <3>2. t = <<>> /\ Elems(t) = {}
      BY <3>1, ElemsOfFew
    <3>3. Top.at \notin asked
      BY <2>1, <2>3, Parts DEF Calling, Callbacks
    <3>4. ~ Opening
      BY <2>1, <2>3, <3>2 DEF Opening, Doing
    <3> QED  BY <2>1, <2>3, <3>1, <3>2, <3>3, <3>4
  <2> QED  BY <1>1, <2>2, <2>3
<1> HIDE DEF t
<1>3. /\ chan' = [d \in Channels |-> IF d \in fresh THEN [chan[d] EXCEPT !.st = "pending"] ELSE chan[d]]
      /\ UNCHANGED <<active, asked, state, map, buffer, ws, up, down, peer>>
      /\ fresh = {} => stack' = t
      /\ fresh # {} => stack' = <<f>> \o t
  BY <1>1, <1>2, Beside DEF Subscribe, selfVars, wireVars
<1>4. Chat \in Channels /\ fresh \in SUBSET Channels /\ fresh \subseteq {Chat}
  BY DEF WInv, Hosting
<1>5. /\ chan \in [Channels -> [st : {"none", "unsubscribed", "pending", "subscribed"}, cid : 0 .. MaxCid, torn : BOOLEAN]]
      /\ chan[Chat].st \in {"pending", "subscribed"} <=> Chat \notin fresh
  BY <1>4, Parts DEF TypeOK
<1> HIDE DEF fresh
<1>6. f \in Frames /\ f.do = "tries" /\ f.at = None
  <2>1. Frame("tries", None) \in Frames /\ Frame("tries", None).do = "tries" /\ Frame("tries", None).at = None
    BY NamesDiffer, FrameIs, DosAre
  <2> QED  BY <1>4, <2>1, FrameWithOf
<1> HIDE DEF f
<1>7. /\ chan'[Chat].st \in {"pending", "subscribed"}
      /\ \A d \in Channels : chan'[d].torn = chan[d].torn /\ (d # Chat => chan'[d] = chan[d])
  BY <1>3, <1>4, <1>5
<1>8. /\ \A g \in Elems(stack') : g \in Elems(t) \/ (g.do = "tries" /\ g.at = None)
      /\ stack' \in Seq(Frames)
  <2>1. <<f>> \o t \in Seq(Frames) /\ Elems(<<f>> \o t) = {f} \cup Elems(t)
    BY <1>2, <1>6, Under
  <2> QED  BY <1>2, <1>3, <1>6, <2>1
<1>9. \A g \in Elems(stack') : g.do \in {"flushall", "tries"}
  BY <1>2, <1>8
<1>10. /\ \A e \in Calls : Unused(e) => Unused(e)'
       /\ Top.do = "answered" => \A e \in Calls : e = Top.at => Unused(e)' /\ e \notin posts
  <2>1. None \notin Calls
    BY NamesDiffer
  <2>2. \A e \in Calls : Unused(e) => Unused(e)'
    BY <1>2, <1>3, <1>8, <2>1 DEF Unused
  <2>3. ASSUME Top.do = "answered", NEW e \in Calls, e = Top.at
        PROVE  Unused(e)' /\ e \notin posts
    <3>1. Elems(t) = {}
      BY <1>2, <2>3, ElemsOfFew
    <3>2. Unused(e)'
      BY <1>2, <1>3, <1>8, <2>1, <2>3, <3>1 DEF Unused
    <3>3. ~ Unused(e)
      BY <1>2, <2>3 DEF Unused
    <3> QED  BY <3>2, <3>3 DEF WInv, Waits
  <2> QED  BY <2>2, <2>3
<1>11. Underway(Joins)' \subseteq Underway(Joins) /\ Underway(Logins)' \subseteq Underway(Logins)
  <2>1. Fewer
    BY <1>1, <1>10 DEF Fewer
  <2> QED  BY <2>1, FewerLogins, LoginsAre
<1>12. ~ Opening' /\ OpeningTask'
  <2>1. \A g \in Elems(stack') : g.do \notin Starts
    BY <1>9 DEF Starts
  <2>2. ~ Opening'
    BY <2>1 DEF Opening, Doing, Starts
  <2> QED  BY <1>8, <2>1, <2>2, NoneOpens DEF OpeningTask
<1>13. Hosting' /\ Waits'
  BY <1>1, <1>10 DEF WInv, Hosting, Waits
<1>14. Whole' /\ Tasked' /\ Alright'
  <2>1. ~ Doing("cid")' /\ ~ Doing("respond")' /\ ~ Doing("deauthenticate")'
    BY <1>9 DEF Doing
  <2>2. SaidGoodbye' <=> SaidGoodbye
    BY <1>3 DEF SaidGoodbye
  <2>3. Tasked'
    BY <1>9, <1>12, <2>1 DEF Tasked, Enders, Closers
  <2>4. Whole'
    BY <1>3, <1>7, <2>1, <2>2 DEF WInv, Whole
  <2> QED  BY <1>9, <2>3, <2>4 DEF Alright
<1>15. Kept' /\ watchers' > 0
  BY <1>1 DEF WInv, Kept
<1>16. state = "open" => peer.authed
  <2>1. Top \in Elems(stack) /\ (Top.do = "answered" \/ (Top.do \in Starts /\ Top.n = 1))
    BY <1>1, <1>2 DEF Starts
  <2> QED  BY <2>1 DEF WInv, Authed
<1>17. Authed' /\ Wanted'
  <2>1. Authed'
    BY <1>3, <1>9, <1>16 DEF WInv, Authed, Starts
  <2> QED  BY <1>3, <1>7, <2>1 DEF WInv, Wanted
<1>18. CASE Top.do = "connect"
  <2>1. overlap' = Overlap
    BY <1>1, <1>18
  <2>2. overlap' # "join" => Underway(Joins) = {} /\ overlap # "join"
    BY <2>1 DEF Overlap
  <2>3. overlap' = "none" => Underway(Joins) = {} /\ Underway(Reauths) = {}
    BY <2>1 DEF Overlap
  <2>4. Where'
    <3>1. overlap' # "join" => watchers = 0
      BY <1>2, <1>18, <2>2 DEF WInv, Where, Kept
    <3> QED  BY <1>1, <1>2, <1>3, <1>11, <1>12, <1>18, <2>2, <3>1 DEF Where
  <2>5. Single'
    <3>1. Underway(Logins) = Underway(Joins) \cup Underway(Reauths)
      BY DEF Underway, Logins
    <3> QED  BY <1>2, <1>3, <1>11, <1>18, <2>2, <2>3, <3>1 DEF Single
  <2> QED  BY <1>13, <1>14, <1>15, <1>17, <2>4, <2>5 DEF WInv
<1>19. CASE Top.do = "answered"
  <2>1. overlap' = overlap /\ Top.at \in Joins
    BY <1>1, <1>19
  <2>2. Top.at \in Underway(Joins)
    BY <1>2, <2>1 DEF Underway, Unused
  <2>3. \A e \in Underway(Joins)' : e # Top.at
    BY <1>1, <1>10, <1>19, LoginsAre DEF Underway
  <2>4. overlap # "join" => watchers = 0 /\ Underway(Joins)' = {}
    <3>1. overlap # "join" => ~ (watchers > 0) /\ \A d \in Underway(Joins) : d = Top.at
      BY <2>2 DEF WInv, Where, Single
    <3> QED  BY <1>11, <2>3, <3>1 DEF WInv, Kept
  <2>5. Where'
    BY <1>1, <1>2, <1>3, <1>12, <1>19, <2>1, <2>4 DEF Where
  <2>6. Single'
    BY <1>2, <1>3, <1>11, <1>19, <2>1 DEF WInv, Single
  <2> QED  BY <1>13, <1>14, <1>15, <1>17, <2>5, <2>6 DEF WInv
<1> QED  BY <1>1, <1>18, <1>19

-----------------------------------------------------------------------------
(***************************************************************************)
(* The page's steps, and all of the invariant.                             *)
(***************************************************************************)

\* All of the invariant.
WidgetInv == IInv /\ AInv /\ WInv

\* The page emits, from a task of its own or from a listener of the channel.
LEMMA EmitsWidget ==
    ASSUME WidgetInv, NEW rest, NEW e \in Calls \cup Casts, Unused(e), Emit(e, rest),
           UNCHANGED <<overlap, widgetVars>>,
           \/ Idle /\ rest = <<>> /\ (watchers > 0 \/ e \in posts)
           \/ (Step("subscribe") \/ Step("message")) /\ rest = Tail(stack) /\ watchers > 0,
           \/ e \in Casts /\ posts' = posts
           \/ e \in posts /\ posts' = posts \ {e} /\ Idle
    PROVE  WidgetInv'
<1> USE DEF WidgetInv
<1>1. Remains(rest)
  <2>1. From({"connect", "answered", "subscribe", "message"})
    BY DEF From, Step, Top, Idle
  <2>2. Idle => stack = <<>>
    BY Resting
  <2> QED  BY <2>1, <2>2, QuietCallbacks DEF Step
<1>2. IInv'
  BY <1>1, EmitKeeps
<1>3. AInv'
  BY <1>1, <1>2, EmitAgrees
<1> QED  BY <1>2, <1>3, EmitWidget

\* The page destroys the client, from a task of its own or from the error of a login.
LEMMA DestroysWidget ==
    ASSUME WidgetInv, NEW rest, Destroy(rest), UNCHANGED <<loginVars, widgetVars>>,
           (Idle /\ rest = <<>>) \/ (Step("refused") /\ rest = Tail(stack))
    PROVE  WidgetInv'
<1> USE DEF WidgetInv
<1>1. From({"refused"}) /\ Remainder(rest)
  <2>1. Idle => stack = <<>>
    BY Resting
  <2> QED  BY <2>1 DEF From, Step, Top, Idle, Remainder, Hooks
<1>2. /\ active' = FALSE /\ Disconnect(rest) /\ UNCHANGED <<auth, token, preparing, tried, asked>>
  BY DEF Destroy
<1>3. IInv' /\ AInv'
  BY <1>1, <1>2, DisconnectKeeps, DisconnectAgrees
<1> QED  BY <1>3, DestroyWidget

\* A callback returns, and the client stays as it is.
LEMMA PageReturnsWidget ==
    ASSUME WidgetInv, PageReturns PROVE IInv' /\ AInv'
  BY PageReturnsKeeps, QuietAgrees DEF WidgetInv

\* The logins of the page, and its end.
LEMMA LoginWidget ==
    ASSUME WidgetInv, LoginStep, UNCHANGED widgetVars PROVE WidgetInv'
<1>1. CASE OnConnectAnonymous \/ OnDeauthenticate \/ OnReauthAnswered
  <2>1. PageReturns
    BY <1>1 DEF OnConnectAnonymous, OnDeauthenticate, OnReauthAnswered, PageReturns, Hooks
  <2>2. WInv'
    BY <1>1, OnConnectAnonymousWidget, OnDeauthenticateWidget, NothingWidget DEF OnReauthAnswered, WidgetInv
  <2> QED  BY <2>1, <2>2, PageReturnsWidget DEF WidgetInv
<1>2. CASE OnLoginRefused
  BY <1>2, DestroysWidget DEF OnLoginRefused
<1>3. CASE PostAnswered
  <2>1. PICK e \in posts : posts' = posts \ {e} /\ Emit(e, <<>>)
    BY <1>3 DEF PostAnswered
  <2>2. Idle /\ overlap' = overlap
    BY <1>3 DEF PostAnswered
  <2>3. e \in Calls /\ Unused(e)
    BY LoginsAre DEF WidgetInv, WInv, Waits
  <2> QED  BY <2>1, <2>2, <2>3, EmitsWidget
<1>4. CASE BeforeUnload
  BY <1>4, DestroysWidget DEF BeforeUnload
<1> QED  BY <1>1, <1>2, <1>3, <1>4 DEF LoginStep, LoginHandlers

\* The handlers of the widget.
LEMMA HandlersWidget ==
    ASSUME WidgetInv, Widget PROVE WidgetInv'
<1>1. Chat \in Channels
  BY DEF WidgetInv, WInv, Hosting
<1>2. CASE ConnectVisitor
  <2>1. /\ From({"connect", "answered", "subscribe", "message"}) /\ stack # <<>>
        /\ Subscribe({Chat}, Tail(stack))
    BY <1>2 DEF ConnectVisitor, Joining, From, Step
  <2>2. Remains(Tail(stack))
    BY <2>1, QuietCallbacks DEF WidgetInv
  <2>3. IInv'
    BY <1>1, <2>1, <2>2, SubscribeKeeps DEF WidgetInv
  <2>4. AInv'
    BY <1>1, <2>1, <2>2, <2>3, SubscribeAgrees DEF WidgetInv
  <2> QED  BY <1>2, <2>3, <2>4, JoinedWidget DEF WidgetInv
<1>3. CASE OnClose
  <2>1. IInv' /\ AInv'
    <3>1. CASE sample
      <4>1. From({"close"}) /\ Remainder(Tail(stack)) /\ DestroyChannel(Chat, Tail(stack))
        BY <1>3, <3>1 DEF OnClose, Step, From, Remainder, Hooks, Top
      <4> QED  BY <1>1, <4>1, UnsubscribeKeeps, UnsubscribeAgrees DEF WidgetInv
    <3>2. CASE ~ sample
      <4>1. PageReturns
        BY <1>3, <3>2 DEF OnClose, PageReturns, Hooks
      <4> QED  BY <4>1, PageReturnsWidget
    <3> QED  BY <3>1, <3>2
  <2> QED  BY <1>3, <2>1, OnCloseWidget DEF WidgetInv
<1>4. CASE OnSubscribe \/ OnMessage
  <2>1. CASE \E e \in Casts : watchers > 0 /\ Room /\ Unused(e) /\ Emit(e, Tail(stack))
    <3>1. PICK e \in Casts : watchers > 0 /\ Unused(e) /\ Emit(e, Tail(stack))
      BY <2>1
    <3>2. (Step("subscribe") \/ Step("message")) /\ posts' = posts /\ UNCHANGED <<overlap, widgetVars>>
      BY <1>4 DEF OnSubscribe, OnMessage, Announce, loginVars
    <3> QED  BY <3>1, <3>2, EmitsWidget
  <2>2. CASE stack' = Tail(stack) /\ UNCHANGED <<selfVars, linkVars, wireVars>>
    <3>1. PageReturns
      BY <1>4, <2>2 DEF OnSubscribe, OnMessage, PageReturns, Hooks
    <3>2. (Step("subscribe") \/ Step("message")) /\ UNCHANGED <<loginVars, widgetVars>>
      BY <1>4 DEF OnSubscribe, OnMessage, Announce
    <3> QED  BY <2>2, <3>1, <3>2, PageReturnsWidget, NothingWidget DEF WidgetInv
  <2> QED  BY <1>4, <2>1, <2>2 DEF OnSubscribe, OnMessage, Announce
<1>5. CASE VisitorTypes
  <2>1. PICK e \in Casts : Unused(e) /\ Emit(e, <<>>)
    BY <1>5 DEF VisitorTypes
  <2>2. Idle /\ watchers > 0 /\ posts' = posts /\ UNCHANGED <<overlap, widgetVars>>
    BY <1>5 DEF VisitorTypes, WidgetInv, WInv, Kept, loginVars
  <2> QED  BY <2>1, <2>2, EmitsWidget
<1>6. CASE EndedChat
  BY <1>6, DestroysWidget DEF EndedChat
<1> QED  BY <1>2, <1>3, <1>4, <1>5, <1>6 DEF Widget

-----------------------------------------------------------------------------
(***************************************************************************)
(* What follows from it.                                                   *)
(***************************************************************************)

\* A page that has just been loaded.
LEMMA WidgetInvInit == ASSUME Hosting, WidgetInit PROVE WidgetInv
<1>1. IInv /\ AInv
  BY InitIInv, InitAInv DEF WidgetInit, LoginInit
<1>2. /\ active /\ state = "connecting" /\ ws = "connecting" /\ up = <<>> /\ down = <<>> /\ map = <<>>
      /\ stack = <<>> /\ buffer = <<>> /\ asked = {} /\ posts = {} /\ overlap = "none"
      /\ watchers = 0 /\ ~ sample /\ ~ listening
      /\ \A c \in Channels : chan[c].st = "none" /\ ~ chan[c].torn
  BY DEF WidgetInit, LoginInit, Init, NoChannel
<1>3. /\ Elems(up) = {} /\ Elems(down) = {} /\ Elems(stack) = {} /\ Elems(map) = {} /\ Elems(buffer) = {}
      /\ Pairwise(stack, Opens)
  BY <1>2, ElemsOfFew, PairwiseFew
<1>4. \A e \in Calls : e \notin posts /\ Unused(e)
  BY <1>2, <1>3 DEF Unused
<1>5. Underway(Joins) = {} /\ Underway(Logins) = {}
  BY <1>4, LoginsAre DEF Underway
<1>6. ~ Opening /\ ~ SaidGoodbye /\ \A do : ~ Doing(do)
  BY <1>3 DEF Opening, SaidGoodbye, Doing
<1>7. Waits /\ Whole /\ Tasked /\ Alright
  BY <1>2, <1>3, <1>4, <1>6 DEF Waits, Whole, Tasked, OpeningTask, Alright, Hosting
<1>8. Kept /\ Where /\ Single
  BY <1>2, <1>3, <1>5, <1>6 DEF Kept, Where, Single, Hosting
<1>9. Authed /\ Wanted
  BY <1>2, <1>3 DEF Authed, Wanted
<1> QED  BY <1>1, <1>7, <1>8, <1>9 DEF WidgetInv, WInv

\* Every step of the page, its client, the browser and the server keeps it.
LEMMA WidgetInvStep == ASSUME WidgetInv, [WidgetNext]_allVars PROVE WidgetInv'
<1>1. CASE Login
  BY <1>1, LoginWidget DEF Login
<1>2. CASE Widget
  BY <1>2, HandlersWidget
<1>3. CASE (Library \/ Browser \/ Peer) /\ UNCHANGED <<loginVars, widgetVars>>
  <2>1. IInv' /\ AInv'
    <3>1. IInv'
      BY <1>3, StepKeeps DEF Next, WidgetInv
    <3> QED  BY <1>3, <3>1, StepAgrees DEF Next, WidgetInv
  <2> QED  BY <1>3, <2>1, LibraryWidget, BrowserWidget, PeerWidget DEF WidgetInv
<1>4. CASE UNCHANGED allVars
  <2>1. UNCHANGED vars /\ UNCHANGED loginVars /\ UNCHANGED widgetVars
    BY <1>4 DEF allVars
  <2>2. IInv' /\ AInv'
    <3>1. IInv'
      BY <2>1, StepKeeps DEF WidgetInv
    <3> QED  BY <2>1, <3>1, StepAgrees DEF WidgetInv
  <2>3. /\ UNCHANGED <<active, state, ws, up, down, peer, buffer, map, asked, chan, stack>>
        /\ UNCHANGED <<posts, overlap, sample, watchers, listening>>
    BY <2>1 DEF vars, loginVars, widgetVars
  <2> QED  BY <2>2, <2>3, SameWidget DEF WidgetInv
<1> QED  BY <1>1, <1>2, <1>3, <1>4 DEF WidgetNext

\* Between tasks, a page that polls slowly has its channel.
LEMMA WidgetInvSlow == ASSUME WidgetInv PROVE SlowOnlyWhenJoined
<1> SUFFICES ASSUME Idle, listening, overlap = "none"
             PROVE  state = "open" /\ chan[Chat].st \in {"pending", "subscribed"}
  BY DEF SlowOnlyWhenJoined
<1>1. watchers > 0 /\ ~ Doing("close")
  BY Resting DEF WidgetInv, WInv, Kept, Doing
<1> QED  BY <1>1 DEF WidgetInv, WInv, Where, Wanted

\* A page with two listeners on its channel has met 'connect' with a login not settled.
LEMMA WidgetInvOnce == ASSUME WidgetInv PROVE HandledOnce
<1> SUFFICES ASSUME watchers > 1, overlap # "join" PROVE FALSE
  BY DEF HandledOnce
<1>1. watchers \in Nat /\ watchers > 0
  BY DEF WidgetInv, WInv, Kept
<1> QED  BY <1>1 DEF WidgetInv, WInv, Where

\* The invariant, and the types of what it says nothing of.
WidgetTypes ==
    /\ WidgetInv
    /\ sample \in BOOLEAN /\ listening \in BOOLEAN
    /\ failed \in BOOLEAN /\ overlap \in {"none", "reauth", "join"}

\* A page begins with them.
LEMMA WidgetTypesInit == ASSUME Hosting, WidgetInit PROVE WidgetTypes
  BY WidgetInvInit DEF WidgetTypes, WidgetInit, LoginInit

\* A step keeps them.
LEMMA WidgetTypesStep == ASSUME WidgetTypes, [WidgetNext]_allVars PROVE WidgetTypes'
<1>1. WidgetInv'
  BY WidgetInvStep DEF WidgetTypes
<1>2. Overlap \in {"none", "reauth", "join"}
  BY DEF Overlap, WidgetTypes
<1>3. CASE Login
  BY <1>1, <1>2, <1>3 DEF WidgetTypes, Login, LoginStep, LoginHandlers, OnConnectAnonymous, OnDeauthenticate,
        OnReauthAnswered, OnLoginRefused, PostAnswered, BeforeUnload, loginVars, widgetVars
<1>4. CASE ConnectVisitor
  BY <1>1, <1>2, <1>4 DEF WidgetTypes, ConnectVisitor, Joining
<1>5. CASE OnClose
  BY <1>1, <1>5 DEF WidgetTypes, OnClose, loginVars
<1>6. CASE UNCHANGED <<loginVars, widgetVars>>
  BY <1>1, <1>6 DEF WidgetTypes, loginVars, widgetVars
<1> QED  BY <1>3, <1>4, <1>5, <1>6 DEF WidgetNext, Widget, OnSubscribe, OnMessage, Announce, VisitorTypes, EndedChat, allVars

\* They are the types of the variables.
LEMMA WidgetTypesAre == ASSUME WidgetTypes PROVE WidgetTypeOK
<1>1. posts \subseteq Calls /\ watchers \in Nat
  BY LoginsAre DEF WidgetTypes, WidgetInv, WInv, Waits, Kept
<1> QED  BY <1>1, Parts DEF WidgetTypes, WidgetInv, WidgetTypeOK, LoginTypeOK

\* The variables of the widget and of its client keep their types.
THEOREM WidgetTypesCorrect == ASSUME Hosting PROVE WidgetSpec => []WidgetTypeOK
<1>1. WidgetInit => WidgetTypes
  BY WidgetTypesInit
<1>2. WidgetTypes /\ [WidgetNext]_allVars => WidgetTypes'
  BY WidgetTypesStep
<1>3. WidgetTypes => WidgetTypeOK
  BY WidgetTypesAre
<1> QED  BY <1>1, <1>2, <1>3, PTL DEF WidgetSpec

\* The widget polls slowly only while it has its channel, through any lost connections,
\* refused or timed out logins and 'deauthenticate' events in any order, unless two logins
\* were under way at once (connectVisitor, the 'close' handler, $.post, destroy).
THEOREM SlowWhenJoined == ASSUME Hosting PROVE WidgetSpec => []SlowOnlyWhenJoined
<1>1. WidgetInit => WidgetInv
  BY WidgetInvInit
<1>2. WidgetInv /\ [WidgetNext]_allVars => WidgetInv'
  BY WidgetInvStep
<1>3. WidgetInv => SlowOnlyWhenJoined
  BY WidgetInvSlow
<1> QED  BY <1>1, <1>2, <1>3, PTL DEF WidgetSpec

\* No second listener is put on the channel by a reconnect or by the login that follows
\* 'deauthenticate', unless 'connect' came with an earlier join not settled.
THEOREM MessagesHandledOnce == ASSUME Hosting PROVE WidgetSpec => []HandledOnce
<1>1. WidgetInit => WidgetInv
  BY WidgetInvInit
<1>2. WidgetInv /\ [WidgetNext]_allVars => WidgetInv'
  BY WidgetInvStep
<1>3. WidgetInv => HandledOnce
  BY WidgetInvOnce
<1> QED  BY <1>1, <1>2, <1>3, PTL DEF WidgetSpec

=============================================================================
