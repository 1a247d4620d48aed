----------------------------- MODULE PartsProofs ------------------------------
(****************************************************************************)
(* Proofs about the parts of MCParts: the emit buffer's list, the worker's  *)
(* announcements, the emitter's listeners, and the text that utf8Slice     *)
(* makes of bytes, for every number of items, every set of sockets and     *)
(* chats, every listener, and every text and row of bytes.                 *)
(****************************************************************************)
EXTENDS MCParts, ClientProofs

-----------------------------------------------------------------------------
(****************************************************************************)
(* The emit buffer's list: its pointers, for any number of items and any   *)
(* depth of walks within walks.                                            *)
(****************************************************************************)

PointersTypeOK ==
    /\ head \in Links /\ tail \in Links
    /\ next \in [Items -> Links] /\ prev \in [Items -> Links]
    /\ linked \subseteq Items

\* A list without a head is empty.
LEMMA EmptyWithoutHead ==
    ASSUME PointersTypeOK, WellLinked, head = Nil
    PROVE  linked = {} /\ tail = Nil
<1>1. SUFFICES ASSUME linked # {} PROVE FALSE
  BY DEF WellLinked, EndsLinked
<1>2. PICK i \in linked : prev[i] \notin linked
  BY <1>1 DEF WellLinked, NoCycle
<1> QED  BY <1>2, BufferAssumption DEF PointersTypeOK, WellLinked, PrevLinked, HeadFirst

\* List.append of a new item keeps the pointers of the list together.
LEMMA AppendKeeps ==
    ASSUME NEW i \in Items, i \notin linked, PointersTypeOK, WellLinked, AppendItem(i)
    PROVE  PointersTypeOK' /\ WellLinked'
<1> DEFINE last == IF tail # Nil THEN tail ELSE head
<1> USE BufferAssumption DEF Links, PointersTypeOK
<1>1. CASE last = Nil
  <2>1. linked = {} /\ head = Nil /\ tail = Nil
    BY <1>1, EmptyWithoutHead
  <2>2. /\ head' = i /\ tail' = Nil /\ linked' = {i}
        /\ next' = next /\ prev' = prev /\ next[i] = Nil /\ prev[i] = Nil
    BY <1>1, <2>1 DEF AppendItem, InsertAfter, WellLinked, DetachedNowhere
  <2>3. NoCycle'
    BY <2>2 DEF NoCycle
  <2> QED
    BY <2>1, <2>2, <2>3 DEF WellLinked, DetachedNowhere, NextLinked, PrevLinked, HeadFirst,
                            TailLast, EndsLinked, LastItem
<1>2. CASE last # Nil
  <2>1. /\ last \in linked /\ last \in Items /\ last # i
        /\ next[last] = Nil /\ last = LastItem
    BY <1>2 DEF WellLinked, TailLast, EndsLinked, LastItem
  <2>2. /\ head' = head /\ tail' = i /\ linked' = linked \cup {i}
        /\ next' = [next EXCEPT ![last] = i, ![i] = next[last]]
        /\ prev' = [j \in Items |-> IF j = i THEN last ELSE IF j = next[last] THEN i ELSE prev[j]]
    BY <1>2 DEF AppendItem, InsertAfter
  <2>3. \A j \in Items : /\ next'[j] = IF j = last THEN i ELSE IF j = i THEN Nil ELSE next[j]
                         /\ prev'[j] = IF j = i THEN last ELSE prev[j]
    BY <2>1, <2>2
  <2>4. PointersTypeOK'
    BY <2>1, <2>2
  <2>5. head \in linked /\ LastItem' = i
    BY <2>1, <2>2 DEF WellLinked, EndsLinked, LastItem
  <2>6. DetachedNowhere'
    BY <2>1, <2>2, <2>3 DEF WellLinked, DetachedNowhere
  <2>7. NextLinked'
    BY <2>1, <2>2, <2>3 DEF WellLinked, NextLinked, DetachedNowhere, TailLast
  <2>8. PrevLinked'
    BY <2>1, <2>2, <2>3 DEF WellLinked, PrevLinked, DetachedNowhere, TailLast
  <2>9. HeadFirst'
    BY <2>1, <2>2, <2>3, <2>5 DEF WellLinked, HeadFirst
  <2>10. TailLast'
    BY <2>1, <2>2, <2>3, <2>5 DEF WellLinked, TailLast
  <2>11. EndsLinked'
    BY <2>1, <2>2, <2>5 DEF WellLinked, EndsLinked
  <2>12. NoCycle'
    <3> SUFFICES ASSUME NEW S \in SUBSET linked', S # {}
                 PROVE  \E j \in S : prev'[j] \notin S
      BY DEF NoCycle
    <3>1. CASE S = {i}
      BY <2>1, <2>3, <3>1
    <3>2. CASE S # {i}
      <4>1. S \ {i} \in SUBSET linked /\ S \ {i} # {}
        BY <2>2, <3>2
      <4>2. PICK j \in S \ {i} : prev[j] \notin S \ {i}
        BY <4>1 DEF WellLinked, NoCycle
      <4>3. j \in linked /\ prev[j] # i
        BY <4>1, <4>2 DEF WellLinked, PrevLinked
      <4> QED  BY <2>3, <4>1, <4>2, <4>3
    <3> QED  BY <3>1, <3>2
  <2> QED  BY <2>4, <2>6, <2>7, <2>8, <2>9, <2>10, <2>11, <2>12 DEF WellLinked
<1> QED  BY <1>1, <1>2

\* Item.detach keeps the pointers of the list together.
LEMMA DetachKeeps ==
    ASSUME NEW i \in Items, PointersTypeOK, WellLinked, Detach(i)
    PROVE  PointersTypeOK' /\ WellLinked'
<1> USE BufferAssumption DEF Links, PointersTypeOK
<1>1. CASE i \notin linked
  <2>1. /\ head' = head /\ tail' = tail /\ linked' = linked
        /\ next' = next /\ prev' = prev
    BY <1>1 DEF Detach, pointerVars
  <2>2. NoCycle'
    BY <2>1 DEF WellLinked, NoCycle
  <2> QED
    BY <2>1, <2>2 DEF WellLinked, DetachedNowhere, NextLinked, PrevLinked, HeadFirst, TailLast,
                      EndsLinked, LastItem
<1>2. CASE i \in linked
  <2> DEFINE h == IF head = i THEN next[i] ELSE head
             t == IF tail = i THEN prev[i] ELSE tail
  <2>1. /\ head' = h /\ tail' = (IF t = h THEN Nil ELSE t) /\ linked' = linked \ {i}
        /\ next' = [j \in Items |-> IF j = i THEN Nil ELSE IF j = prev[i] THEN next[i] ELSE next[j]]
        /\ prev' = [j \in Items |-> IF j = i THEN Nil ELSE IF j = next[i] THEN prev[i] ELSE prev[j]]
    BY <1>2 DEF Detach
  <2>2. \A j \in Items :
          /\ next'[j] = IF j = i THEN Nil ELSE IF j = prev[i] THEN next[i] ELSE next[j]
          /\ prev'[j] = IF j = i THEN Nil ELSE IF j = next[i] THEN prev[i] ELSE prev[j]
    BY <2>1
  <2>3. PointersTypeOK'
    BY <2>1
  <2>4. next[i] # i /\ prev[i] # i
    <3>1. prev[i] # i
      <4>1. {i} \in SUBSET linked /\ {i} # {}
        BY <1>2
      <4>2. PICK j \in {i} : prev[j] \notin {i}
        BY <4>1 DEF WellLinked, NoCycle
      <4> QED  BY <4>2
    <3> QED  BY <1>2, <3>1 DEF WellLinked, NextLinked
  <2>5. DetachedNowhere'
    BY <1>2, <2>1, <2>2 DEF WellLinked, DetachedNowhere, NextLinked, PrevLinked
  <2>6. NextLinked'
    BY <1>2, <2>1, <2>2 DEF WellLinked, NextLinked, PrevLinked
  <2>7. PrevLinked'
    BY <1>2, <2>1, <2>2 DEF WellLinked, NextLinked, PrevLinked
  <2>8. HeadFirst'
    BY <1>2, <2>1, <2>2 DEF WellLinked, NextLinked, PrevLinked, HeadFirst
  <2>9. EndsLinked'
    BY <1>2, <2>1, <2>2, <2>4 DEF WellLinked, NextLinked, PrevLinked, HeadFirst, TailLast, EndsLinked, LastItem
  <2>10. TailLast'
    BY <1>2, <2>1, <2>2 DEF WellLinked, NextLinked, PrevLinked, HeadFirst, TailLast, EndsLinked, LastItem
  <2>11. NoCycle'
    <3> SUFFICES ASSUME NEW S \in SUBSET linked', S # {}
                 PROVE  \E j \in S : prev'[j] \notin S
      BY DEF NoCycle
    <3>1. S \subseteq linked /\ i \notin S
      BY <2>1
    <3>2. CASE next[i] \in S
      <4>1. PICK j \in S \cup {i} : prev[j] \notin S \cup {i}
        BY <1>2, <3>1 DEF WellLinked, NoCycle
      <4>2. prev[next[i]] = i /\ next[i] # i
        BY <1>2, <2>4, <3>2, <3>1 DEF WellLinked, NextLinked
      <4>3. CASE j = i
        BY <2>2, <3>1, <3>2, <4>1, <4>2, <4>3
      <4>4. CASE j # i
        BY <2>2, <3>1, <4>1, <4>2, <4>4
      <4> QED  BY <4>3, <4>4
    <3>3. CASE next[i] \notin S
      <4>1. PICK j \in S : prev[j] \notin S
        BY <3>1 DEF WellLinked, NoCycle
      <4> QED  BY <2>2, <3>1, <3>3, <4>1
    <3> QED  BY <3>2, <3>3
  <2> QED  BY <2>3, <2>5, <2>6, <2>7, <2>8, <2>9, <2>10, <2>11 DEF WellLinked
<1> QED  BY <1>1, <1>2

\* What is still due is in the list, and while anything is, the innermost walk
\* stands at the head.
WalkInv ==
    /\ due \subseteq linked
    /\ walks = <<>> => due = {}
    /\ due # {} => Head(walks) = head

ListInv == ListTypeOK /\ WellLinked /\ WalkInv

\* The initial state, an empty list, satisfies the invariant.
LEMMA ListInitHolds == ListInit => ListInv
<1> SUFFICES ASSUME ListInit PROVE ListInv
  OBVIOUS
<1>1. ListTypeOK /\ WalkInv
  BY DEF ListInit, Unlinked, Links, ListTypeOK, WalkInv
<1>2. NoCycle
  BY DEF ListInit, NoCycle
<1>3. WellLinked
  BY <1>2 DEF ListInit, Unlinked, WellLinked, DetachedNowhere, NextLinked, PrevLinked, HeadFirst,
              TailLast, EndsLinked
<1> QED  BY <1>1, <1>3 DEF ListInv

\* Every operation on the buffer preserves it.
LEMMA ListStep == ListInv /\ [ListNext]_listVars => ListInv'
<1> SUFFICES ASSUME ListInv, [ListNext]_listVars PROVE ListInv'
  OBVIOUS
<1> USE BufferAssumption DEF ListInv
<1>0. PointersTypeOK /\ due \subseteq Items /\ walks \in Seq(Links)
  BY DEF ListTypeOK, PointersTypeOK
<1>1. ASSUME NEW i \in Items, ListEmit(i) PROVE ListInv'
  <2>1. i \notin linked /\ AppendItem(i) /\ walks' = walks /\ due' = due
    BY <1>1 DEF ListEmit
  <2>2. PointersTypeOK' /\ WellLinked'
    BY <1>0, <2>1, AppendKeeps
  <2>3. linked' = linked \cup {i} /\ (linked # {} => head' = head)
    <3>1. linked # {} => head # Nil
      BY <1>0, EmptyWithoutHead
    <3> QED  BY <2>1, <3>1 DEF AppendItem, InsertAfter
  <2> QED  BY <1>0, <2>1, <2>2, <2>3 DEF ListTypeOK, PointersTypeOK, WalkInv
<1>2. ASSUME NEW i \in Items, ListAckTimeout(i) PROVE ListInv'
  <2>1. walks = <<>> /\ walks' = walks /\ due' = due \ {i} /\ Detach(i)
    BY <1>2 DEF ListAckTimeout
  <2>2. PointersTypeOK' /\ WellLinked'
    BY <1>0, <2>1, DetachKeeps
  <2> QED  BY <1>0, <2>1, <2>2 DEF ListTypeOK, PointersTypeOK, WalkInv
<1>3. CASE WalkBegins
  <2>1. walks' = <<head>> \o walks /\ UNCHANGED pointerVars
    BY <1>3 DEF WalkBegins
  <2>2. walks' \in Seq(Links) /\ walks' # <<>> /\ Head(walks') = head
    BY <1>0, <2>1 DEF PointersTypeOK
  <2>3. PointersTypeOK' /\ WellLinked'
    <3>1. /\ head' = head /\ tail' = tail /\ linked' = linked
          /\ next' = next /\ prev' = prev
      BY <2>1 DEF pointerVars
    <3>2. NoCycle'
      BY <3>1 DEF WellLinked, NoCycle
    <3> QED
      BY <1>0, <3>1, <3>2 DEF PointersTypeOK, WellLinked, DetachedNowhere, NextLinked, PrevLinked,
                              HeadFirst, TailLast, EndsLinked, LastItem
  <2>4. due' \subseteq linked'
    BY <1>3, <2>1 DEF WalkBegins, WalkInv, pointerVars
  <2> QED  BY <1>0, <2>1, <2>2, <2>3, <2>4 DEF ListTypeOK, PointersTypeOK, WalkInv, pointerVars
<1>4. CASE WalkTakes
  <2> DEFINE i == Head(walks)
  <2>1. walks # <<>> /\ i = walks[1] /\ i \in Items
    BY <1>0, <1>4 DEF WalkTakes, Links
  <2>2. /\ walks' = [walks EXCEPT ![1] = next[i]]
        /\ due' = due \ {i} /\ Detach(i)
    BY <1>4, <2>1 DEF WalkTakes
  <2>3. PointersTypeOK' /\ WellLinked'
    BY <1>0, <2>1, <2>2, DetachKeeps
  <2>4. walks' \in Seq(Links) /\ walks' # <<>> /\ Head(walks') = next[i]
    BY <1>0, <2>1, <2>2 DEF PointersTypeOK, Links
  <2>5. due # {} => i \in linked /\ linked' = linked \ {i} /\ head' = next[i]
    BY <1>0, <2>1, <2>2 DEF WalkInv, Detach, PointersTypeOK, Links, WellLinked, EndsLinked
  <2>6. WalkInv'
    BY <2>2, <2>4, <2>5 DEF WalkInv
  <2> QED  BY <1>0, <2>2, <2>3, <2>4, <2>6 DEF ListTypeOK, PointersTypeOK
<1>5. CASE WalkEnds
  <2>1. /\ walks # <<>> /\ Head(walks) = Nil /\ walks' = Tail(walks)
        /\ UNCHANGED <<pointerVars, due>>
    BY <1>5 DEF WalkEnds
  <2>2. /\ head' = head /\ tail' = tail /\ linked' = linked
        /\ next' = next /\ prev' = prev /\ due' = due
    BY <2>1 DEF pointerVars
  <2>3. due = {}
    BY <1>0, <2>1, EmptyWithoutHead DEF WalkInv
  <2>4. walks' \in Seq(Links)
    BY <1>0, <2>1
  <2>5. NoCycle'
    BY <2>2 DEF WellLinked, NoCycle
  <2>6. WellLinked'
    BY <2>2, <2>5 DEF WellLinked, DetachedNowhere, NextLinked, PrevLinked, HeadFirst, TailLast,
                      EndsLinked, LastItem
  <2> QED  BY <1>0, <2>2, <2>3, <2>4, <2>6 DEF ListTypeOK, PointersTypeOK, WalkInv
<1>6. CASE UNCHANGED listVars
  <2>1. /\ head' = head /\ tail' = tail /\ linked' = linked /\ next' = next
        /\ prev' = prev /\ walks' = walks /\ due' = due
    BY <1>6 DEF listVars, pointerVars
  <2>2. NoCycle'
    BY <2>1 DEF WellLinked, NoCycle
  <2>3. WellLinked'
    BY <2>1, <2>2 DEF WellLinked, DetachedNowhere, NextLinked, PrevLinked, HeadFirst, TailLast,
                      EndsLinked, LastItem
  <2> QED  BY <2>1, <2>3 DEF ListTypeOK, WalkInv
<1> QED  BY <1>1, <1>2, <1>3, <1>4, <1>5, <1>6 DEF ListNext

\* The invariant of the buffer, for any number of events and any depth of walks.
THEOREM ListInductive == ListSpec => []ListInv
  BY ListInitHolds, ListStep, PTL DEF ListSpec

\* The pointers of the list always belong together: next and prev are inverse and no
\* item is in the list twice or beside it (Item.append, Item.detach).
THEOREM AlwaysWellLinked == ListSpec => []WellLinked
<1>1. ListInv => WellLinked
  BY DEF ListInv
<1> QED  BY <1>1, ListInductive, PTL

\* The variables of the buffer are always well typed.
THEOREM ListTypesCorrect == ListSpec => []ListTypeOK
<1>1. ListInv => ListTypeOK
  BY DEF ListInv
<1> QED  BY <1>1, ListInductive, PTL

\* A walk of the buffer hands out everything that was in it, whatever its callbacks
\* do (_flushEmitBuffer, _abortAllPendingEventsDueToBadConnection).
THEOREM AlwaysWalkedToTheEnd == ListSpec => []WalkedToTheEnd
<1>1. ListInv => WalkedToTheEnd
  BY DEF ListInv, WalkInv, WalkedToTheEnd
<1> QED  BY <1>1, ListInductive, PTL

-----------------------------------------------------------------------------
(****************************************************************************)
(* The worker (worker.js): whoever was announced as present, and is not    *)
(* remembered by a token, has a history of two places or has been          *)
(* reported as gone.                                                       *)
(****************************************************************************)

Tokens == [kind : Node!Kinds, chanelNameChat : Chats \cup {Nothing}]

\* Only a connected browser has a token (the framework drops it with the connection).
TokensConnected ==
    /\ authToken \in [Sockets -> Tokens \cup {Nothing}]
    /\ \A s \in Sockets : Node!HasToken(s) => s \in connected

\* Whoever was announced on a chat, and has no history of two places, is remembered by the
\* token that the 'disconnect' handler will read.
ToldRemembered ==
    \A c \in Chats : \/ told[c] = Nothing \/ told[c] \in stray
                     \/ /\ told[c] \in Sockets /\ Node!HasToken(told[c])
                        /\ authToken[told[c]].kind = "chat"
                        /\ authToken[told[c]].chanelNameChat = c

\* Whoever was announced on ous_<instance>, and has no such history, has a visitor's
\* token that names no chat.
ShownRemembered ==
    \A s \in shown \ stray : Node!IsVisitor(s) /\ authToken[s].chanelNameChat = Nothing

NodeInv == Node!TypeOK /\ TokensConnected /\ ToldRemembered /\ ShownRemembered

\* A token is never Nothing, and writing a chat into it changes nothing else.
LEMMA TokenIsSomething ==
    /\ Nothing \notin Tokens
    /\ \A k \in Node!Kinds : Node!Token(k) \in Tokens /\ Node!Token(k).kind = k
                             /\ Node!Token(k).chanelNameChat = Nothing
    /\ \A t \in Tokens : t.kind \in Node!Kinds /\ t.chanelNameChat \in Chats \cup {Nothing}
    /\ \A t \in Tokens, c \in Chats :
          LET u == [t EXCEPT !.chanelNameChat = c] IN u \in Tokens /\ u.kind = t.kind /\ u.chanelNameChat = c
<1>1. Nothing \notin Tokens
  BY PartsAssumption DEF Tokens, Node!Kinds
<1>2. \A k \in Node!Kinds : Node!Token(k) \in Tokens /\ Node!Token(k).kind = k
                            /\ Node!Token(k).chanelNameChat = Nothing
  BY DEF Tokens, Node!Token
<1>3. \A t \in Tokens : t.kind \in Node!Kinds /\ t.chanelNameChat \in Chats \cup {Nothing}
  BY DEF Tokens
<1>4. ASSUME NEW t \in Tokens, NEW c \in Chats
      PROVE  LET u == [t EXCEPT !.chanelNameChat = c]
             IN  u \in Tokens /\ u.kind = t.kind /\ u.chanelNameChat = c
  BY DEF Tokens
<1> QED  BY <1>1, <1>2, <1>3, <1>4

\* Before anyone connects nobody is announced.
LEMMA NodeInit == ASSUME Node!Init PROVE NodeInv
  BY DEF Node!Init, NodeInv, Node!TypeOK, TokensConnected, ToldRemembered, ShownRemembered,
         Node!HasToken, Node!IsVisitor, Node!Kinds

\* Who connects with a stored token has been announced nowhere yet.
LEMMA NodeConnect == ASSUME NodeInv, NEW s \in Sockets, Node!Connect(s) PROVE NodeInv'
<1>1. /\ s \notin connected /\ connected' = connected \cup {s}
      /\ authToken' = authToken \/ authToken' = [authToken EXCEPT ![s] = Node!Token(kind[s])]
      /\ kind' = kind /\ stored' = stored /\ subs' = subs /\ told' = told
      /\ shown' = shown /\ stray' = stray
  BY DEF Node!Connect
<1>2. authToken[s] = Nothing /\ kind[s] \in Node!Kinds
  BY <1>1 DEF NodeInv, TokensConnected, Node!HasToken, Node!TypeOK
<1>3. authToken' \in [Sockets -> Tokens \cup {Nothing}] /\ \A t \in Sockets \ {s} : authToken'[t] = authToken[t]
  BY <1>1, <1>2, TokenIsSomething DEF NodeInv, TokensConnected
<1>4. TokensConnected'
  BY <1>1, <1>3 DEF NodeInv, TokensConnected, Node!HasToken
<1>5. Node!TypeOK'
  BY <1>1, <1>3 DEF NodeInv, Node!TypeOK, Tokens, Node!HasToken
<1>6. ToldRemembered'
  BY <1>1, <1>2, <1>3 DEF NodeInv, ToldRemembered, Node!HasToken
<1>7. ShownRemembered'
  BY <1>1, <1>2, <1>3 DEF NodeInv, ShownRemembered, Node!HasToken, Node!IsVisitor, Node!TypeOK
<1> QED  BY <1>4, <1>5, <1>6, <1>7 DEF NodeInv

\* A login with a token already held makes a history of two places.
LEMMA NodeLogin == ASSUME NodeInv, NEW s \in Sockets, Node!Login(s) PROVE NodeInv'
<1>1. /\ s \in connected /\ connected' = connected
      /\ authToken' = [authToken EXCEPT ![s] = Node!Token(kind[s])]
      /\ stray' = IF Node!HasToken(s) THEN stray \cup {s} ELSE stray
      /\ kind' = kind /\ stored' = stored \cup {s} /\ subs' = subs /\ told' = told /\ shown' = shown
  BY DEF Node!Login
<1>2. kind[s] \in Node!Kinds
  BY DEF NodeInv, Node!TypeOK
<1>3. authToken' \in [Sockets -> Tokens \cup {Nothing}] /\ \A t \in Sockets \ {s} : authToken'[t] = authToken[t]
  BY <1>1, <1>2, TokenIsSomething DEF NodeInv, TokensConnected
<1>4. TokensConnected'
  BY <1>1, <1>3 DEF NodeInv, TokensConnected, Node!HasToken
<1>5. Node!TypeOK'
  BY <1>1, <1>3 DEF NodeInv, Node!TypeOK, Tokens, Node!HasToken
<1>6. ToldRemembered'
  BY <1>1, <1>3 DEF NodeInv, ToldRemembered, Node!HasToken
<1>7. ShownRemembered'
  BY <1>1, <1>3 DEF NodeInv, ShownRemembered, Node!HasToken, Node!IsVisitor, Node!TypeOK
<1> QED  BY <1>4, <1>5, <1>6, <1>7 DEF NodeInv

\* Who is announced on a chat has the chat written into the token.
LEMMA NodeAnnounceChat ==
    ASSUME NodeInv, NEW s \in Sockets, NEW c \in Chats, Node!AnnounceChat(s, c) PROVE NodeInv'
<1>1. /\ s \in connected /\ connected' = connected
      /\ Node!HasToken(s) /\ authToken[s].kind = "chat"
      /\ authToken' = [authToken EXCEPT ![s] = [authToken[s] EXCEPT !.chanelNameChat = c]]
      /\ told' = [told EXCEPT ![c] = s]
      /\ stray' = IF Node!Announced(s) \subseteq {c} THEN stray ELSE stray \cup {s}
      /\ subs' = [subs EXCEPT ![s] = @ \cup {c}]
      /\ kind' = kind /\ stored' = stored /\ shown' = shown
  BY DEF Node!AnnounceChat, Node!Accept
<1>2. s \notin stray' => authToken[s].chanelNameChat \in {Nothing, c} /\ s \notin shown
  <2>1. s \notin stray' => Node!Announced(s) \subseteq {c}
    BY <1>1
  <2>2. s \notin stray' /\ authToken[s].chanelNameChat # Nothing => authToken[s].chanelNameChat = c
    BY <2>1 DEF Node!Announced
  <2>3. s \notin stray' /\ s \in shown => Site = c
    BY <2>1 DEF Node!Announced
  <2>4. Site # c
    BY PartsAssumption
  <2> QED  BY <2>2, <2>3, <2>4
<1>3. authToken[s] \in Tokens
  BY <1>1 DEF NodeInv, TokensConnected, Node!HasToken
<1>4. /\ authToken'[s] \in Tokens /\ authToken'[s] # Nothing
      /\ authToken'[s].kind = "chat" /\ authToken'[s].chanelNameChat = c
      /\ authToken' \in [Sockets -> Tokens \cup {Nothing}]
      /\ \A t \in Sockets \ {s} : authToken'[t] = authToken[t]
  BY <1>1, <1>3, TokenIsSomething DEF NodeInv, TokensConnected
<1>5. TokensConnected'
  BY <1>1, <1>4 DEF NodeInv, TokensConnected, Node!HasToken
<1>6. Node!TypeOK'
  BY <1>1, <1>4 DEF NodeInv, Node!TypeOK, Tokens, Node!HasToken
<1>7. ToldRemembered'
  <2>1. stray \subseteq stray' /\ (s \in stray' \/ s \notin stray)
    BY <1>1
  <2>2. told'[c] = s /\ \A d \in Chats \ {c} : told'[d] = told[d]
    BY <1>1 DEF NodeInv, Node!TypeOK
  <2>3. ASSUME NEW d \in Chats \ {c}, told[d] = s, s \notin stray', s # Nothing PROVE FALSE
    <3>1. authToken[s].chanelNameChat = d
      BY <2>1, <2>3 DEF NodeInv, ToldRemembered
    <3> QED  BY <1>2, <2>3, <3>1, PartsAssumption
  <2> QED  BY <1>4, <2>1, <2>2, <2>3 DEF NodeInv, ToldRemembered, Node!HasToken
<1>8. ShownRemembered'
  BY <1>1, <1>2, <1>3, <1>4 DEF NodeInv, ShownRemembered, Node!HasToken, Node!IsVisitor, Node!TypeOK
<1> QED  BY <1>5, <1>6, <1>7, <1>8 DEF NodeInv

\* Who is announced on ous_<instance> has no chat in the token.
LEMMA NodeAnnounceSite == ASSUME NodeInv, NEW s \in Sockets, Node!AnnounceSite(s) PROVE NodeInv'
<1>1. /\ s \in connected /\ Node!IsVisitor(s) /\ shown' = shown \cup {s}
      /\ stray' = IF Node!Announced(s) \subseteq {Site} THEN stray ELSE stray \cup {s}
      /\ subs' = [subs EXCEPT ![s] = @ \cup {Site}]
      /\ kind' = kind /\ connected' = connected /\ stored' = stored /\ authToken' = authToken
      /\ told' = told
  BY DEF Node!AnnounceSite, Node!Accept
<1>2. authToken[s] \in Tokens
  BY <1>1 DEF NodeInv, TokensConnected, Node!HasToken, Node!IsVisitor
<1>3. s \notin stray' => authToken[s].chanelNameChat = Nothing
  <2>1. s \notin stray' => Node!Announced(s) \subseteq {Site}
    BY <1>1
  <2>2. s \notin stray' /\ authToken[s].chanelNameChat # Nothing => authToken[s].chanelNameChat = Site
    BY <2>1 DEF Node!Announced
  <2> QED  BY <1>2, <2>1, <2>2, PartsAssumption, TokenIsSomething
<1>4. Node!TypeOK' /\ TokensConnected' /\ ToldRemembered'
  BY <1>1 DEF NodeInv, Node!TypeOK, TokensConnected, ToldRemembered, Node!HasToken
<1>5. ShownRemembered'
  BY <1>1, <1>3 DEF NodeInv, ShownRemembered, Node!IsVisitor, Node!HasToken
<1> QED  BY <1>4, <1>5 DEF NodeInv

\* Who goes is announced as gone where the token says; whoever stays keeps the token.
LEMMA NodeDisconnect == ASSUME NodeInv, NEW s \in Sockets, Node!Disconnect(s) PROVE NodeInv'
<1>1. /\ connected' = connected \ {s} /\ authToken' = [authToken EXCEPT ![s] = Nothing]
      /\ subs' = [subs EXCEPT ![s] = {}]
      /\ kind' = kind /\ stored' = stored /\ stray' = stray
  BY DEF Node!Disconnect, Node!Gone
<1>2. \/ /\ Node!IsVisitor(s) /\ authToken[s].chanelNameChat # Nothing
         /\ told' = [told EXCEPT ![authToken[s].chanelNameChat] = Nothing]
         /\ shown' = shown
      \/ /\ Node!IsVisitor(s) /\ authToken[s].chanelNameChat = Nothing
         /\ shown' = shown \ {s} /\ told' = told
      \/ ~ Node!IsVisitor(s) /\ told' = told /\ shown' = shown
  BY DEF Node!Disconnect
<1>3. authToken[s] \in Tokens \/ authToken[s] = Nothing
  BY DEF NodeInv, TokensConnected
<1>4. /\ told' \in [Chats -> Sockets \cup {Nothing}] /\ shown' \subseteq shown
      /\ \A c \in Chats : told'[c] # Nothing => told'[c] = told[c]
  BY <1>2, <1>3, TokenIsSomething DEF NodeInv, Node!TypeOK, Node!IsVisitor, Node!HasToken
<1>5. \A c \in Chats : told'[c] = s => s \in stray \/ s = Nothing
  BY <1>2, <1>3, <1>4, PartsAssumption, TokenIsSomething
     DEF NodeInv, Node!TypeOK, ToldRemembered, Node!IsVisitor, Node!HasToken
<1>6. s \in shown' => s \in stray
  BY <1>2 DEF NodeInv, ShownRemembered
<1>7. /\ authToken' \in [Sockets -> Tokens \cup {Nothing}] /\ authToken'[s] = Nothing
      /\ \A t \in Sockets \ {s} : authToken'[t] = authToken[t]
  BY <1>1 DEF NodeInv, TokensConnected
<1>8. TokensConnected'
  BY <1>1, <1>7 DEF NodeInv, TokensConnected, Node!HasToken
<1>9. Node!TypeOK'
  BY <1>1, <1>4, <1>7 DEF NodeInv, Node!TypeOK, Tokens, Node!HasToken
<1>10. ToldRemembered'
  BY <1>1, <1>4, <1>5, <1>7 DEF NodeInv, ToldRemembered, Node!HasToken
<1>11. ShownRemembered'
  BY <1>1, <1>4, <1>6, <1>7 DEF NodeInv, ShownRemembered, Node!HasToken, Node!IsVisitor, Node!TypeOK
<1> QED  BY <1>8, <1>9, <1>10, <1>11 DEF NodeInv

\* The worker's invariant is about the worker's variables.
LEMMA NodeStays == ASSUME NodeInv, UNCHANGED nodeVars PROVE NodeInv'
  BY DEF nodeVars, NodeInv, Node!TypeOK, TokensConnected, ToldRemembered, ShownRemembered,
         Node!HasToken, Node!IsVisitor

\* Every handler of the worker keeps the invariant.
LEMMA NodeStep == ASSUME NodeInv, Node!Next PROVE NodeInv'
<1> SUFFICES ASSUME NEW s \in Sockets,
                    \/ Node!Connect(s) \/ Node!Login(s) \/ Node!Refuse(s) \/ Node!AnnounceSite(s)
                    \/ Node!Allow(s) \/ Node!Unsubscribe(s) \/ Node!Disconnect(s)
                    \/ \E c \in Chats : Node!AnnounceChat(s, c)
             PROVE  NodeInv'
  BY DEF Node!Next
<1>1. CASE Node!Refuse(s)
  BY <1>1, NodeStays DEF Node!Refuse, Node!vars, nodeVars
<1>2. CASE Node!Allow(s)
  <2>1. PICK c \in Chats \cup {Site} : subs' = [subs EXCEPT ![s] = @ \cup {c}]
    BY <1>2 DEF Node!Allow, Node!Accept
  <2>2. UNCHANGED <<kind, connected, stored, authToken, told, shown, stray>>
    BY <1>2 DEF Node!Allow
  <2>3. subs' \in [Sockets -> SUBSET (Chats \cup {Site})]
    BY <2>1 DEF NodeInv, Node!TypeOK
  <2> QED  BY <2>2, <2>3 DEF NodeInv, Node!TypeOK, TokensConnected, ToldRemembered, ShownRemembered,
                             Node!HasToken, Node!IsVisitor
<1>3. CASE Node!Unsubscribe(s)
  <2>1. PICK c \in subs[s] : subs' = [subs EXCEPT ![s] = @ \ {c}]
    BY <1>3 DEF Node!Unsubscribe
  <2>2. UNCHANGED <<kind, connected, stored, authToken, told, shown, stray>>
    BY <1>3 DEF Node!Unsubscribe
  <2>3. subs' \in [Sockets -> SUBSET (Chats \cup {Site})]
    BY <2>1 DEF NodeInv, Node!TypeOK
  <2> QED  BY <2>2, <2>3 DEF NodeInv, Node!TypeOK, TokensConnected, ToldRemembered, ShownRemembered,
                             Node!HasToken, Node!IsVisitor
<1> QED  BY <1>1, <1>2, <1>3, NodeConnect, NodeLogin, NodeAnnounceSite, NodeAnnounceChat, NodeDisconnect

\* With the invariant, who is shown and has no history of two places is connected.
LEMMA NodePromise == ASSUME NodeInv PROVE NobodyLeft
  BY DEF NodeInv, TokensConnected, ToldRemembered, ShownRemembered, NobodyLeft, Node!NobodyLeft,
         Node!HasToken, Node!IsVisitor, Node!TypeOK

-----------------------------------------------------------------------------
(****************************************************************************)
(* The emitter: an emission calls the listeners that were there when it    *)
(* began, and a listener for one call is never called twice.               *)
(****************************************************************************)

\* What off() looks for: the function, or once's wrapper of it.
Matches(e, f, w) == IF w = Plain THEN e.fn = f ELSE e.on = w

RemovedAt(list, n) == SubSeq(list, 1, n - 1) \o SubSeq(list, n + 1, Len(list))

\* A list without its n-th entry.
LEMMA RemovedAtLemma ==
    ASSUME NEW S, NEW list \in Seq(S), NEW n \in 1 .. Len(list)
    PROVE  /\ RemovedAt(list, n) \in Seq(S)
           /\ Len(RemovedAt(list, n)) = Len(list) - 1
           /\ \A i \in 1 .. Len(list) - 1 : RemovedAt(list, n)[i] = IF i < n THEN list[i] ELSE list[i + 1]
<1> DEFINE a == SubSeq(list, 1, n - 1)
           b == SubSeq(list, n + 1, Len(list))
<1>1. a \in Seq(S) /\ Len(a) = n - 1 /\ \A i \in 1 .. n - 1 : a[i] = list[i]
  OBVIOUS
<1>2. b \in Seq(S) /\ Len(b) = Len(list) - n /\ \A i \in 1 .. Len(list) - n : b[i] = list[n + i]
  OBVIOUS
<1>3. RemovedAt(list, n) = a \o b
  BY DEF RemovedAt
<1> HIDE DEF a, b
<1>4. a \o b \in Seq(S) /\ Len(a \o b) = Len(list) - 1
  BY <1>1, <1>2
<1>5. ASSUME NEW i \in 1 .. Len(list) - 1
      PROVE  (a \o b)[i] = IF i < n THEN list[i] ELSE list[i + 1]
  <2>1. CASE i < n
    BY <1>1, <1>2, <2>1
  <2>2. CASE ~ (i < n)
    <3>1. (a \o b)[i] = b[i - (n - 1)]
      BY <1>1, <1>2, <2>2
    <3>2. i - (n - 1) \in 1 .. Len(list) - n
      BY <2>2
    <3> QED  BY <1>2, <2>2, <3>1, <3>2
  <2> QED  BY <2>1, <2>2
<1> QED  BY <1>3, <1>4, <1>5

\* Min of a set of positions is its first.
LEMMA FirstOfSome ==
    ASSUME NEW n \in Nat, NEW I \in SUBSET (1 .. n), I # {}
    PROVE  Events!Min(I) \in I /\ \A i \in I : Events!Min(I) <= i
<1> DEFINE N == Cardinality(I)
           p(k) == Position(I, k)
<1>1. /\ N \in Nat /\ \A k \in 1 .. N : p(k) \in I
      /\ \A i \in I : \E k \in 1 .. N : p(k) = i
      /\ \A k, l \in 1 .. N : k < l => p(k) < p(l)
  BY Positions
<1>2. \A i \in I : i \in Nat
  OBVIOUS
<1> HIDE DEF N, p
<1>3. 1 \in 1 .. N
  <2>1. PICK i \in I : TRUE
    OBVIOUS
  <2>2. PICK k \in 1 .. N : p(k) = i
    BY <1>1
  <2> QED  BY <1>1, <2>2
<1>4. ASSUME NEW i \in I PROVE p(1) <= i
  <2>1. PICK k \in 1 .. N : p(k) = i
    BY <1>1
  <2>2. k = 1 \/ 1 < k
    BY <1>1, <2>1
  <2>3. p(1) \in Nat /\ i \in Nat
    BY <1>1, <1>2, <1>3
  <2>4. CASE k = 1
    BY <2>1, <2>3, <2>4
  <2>5. CASE 1 < k
    <3>1. p(1) < p(k)
      BY <1>1, <1>3, <2>5
    <3> QED  BY <2>1, <2>3, <3>1
  <2> QED  BY <2>2, <2>4, <2>5
<1>5. \E m \in I : \A i \in I : m <= i
  BY <1>1, <1>3, <1>4
<1> QED  BY <1>5 DEF Events!Min

\* Removed leaves the list as it is if nothing matches, and else drops the first match.
LEMMA RemovedFirst ==
    ASSUME NEW list \in Seq(Events!Entries), NEW f, NEW w
    PROVE  \/ Events!Removed(list, f, w) = list /\ \A i \in 1 .. Len(list) : ~ Matches(list[i], f, w)
           \/ \E n \in 1 .. Len(list) : /\ Matches(list[n], f, w)
                                        /\ \A i \in 1 .. n - 1 : ~ Matches(list[i], f, w)
                                        /\ Events!Removed(list, f, w) = RemovedAt(list, n)
<1> DEFINE I == {i \in 1 .. Len(list) : Matches(list[i], f, w)}
<1>0. I \in SUBSET (1 .. Len(list)) /\ Len(list) \in Nat
  OBVIOUS
<1>1. CASE I = {}
  BY <1>1 DEF Matches, Events!Removed, Events!RemoveFirstMatch
<1>2. CASE I # {}
  <2>1. Events!Removed(list, f, w) = RemovedAt(list, Events!Min(I))
    BY <1>2 DEF Matches, RemovedAt, Events!Removed, Events!RemoveFirstMatch, Events!SelectInSeq, Events!RemoveAt
  <2>2. Events!Min(I) \in I /\ \A i \in I : Events!Min(I) <= i
    <3> HIDE DEF I
    <3> QED  BY <1>0, <1>2, FirstOfSome
  <2> DEFINE n == Events!Min(I)
  <2> HIDE DEF n
  <2>3. n \in I /\ \A i \in I : n <= i
    BY <2>2 DEF n
  <2>4. n \in 1 .. Len(list) /\ Matches(list[n], f, w)
    BY <2>3
  <2>5. ASSUME NEW i \in 1 .. n - 1, Matches(list[i], f, w) PROVE FALSE
    <3>1. i \in I
      BY <2>4, <2>5
    <3> QED  BY <2>3, <2>4, <3>1
  <2> QED  BY <2>1, <2>4, <2>5 DEF n
<1> QED  BY <1>1, <1>2

\* The emitter.  A wrapper is registered once.
Registered == \A i, j \in 1 .. Len(callbacks) : i # j /\ callbacks[i].on = callbacks[j].on => callbacks[i].on = Plain

\* An emission has called the first of its copy, and is at the next.
Underway(e) == e.at \in 1 .. Len(e.list) + 1 /\ e.called = SubSeq(e.list, 1, e.at - 1)

EventsInv ==
    /\ Events!TypeOK /\ Registered
    /\ \A k \in 1 .. Len(emits) : Underway(emits[k])
    /\ spent \cap Events!Wrapping(callbacks) = {}

\* An entry of a list is a listener and what it is wrapped in.
LEMMA EntriesTyped == \A e \in Events!Entries : e.fn \in Fns /\ e.on \in Wrappers \cup {Plain}
  BY DEF Events!Entries

\* Removing a listener leaves every wrapper at most once in the list; the removed one is gone.
LEMMA RemovedKeeps ==
    ASSUME EventsInv, NEW f, NEW w, callbacks' = Events!Removed(callbacks, f, w)
    PROVE  /\ callbacks' \in Seq(Events!Entries) /\ Registered'
           /\ Events!Wrapping(callbacks') \subseteq Events!Wrapping(callbacks)
           /\ w # Plain => w \notin Events!Wrapping(callbacks')
<1>1. callbacks \in Seq(Events!Entries)
  BY DEF EventsInv, Events!TypeOK
<1>2. CASE callbacks' = callbacks /\ \A i \in 1 .. Len(callbacks) : ~ Matches(callbacks[i], f, w)
  <2>1. w # Plain => \A i \in 1 .. Len(callbacks) : callbacks[i].on # w
    BY <1>2 DEF Matches
  <2> QED  BY <1>1, <1>2, <2>1 DEF EventsInv, Registered, Events!Wrapping
<1>3. ASSUME NEW n \in 1 .. Len(callbacks), Matches(callbacks[n], f, w), callbacks' = RemovedAt(callbacks, n)
      PROVE  /\ callbacks' \in Seq(Events!Entries) /\ Registered'
             /\ Events!Wrapping(callbacks') \subseteq Events!Wrapping(callbacks)
             /\ w # Plain => w \notin Events!Wrapping(callbacks')
  <2>1. /\ callbacks' \in Seq(Events!Entries) /\ Len(callbacks') = Len(callbacks) - 1
        /\ \A i \in 1 .. Len(callbacks) - 1 :
              callbacks'[i] = IF i < n THEN callbacks[i] ELSE callbacks[i + 1]
    BY <1>1, <1>3, RemovedAtLemma
  <2> DEFINE from(i) == IF i < n THEN i ELSE i + 1
  <2>2. /\ \A i \in 1 .. Len(callbacks') : from(i) \in 1 .. Len(callbacks) /\ from(i) # n
                                           /\ callbacks'[i] = callbacks[from(i)]
        /\ \A i, j \in 1 .. Len(callbacks') : i # j => from(i) # from(j)
    BY <1>1, <2>1
  <2> HIDE DEF from
  <2>3. Registered'
    BY <2>2 DEF EventsInv, Registered
  <2>4. Events!Wrapping(callbacks') \subseteq Events!Wrapping(callbacks)
    BY <1>1, <2>1, <2>2 DEF Events!Wrapping
  <2>5. ASSUME w # Plain, w \in Events!Wrapping(callbacks') PROVE FALSE
    <3>1. callbacks[n].on = w
      BY <1>3, <2>5 DEF Matches
    <3>2. PICK i \in 1 .. Len(callbacks') : callbacks'[i].on = w
      BY <2>1, <2>5 DEF Events!Wrapping
    <3>3. callbacks[from(i)].on = w /\ from(i) # n /\ from(i) \in 1 .. Len(callbacks)
      BY <2>2, <3>2
    <3> QED  BY <2>5, <3>1, <3>3 DEF EventsInv, Registered
  <2> QED  BY <2>1, <2>3, <2>4, <2>5
<1> QED  BY <1>1, <1>2, <1>3, RemovedFirst

\* Two fields of an emission are set at once.
LEMMA Advanced ==
    ASSUME NEW e \in [list : Seq(Events!Entries), at : Nat, called : Seq(Events!Entries)], NEW x, NEW y
    PROVE  [e EXCEPT !.at = x, !.called = y] = [list |-> e.list, at |-> x, called |-> y]
<1> DEFINE r == [list |-> e.list, at |-> x, called |-> e.called]
<1>1. [e EXCEPT !.at = x] = r
  OBVIOUS
<1>2. [r EXCEPT !.called = y] = [list |-> e.list, at |-> x, called |-> y]
  OBVIOUS
<1> HIDE DEF r
<1>3. [[e EXCEPT !.at = x] EXCEPT !.called = y] = [list |-> e.list, at |-> x, called |-> y]
  BY <1>1, <1>2, Zenon
<1>4. [e EXCEPT !.at = x, !.called = y] = [[e EXCEPT !.at = x] EXCEPT !.called = y]
  BY Zenon
<1> QED  BY <1>3, <1>4, Zenon

\* At first nobody listens and nothing is emitted.
LEMMA EventsInit == ASSUME Events!Init PROVE EventsInv
  BY DEF Events!Init, EventsInv, Events!TypeOK, Registered, Events!Wrapping

\* The emitter's invariant is about the emitter's variables.
LEMMA EventsStays == ASSUME EventsInv, UNCHANGED eventVars PROVE EventsInv'
  BY DEF eventVars, EventsInv, Events!TypeOK, Registered, Events!Wrapping, Underway

\* A listener is added at the end.
LEMMA AddedKeeps ==
    ASSUME EventsInv, NEW e \in Events!Entries, Events!On(e),
           e.on = Plain \/ \A i \in 1 .. Len(callbacks) : callbacks[i].on # e.on
    PROVE  /\ callbacks' \in Seq(Events!Entries) /\ Registered'
           /\ Events!Wrapping(callbacks') \subseteq Events!Wrapping(callbacks) \cup ({e.on} \ {Plain})
<1>1. callbacks \in Seq(Events!Entries) /\ callbacks' = Append(callbacks, e)
  BY DEF EventsInv, Events!TypeOK, Events!On
<1>2. /\ callbacks' \in Seq(Events!Entries) /\ Len(callbacks') = Len(callbacks) + 1
      /\ \A i \in 1 .. Len(callbacks) : callbacks'[i] = callbacks[i]
      /\ callbacks'[Len(callbacks) + 1] = e
  BY <1>1
<1>3. \A i \in 1 .. Len(callbacks') : i \in 1 .. Len(callbacks) \/ i = Len(callbacks) + 1
  BY <1>1, <1>2
<1>4. Registered'
  BY <1>2, <1>3 DEF EventsInv, Registered
<1>5. Events!Wrapping(callbacks') \subseteq Events!Wrapping(callbacks) \cup ({e.on} \ {Plain})
  BY <1>1, <1>2, <1>3 DEF Events!Wrapping
<1> QED  BY <1>2, <1>4, <1>5

\* Every operation of the emitter keeps the invariant.
LEMMA EventsStep == ASSUME EventsInv, Events!Next PROVE EventsInv'
<1>0. /\ callbacks \in Seq(Events!Entries)
      /\ emits \in Seq([list : Seq(Events!Entries), at : Nat, called : Seq(Events!Entries)])
      /\ spent \subseteq Wrappers /\ Registered /\ spent \cap Events!Wrapping(callbacks) = {}
      /\ \A k \in 1 .. Len(emits) : Underway(emits[k])
  BY DEF EventsInv, Events!TypeOK
<1>1. CASE Events!AddListener
  <2>1. PICK f \in Fns : Events!On([fn |-> f, on |-> Plain])
    BY <1>1 DEF Events!AddListener
  <2>2. [fn |-> f, on |-> Plain] \in Events!Entries
    BY DEF Events!Entries
  <2>3. /\ callbacks' \in Seq(Events!Entries) /\ Registered'
        /\ Events!Wrapping(callbacks') \subseteq Events!Wrapping(callbacks)
    BY <2>1, <2>2, AddedKeeps
  <2> QED  BY <1>0, <1>1, <2>3 DEF Events!AddListener, EventsInv, Events!TypeOK, Underway
<1>2. CASE Events!Once
  <2>1. PICK f \in Fns, w \in Wrappers \ Events!Held :
             Events!On([fn |-> f, on |-> w]) /\ spent' = spent \ {w}
    BY <1>2 DEF Events!Once
  <2>2. [fn |-> f, on |-> w] \in Events!Entries
    BY DEF Events!Entries
  <2>3. \A i \in 1 .. Len(callbacks) : callbacks[i].on # w
    BY <1>0, <2>1 DEF Events!Held
  <2>4. /\ callbacks' \in Seq(Events!Entries) /\ Registered'
        /\ Events!Wrapping(callbacks') \subseteq Events!Wrapping(callbacks) \cup {w}
    BY <2>1, <2>2, <2>3, AddedKeeps
  <2>5. emits' = emits
    BY <1>2 DEF Events!Once
  <2> QED  BY <1>0, <2>1, <2>4, <2>5 DEF EventsInv, Events!TypeOK, Underway
<1>3. CASE Events!RemoveListener
  <2>1. PICK f \in Fns : callbacks' = Events!Removed(callbacks, f, Plain)
    BY <1>3 DEF Events!RemoveListener
  <2>2. /\ spent' = spent \cup (Events!Wrapping(callbacks) \ Events!Wrapping(callbacks'))
        /\ emits' = emits
    BY <1>3 DEF Events!RemoveListener
  <2>3. /\ callbacks' \in Seq(Events!Entries) /\ Registered'
        /\ Events!Wrapping(callbacks') \subseteq Events!Wrapping(callbacks)
    BY <2>1, RemovedKeeps
  <2>4. Events!Wrapping(callbacks) \subseteq Wrappers
    BY <1>0, EntriesTyped DEF Events!Wrapping
  <2> QED  BY <1>0, <2>2, <2>3, <2>4 DEF EventsInv, Events!TypeOK, Underway
<1>4. CASE Events!RemoveAllListeners
  <2>1. callbacks' = <<>> /\ spent' = spent \cup Events!Wrapping(callbacks) /\ emits' = emits
    BY <1>4 DEF Events!RemoveAllListeners
  <2>2. Events!Wrapping(callbacks) \subseteq Wrappers
    BY <1>0, EntriesTyped DEF Events!Wrapping
  <2>3. Events!Wrapping(callbacks') = {} /\ Registered'
    BY <2>1 DEF Events!Wrapping, Registered
  <2> QED  BY <1>0, <2>1, <2>2, <2>3 DEF EventsInv, Events!TypeOK, Underway
<1>5. CASE Events!Emit
  <2> DEFINE e == [list |-> callbacks, at |-> 1, called |-> <<>>]
             E == [list : Seq(Events!Entries), at : Nat, called : Seq(Events!Entries)]
  <2>1. emits' = <<e>> \o emits /\ callbacks' = callbacks /\ spent' = spent
    BY <1>5 DEF Events!Emit
  <2>2. e \in E /\ e.list = callbacks /\ e.at = 1 /\ e.called = <<>>
    BY <1>0
  <2>3. Underway(e)
    BY <1>0, <2>2 DEF Underway
  <2> HIDE DEF e, E
  <2>4. emits \in Seq(E)
    BY <1>0 DEF E
  <2>5. emits' \in Seq(E) /\ \A k \in 1 .. Len(emits') : emits'[k] = e \/ \E l \in 1 .. Len(emits) : emits'[k] = emits[l]
    BY <2>1, <2>2, <2>4
  <2>6. \A k \in 1 .. Len(emits') : Underway(emits'[k])
    BY <1>0, <2>3, <2>5
  <2> QED  BY <1>0, <2>1, <2>5, <2>6 DEF EventsInv, Events!TypeOK, Registered, E
<1>6. CASE Events!CallListener
  <2> DEFINE e == emits[1]
             entry == Events!Listener(e)
             E == [list : Seq(Events!Entries), at : Nat, called : Seq(Events!Entries)]
             d == [list |-> e.list, at |-> e.at + 1, called |-> Append(e.called, entry)]
  <2>1. /\ emits # <<>> /\ e.at <= Len(e.list)
        /\ emits' = [emits EXCEPT ![1].at = @ + 1, ![1].called = Append(@, entry)]
    BY <1>6 DEF Events!CallListener
  <2>2. \/ entry.on = Plain /\ callbacks' = callbacks /\ spent' = spent
        \/ /\ entry.on # Plain
           /\ callbacks' = Events!Removed(callbacks, entry.fn, entry.on)
           /\ spent' = spent \cup {entry.on}
    BY <1>6 DEF Events!CallListener
  <2>3. /\ e \in E /\ Underway(e) /\ 1 \in 1 .. Len(emits) /\ emits \in Seq(E)
        /\ e.list \in Seq(Events!Entries) /\ e.at \in Nat /\ e.called \in Seq(Events!Entries)
    <3>1. emits \in Seq(E) /\ \A k \in 1 .. Len(emits) : Underway(emits[k])
      BY <1>0
    <3>2. \A x \in E : /\ x.list \in Seq(Events!Entries) /\ x.at \in Nat
                       /\ x.called \in Seq(Events!Entries)
      OBVIOUS
    <3> HIDE DEF E
    <3>3. 1 \in 1 .. Len(emits) /\ e \in E
      BY <2>1, <3>1
    <3> QED  BY <3>1, <3>2, <3>3
  <2>4. entry \in Events!Entries /\ entry = e.list[e.at] /\ e.at \in 1 .. Len(e.list)
    BY <2>1, <2>3 DEF Events!Listener, Underway
  <2>5. d \in E /\ d.list = e.list /\ d.at = e.at + 1 /\ d.called = Append(e.called, entry)
    <3> HIDE DEF entry, e
    <3> QED  BY <2>3, <2>4
  <2>6. Underway(d)
    <3> HIDE DEF entry, e, d
    <3>1. e.called = SubSeq(e.list, 1, e.at - 1)
      BY <2>3 DEF Underway
    <3>2. Append(SubSeq(e.list, 1, e.at - 1), e.list[e.at]) = SubSeq(e.list, 1, e.at)
      BY SMTT(30), <2>3, <2>4
    <3>3. d.called = Append(SubSeq(e.list, 1, e.at - 1), e.list[e.at])
      BY <2>4, <2>5, <3>1, Zenon
    <3>4. d.called = SubSeq(d.list, 1, d.at - 1)
      <4>1. d.list = e.list /\ d.at = e.at + 1
        BY <2>5, Zenon
      <4>2. e.at \in Nat
        BY <2>3
      <4>3. d.at - 1 = e.at
        BY <4>1, <4>2
      <4> QED  BY <3>2, <3>3, <4>1, <4>3, Zenon
    <3>5. d.at \in 1 .. Len(d.list) + 1
      BY <2>3, <2>4, <2>5
    <3> QED  BY <3>4, <3>5 DEF Underway
  <2>7. emits' = [emits EXCEPT ![1] = d]
    <3>1. emits' = [emits EXCEPT ![1] = [e EXCEPT !.at = @ + 1, !.called = Append(@, entry)]]
      BY <2>1
    <3>2. [e EXCEPT !.at = @ + 1, !.called = Append(@, entry)] = d
      <4> DEFINE x == e.at + 1
                 y == Append(e.called, entry)
      <4>1. e \in [list : Seq(Events!Entries), at : Nat, called : Seq(Events!Entries)]
        BY <2>3
      <4> HIDE DEF e, entry, x, y
      <4>2. [e EXCEPT !.at = x, !.called = y] = [list |-> e.list, at |-> x, called |-> y]
        BY <4>1, Advanced
      <4> QED  BY <4>2 DEF x, y
    <3> QED  BY <3>1, <3>2
  <2>8. emits' \in Seq(E) /\ \A k \in 1 .. Len(emits') : Underway(emits'[k])
    <3> HIDE DEF d, e, E
    <3> QED  BY SMTT(30), <1>0, <2>3, <2>5, <2>6, <2>7
  <2>9. /\ callbacks' \in Seq(Events!Entries) /\ Registered'
        /\ spent' \subseteq Wrappers /\ spent' \cap Events!Wrapping(callbacks') = {}
    <3> HIDE DEF entry, e
    <3>1. CASE entry.on = Plain
      BY <1>0, <2>2, <3>1 DEF Registered
    <3>2. CASE entry.on # Plain
      <4>1. /\ callbacks' \in Seq(Events!Entries) /\ Registered'
            /\ Events!Wrapping(callbacks') \subseteq Events!Wrapping(callbacks)
            /\ entry.on \notin Events!Wrapping(callbacks')
        BY <2>2, <3>2, RemovedKeeps
      <4>2. entry.on \in Wrappers
        BY <2>4, <3>2, EntriesTyped
      <4> QED  BY <1>0, <2>2, <3>2, <4>1, <4>2
    <3> QED  BY <3>1, <3>2
  <2> QED  BY <2>8, <2>9 DEF EventsInv, Events!TypeOK
<1>7. CASE Events!EmitEnds
  <2> DEFINE E == [list : Seq(Events!Entries), at : Nat, called : Seq(Events!Entries)]
  <2>1. emits # <<>> /\ emits' = Tail(emits) /\ callbacks' = callbacks /\ spent' = spent
    BY <1>7 DEF Events!EmitEnds
  <2>2. emits' \in Seq(E) /\ \A k \in 1 .. Len(emits') : emits'[k] = emits[k + 1] /\ k + 1 \in 1 .. Len(emits)
    <3> HIDE DEF E
    <3>1. emits \in Seq(E)
      BY <1>0 DEF E
    <3> QED  BY <2>1, <3>1
  <2>3. \A k \in 1 .. Len(emits') : Underway(emits'[k])
    BY <1>0, <2>2
  <2> QED  BY <1>0, <2>1, <2>2, <2>3 DEF EventsInv, Events!TypeOK, Registered
<1> QED  BY <1>1, <1>2, <1>3, <1>4, <1>5, <1>6, <1>7 DEF Events!Next

\* With the invariant, emissions serve their listeners.
LEMMA EventsPromise == ASSUME EventsInv PROVE Served
<1>1. emits \in Seq([list : Seq(Events!Entries), at : Nat, called : Seq(Events!Entries)])
  BY DEF EventsInv, Events!TypeOK
<1>2. DOMAIN emits = 1 .. Len(emits)
  BY <1>1
<1> QED  BY <1>2 DEF EventsInv, Underway, Served, Events!Served

-----------------------------------------------------------------------------
(****************************************************************************)
(* UTF-8: the table of well-formed sequences, by the number of their       *)
(* bytes.                                                                  *)
(****************************************************************************)

Byte == 0 .. 255

\* x lies between a and b.
LEMMA InRange ==
    ASSUME NEW x \in Nat, NEW a \in Nat, NEW b \in Nat
    PROVE  x \in a .. b <=> a <= x /\ x <= b
  BY SMT

\* A byte is below 256.
LEMMA Bytes == \A b \in Byte : b \in Nat /\ b < 256
  BY SMT DEF Byte

\* s is one of the sequences that a row of the table stands for.
InRow(s, r) ==
    /\ Len(s) = r[1]
    /\ s[1] \in r[2] .. r[3]
    /\ Len(s) > 1 => s[2] \in r[4] .. r[5]
    /\ \A k \in 3 .. Len(s) : s[k] \in 128 .. 191

OneByte(s) == Len(s) = 1 /\ s[1] < 128

LongRow(s, n, a, b, c, d) ==
    /\ Len(s) = n /\ a <= s[1] /\ s[1] <= b /\ c <= s[2] /\ s[2] <= d
    /\ n > 2 => 128 <= s[3] /\ s[3] <= 191
    /\ n > 3 => 128 <= s[4] /\ s[4] <= 191

\* The row of one byte.
LEMMA RowOfOne ==
    ASSUME NEW s \in Seq(Byte), NEW a \in Nat, NEW b \in Nat
    PROVE  InRow(s, <<1, a, b, 0, 0>>) <=> Len(s) = 1 /\ a <= s[1] /\ s[1] <= b
<1> SUFFICES ASSUME Len(s) = 1
             PROVE  InRow(s, <<1, a, b, 0, 0>>) <=> a <= s[1] /\ s[1] <= b
  BY SMT DEF InRow
<1>1. s[1] \in Nat
  BY Bytes, SMT
<1>2. InRow(s, <<1, a, b, 0, 0>>) <=> s[1] \in a .. b /\ \A k \in 3 .. 1 : s[k] \in 128 .. 191
  BY SMT DEF InRow
<1>3. \A k \in 3 .. 1 : FALSE
  BY SMT
<1>4. s[1] \in a .. b <=> a <= s[1] /\ s[1] <= b
  BY <1>1, InRange, SMT
<1> QED  BY <1>2, <1>3, <1>4, Zenon

\* A row of more bytes, by the ranges of each.
LEMMA RowOfMore ==
    ASSUME NEW s \in Seq(Byte), NEW n \in {2, 3, 4},
           NEW a \in Nat, NEW b \in Nat, NEW c \in Nat, NEW d \in Nat
    PROVE  InRow(s, <<n, a, b, c, d>>) <=> LongRow(s, n, a, b, c, d)
<1> SUFFICES ASSUME Len(s) = n
             PROVE  InRow(s, <<n, a, b, c, d>>) <=> LongRow(s, n, a, b, c, d)
  BY SMT DEF InRow, LongRow
<1>1. \A k \in 1 .. n : s[k] \in Nat
  BY Bytes, SMT
<1>2. InRow(s, <<n, a, b, c, d>>) <=>
        s[1] \in a .. b /\ s[2] \in c .. d /\ \A k \in 3 .. n : s[k] \in 128 .. 191
  BY SMT DEF InRow
<1>3. (s[1] \in a .. b <=> a <= s[1] /\ s[1] <= b) /\ (s[2] \in c .. d <=> c <= s[2] /\ s[2] <= d)
  BY <1>1, InRange, SMT
<1>4. (\A k \in 3 .. n : s[k] \in 128 .. 191) <=>
        (n > 2 => 128 <= s[3] /\ s[3] <= 191) /\ (n > 3 => 128 <= s[4] /\ s[4] <= 191)
  <2>1. ASSUME NEW k \in 3 .. n PROVE s[k] \in 128 .. 191 <=> 128 <= s[k] /\ s[k] <= 191
    <3>1. s[k] \in Nat
      BY <1>1, SMT
    <3>2. \A x \in Nat : x \in 128 .. 191 <=> 128 <= x /\ x <= 191
      BY SMT
    <3> QED  BY <3>1, <3>2, Zenon
  <2>2. CASE n = 2
    <3>1. (\A k \in 3 .. n : FALSE) /\ ~ (n > 2) /\ ~ (n > 3)
      BY <2>2, SMT
    <3> QED  BY <3>1, Zenon
  <2>3. CASE n = 3
    <3>1. (\A k \in 3 .. n : k = 3) /\ 3 \in 3 .. n /\ n > 2 /\ ~ (n > 3)
      BY <2>3, SMT
    <3> QED  BY <2>1, <3>1, ZenonT(60)
  <2>4. CASE n = 4
    <3>1. (\A k \in 3 .. n : k = 3 \/ k = 4) /\ 3 \in 3 .. n /\ 4 \in 3 .. n /\ n > 2 /\ n > 3
      BY <2>4, SMT
    <3> QED  BY <2>1, <3>1, ZenonT(60)
  <2> QED  BY <2>2, <2>3, <2>4, SMT
<1>5. LongRow(s, n, a, b, c, d) <=>
        /\ a <= s[1] /\ s[1] <= b /\ c <= s[2] /\ s[2] <= d
        /\ (n > 2 => 128 <= s[3] /\ s[3] <= 191) /\ (n > 3 => 128 <= s[4] /\ s[4] <= 191)
  BY DEF LongRow
<1> QED  BY <1>2, <1>3, <1>4, <1>5, Zenon

\* The table of well-formed sequences, by the number of their bytes.
LEMMA WellFormedByLength ==
    ASSUME NEW s \in Seq(Byte)
    PROVE  Text!WellFormed(s) <=>
             \/ OneByte(s) \/ LongRow(s, 2, 194, 223, 128, 191)
             \/ LongRow(s, 3, 224, 224, 160, 191) \/ LongRow(s, 3, 225, 236, 128, 191)
             \/ LongRow(s, 3, 237, 237, 128, 159) \/ LongRow(s, 3, 238, 239, 128, 191)
             \/ LongRow(s, 4, 240, 240, 144, 191) \/ LongRow(s, 4, 241, 243, 128, 191)
             \/ LongRow(s, 4, 244, 244, 128, 143)
<1>1. Text!WellFormed(s) <=> \E r \in Text!Rows : InRow(s, r)
  BY SMT DEF Text!WellFormed, InRow
<1>2. (\E r \in Text!Rows : InRow(s, r)) <=>
        \/ InRow(s, <<1, 0, 127, 0, 0>>) \/ InRow(s, <<2, 194, 223, 128, 191>>)
        \/ InRow(s, <<3, 224, 224, 160, 191>>) \/ InRow(s, <<3, 225, 236, 128, 191>>)
        \/ InRow(s, <<3, 237, 237, 128, 159>>) \/ InRow(s, <<3, 238, 239, 128, 191>>)
        \/ InRow(s, <<4, 240, 240, 144, 191>>) \/ InRow(s, <<4, 241, 243, 128, 191>>)
        \/ InRow(s, <<4, 244, 244, 128, 143>>)
  BY SMT DEF Text!Rows
<1>3. InRow(s, <<1, 0, 127, 0, 0>>) <=> OneByte(s)
  <2>1. InRow(s, <<1, 0, 127, 0, 0>>) <=> Len(s) = 1 /\ 0 <= s[1] /\ s[1] <= 127
    BY RowOfOne, SMT
  <2>2. Len(s) = 1 => s[1] \in Nat
    BY Bytes, SMT
  <2>3. Len(s) = 1 => (s[1] <= 127 <=> s[1] < 128)
    BY <2>2, SMT
  <2>4. Len(s) = 1 => 0 <= s[1]
    BY <2>2, SMT
  <2> QED  BY <2>1, <2>3, <2>4, Zenon DEF OneByte
<1>4. InRow(s, <<2, 194, 223, 128, 191>>) <=> LongRow(s, 2, 194, 223, 128, 191)
  BY RowOfMore, SMT
<1>5. InRow(s, <<3, 224, 224, 160, 191>>) <=> LongRow(s, 3, 224, 224, 160, 191)
  BY RowOfMore, SMT
<1>6. InRow(s, <<3, 225, 236, 128, 191>>) <=> LongRow(s, 3, 225, 236, 128, 191)
  BY RowOfMore, SMT
<1>7. InRow(s, <<3, 237, 237, 128, 159>>) <=> LongRow(s, 3, 237, 237, 128, 159)
  BY RowOfMore, SMT
<1>8. InRow(s, <<3, 238, 239, 128, 191>>) <=> LongRow(s, 3, 238, 239, 128, 191)
  BY RowOfMore, SMT
<1>9. InRow(s, <<4, 240, 240, 144, 191>>) <=> LongRow(s, 4, 240, 240, 144, 191)
  BY RowOfMore, SMT
<1>10. InRow(s, <<4, 241, 243, 128, 191>>) <=> LongRow(s, 4, 241, 243, 128, 191)
  BY RowOfMore, SMT
<1>11. InRow(s, <<4, 244, 244, 128, 143>>) <=> LongRow(s, 4, 244, 244, 128, 143)
  BY RowOfMore, SMT
<1> QED  BY <1>1, <1>2, <1>3, <1>4, <1>5, <1>6, <1>7, <1>8, <1>9, <1>10, <1>11, SMTT(30)

-----------------------------------------------------------------------------
(****************************************************************************)
(* The code points of two, three and four bytes, and their bytes.          *)
(****************************************************************************)

\* What is left of the first byte, and of the others.
LEMMA FirstByte ==
    ASSUME NEW a \in Nat
    PROVE  /\ a < 192 => Text!Span(a) = 1
           /\ 192 <= a /\ a < 224 => Text!Span(a) = 2
           /\ 224 <= a /\ a < 240 => Text!Span(a) = 3
           /\ 240 <= a => Text!Span(a) = 4
  BY SMT DEF Text!Span

\* The mask of a first byte leaves the byte less its marker.
LEMMA RestOfFirst ==
    ASSUME NEW a \in Nat
    PROVE  /\ 192 <= a /\ a < 224 => a % 32 \in Nat /\ a % 32 < 32 /\ a = 192 + (a % 32)
           /\ 224 <= a /\ a < 240 => a % 16 \in Nat /\ a % 16 < 16 /\ a = 224 + (a % 16)
           /\ 240 <= a /\ a < 256 => a % 16 \in Nat /\ a % 16 < 16 /\ a = 240 + (a % 16)
<1>1. ASSUME 192 <= a, a < 224 PROVE a % 32 \in Nat /\ a % 32 < 32 /\ a = 192 + (a % 32)
  BY <1>1, SMT
<1>2. ASSUME 224 <= a, a < 240 PROVE a % 16 \in Nat /\ a % 16 < 16 /\ a = 224 + (a % 16)
  BY <1>2, SMT
<1>3. ASSUME 240 <= a, a < 256 PROVE a % 16 \in Nat /\ a % 16 < 16 /\ a = 240 + (a % 16)
  BY <1>3, SMT
<1> QED  BY <1>1, <1>2, <1>3

\* A byte that begins with the bits 10 lies between 128 and 191, and 6 bits are left of it.
LEMMA OtherByte ==
    ASSUME NEW b \in Nat, b \div 64 = 2
    PROVE  128 <= b /\ b <= 191 /\ b % 64 \in Nat /\ b % 64 < 64 /\ b = 128 + (b % 64)
  BY SMT

\* A byte between 128 and 191 begins with the bits 10.
LEMMA OtherBytes ==
    ASSUME NEW b \in Nat, 128 <= b, b <= 191
    PROVE  b \div 64 = 2
  BY SMT

\* The bytes of a code point, by its size.
OfTwo(c)   == <<192 + (c \div 64), 128 + ((c \div 1) % 64)>>
OfThree(c) == <<224 + (c \div 4096), 128 + ((c \div 64) % 64), 128 + ((c \div 1) % 64)>>
OfFour(c)  == <<240 + (c \div 262144), 128 + ((c \div 4096) % 64), 128 + ((c \div 64) % 64),
                128 + ((c \div 1) % 64)>>

\* utf8ToBytes makes one, two, three or four bytes of a code point, by its size.
LEMMA EncodedBySize ==
    ASSUME NEW c \in Nat
    PROVE  /\ c < 128 => Text!Encoded(c) = <<c>>
           /\ 127 < c /\ c < 2048 => Text!Encoded(c) = OfTwo(c)
           /\ 2047 < c /\ c < 65536 => Text!Encoded(c) = OfThree(c)
           /\ 65535 < c => Text!Encoded(c) = OfFour(c)
<1>1. Text!Encoded(c) = CASE c < 128 -> <<c>>
                          [] c >= 128 /\ c < 2048 -> OfTwo(c)
                          [] c >= 2048 /\ c < 65536 -> OfThree(c)
                          [] OTHER -> OfFour(c)
  BY SMT DEF Text!Encoded, OfTwo, OfThree, OfFour
<1> QED  BY <1>1, SMT

\* Nothing is shifted.
LEMMA Bits == \A c \in Nat : c \div 1 = c
  BY SMT

\* The code point that two, three and four bytes of the right shape stand for: it fits
\* exactly if the bytes are well formed, and UTF-8 makes the same bytes of it.
Bits2(A, B, c)       == A < 32 /\ B < 64 /\ c = A * 64 + B
Bits3(A, B, D, c)    == A < 16 /\ B < 64 /\ D < 64 /\ c = A * 4096 + B * 64 + D
Bits4(A, B, D, E, c) == /\ A < 16 /\ B < 64 /\ D < 64 /\ E < 64
                        /\ c = A * 262144 + B * 4096 + D * 64 + E

\* Two bytes with the bits A and B.
LEMMA TwoBytes ==
    ASSUME NEW A \in Nat, NEW B \in Nat, NEW c, Bits2(A, B, c)
    PROVE  /\ c \in Nat /\ c < 2048 /\ (Text!Fits(2, c) <=> A >= 2)
           /\ A >= 2 => Text!Encoded(c) = <<192 + A, 128 + B>>
<1> USE DEF Bits2
<1>1. c \in Nat /\ c < 2048
  BY SMT
<1>2. c \div 64 = A /\ c % 64 = B
  BY SMT
<1>3. OfTwo(c) = <<192 + A, 128 + B>>
  BY <1>1, <1>2, Bits DEF OfTwo
<1>4. c > 127 <=> A >= 2
  BY SMT
<1>5. Text!Fits(2, c) <=> c > 127
  BY SMT DEF Text!Fits
<1>6. A >= 2 => Text!Encoded(c) = OfTwo(c)
  <2> SUFFICES ASSUME A >= 2 PROVE Text!Encoded(c) = OfTwo(c)
    OBVIOUS
  <2>1. 127 < c
    BY <1>1, <1>4, SMT
  <2> QED  BY <1>1, <2>1, EncodedBySize, SMT
<1> QED  BY <1>1, <1>3, <1>4, <1>5, <1>6, SMT

\* Three bytes with the bits A, B and D: surrogates and over-long forms do not fit.
LEMMA ThreeBytes ==
    ASSUME NEW A \in Nat, NEW B \in Nat, NEW D \in Nat, NEW c, Bits3(A, B, D, c)
    PROVE  /\ c \in Nat /\ c < 65536
           /\ (Text!Fits(3, c) <=> (A = 0 => B >= 32) /\ (A = 13 => B < 32))
           /\ (A = 0 => B >= 32) => Text!Encoded(c) = <<224 + A, 128 + B, 128 + D>>
<1> USE DEF Bits3
<1>1. c \in Nat /\ c < 65536
  BY SMT
<1>2. c \div 4096 = A /\ (c \div 64) % 64 = B /\ c % 64 = D
  BY SMT
<1>3. OfThree(c) = <<224 + A, 128 + B, 128 + D>>
  BY <1>1, <1>2, Bits DEF OfThree
<1>4. c > 2047 <=> (A = 0 => B >= 32)
  <2>1. A = 0 => (c > 2047 <=> B >= 32)
    BY SMT
  <2>2. A # 0 => c > 2047
    BY SMT
  <2> QED  BY <2>1, <2>2
<1>5. c < 55296 \/ c > 57343 <=> (A = 13 => B < 32)
  <2>1. A = 13 => (c < 55296 <=> B < 32) /\ ~ (c > 57343)
    BY SMT
  <2>2. A < 13 => c < 55296
    BY SMT
  <2>3. A > 13 => c > 57343
    BY SMT
  <2>4. A = 13 \/ A < 13 \/ A > 13
    BY SMT
  <2> QED  BY <2>1, <2>2, <2>3, <2>4
<1>6. Text!Fits(3, c) <=> c > 2047 /\ (c < 55296 \/ c > 57343)
  BY SMT DEF Text!Fits
<1>7. (A = 0 => B >= 32) => Text!Encoded(c) = OfThree(c)
  <2> SUFFICES ASSUME A = 0 => B >= 32 PROVE Text!Encoded(c) = OfThree(c)
    OBVIOUS
  <2>1. 2047 < c
    BY <1>1, <1>4, SMT
  <2> QED  BY <1>1, <2>1, EncodedBySize, SMT
<1>8. Text!Fits(3, c) <=> (A = 0 => B >= 32) /\ (A = 13 => B < 32)
  BY <1>4, <1>5, <1>6
<1>9. (A = 0 => B >= 32) => Text!Encoded(c) = <<224 + A, 128 + B, 128 + D>>
  BY <1>3, <1>7
<1> QED  BY <1>1, <1>8, <1>9

\* Four bytes with the bits A, B, D and E: no code point is above 10FFFF.
LEMMA FourBytes ==
    ASSUME NEW A \in Nat, NEW B \in Nat, NEW D \in Nat, NEW E \in Nat, NEW c, Bits4(A, B, D, E, c)
    PROVE  /\ c \in Nat
           /\ (Text!Fits(4, c) <=> (A = 0 => B >= 16) /\ A <= 4 /\ (A = 4 => B < 16))
           /\ (Text!Fits(4, c) => c < 1114112)
           /\ (A = 0 => B >= 16) => Text!Encoded(c) = <<240 + A, 128 + B, 128 + D, 128 + E>>
<1> USE DEF Bits4
<1>1. c \in Nat
  BY SMT
<1>2. /\ c \div 262144 = A /\ (c \div 4096) % 64 = B
      /\ (c \div 64) % 64 = D /\ c % 64 = E
  BY SMT
<1>3. OfFour(c) = <<240 + A, 128 + B, 128 + D, 128 + E>>
  BY <1>1, <1>2, Bits DEF OfFour
<1>4. c > 65535 <=> (A = 0 => B >= 16)
  <2>1. A = 0 => (c > 65535 <=> B >= 16)
    BY SMT
  <2>2. A # 0 => c > 65535
    BY SMT
  <2> QED  BY <2>1, <2>2
<1>5. c < 1114112 <=> A <= 4 /\ (A = 4 => B < 16)
  <2>1. A = 4 => (c < 1114112 <=> B < 16)
    BY SMT
  <2>2. A < 4 => c < 1114112
    BY SMT
  <2>3. A > 4 => ~ (c < 1114112)
    BY SMT
  <2>4. (A = 4 \/ A < 4 \/ A > 4) /\ (A <= 4 <=> A = 4 \/ A < 4) /\ ~ (A < 4 /\ A = 4) /\ ~ (A > 4 /\ A = 4)
    BY SMT
  <2> QED  BY <2>1, <2>2, <2>3, <2>4
<1>6. Text!Fits(4, c) <=> c > 65535 /\ c < 1114112
  BY SMT DEF Text!Fits
<1>7. (A = 0 => B >= 16) => Text!Encoded(c) = OfFour(c)
  <2> SUFFICES ASSUME A = 0 => B >= 16 PROVE Text!Encoded(c) = OfFour(c)
    OBVIOUS
  <2>1. 65535 < c
    BY <1>1, <1>4, SMT
  <2> QED  BY <1>1, <2>1, EncodedBySize, SMT
<1>8. Text!Fits(4, c) <=> (A = 0 => B >= 16) /\ A <= 4 /\ (A = 4 => B < 16)
  BY <1>4, <1>5, <1>6
<1>9. (A = 0 => B >= 16) => Text!Encoded(c) = <<240 + A, 128 + B, 128 + D, 128 + E>>
  BY <1>3, <1>7
<1> QED  BY <1>1, <1>6, <1>8, <1>9

\* The code points that there are.
IsCode(c) == c \in Nat /\ c < 1114112

\* The units of a code point stand for it.
LEMMA UnitsOfCode ==
    ASSUME NEW c, IsCode(c)
    PROVE  /\ Text!Utf16(c) \in Seq(Nat) /\ Text!CodeOf(Text!Utf16(c)) = c
<1>0. c \in Nat
  BY SMT DEF IsCode
<1>1. ASSUME c < 65536 PROVE Text!Utf16(c) \in Seq(Nat) /\ Text!CodeOf(Text!Utf16(c)) = c
  <2>1. Text!Utf16(c) = <<c>>
    BY <1>0, <1>1, SMT DEF Text!Utf16
  <2>2. Text!CodeOf(<<c>>) = c
    BY SMT DEF Text!CodeOf
  <2>3. <<c>> \in Seq(Nat)
    BY <1>0, SMT
  <2> QED  BY <2>1, <2>2, <2>3, SMT
<1>2. ASSUME c > 65535 PROVE Text!Utf16(c) \in Seq(Nat) /\ Text!CodeOf(Text!Utf16(c)) = c
  <2>1. PICK x \in Nat : c = 65536 + x /\ x = c - 65536 /\ x < 1048576
    BY <1>2, SMT DEF IsCode
  <2>2. x \div 1024 \in Nat /\ x % 1024 \in Nat /\ x \div 1024 < 1024
    BY <2>1, SMT
  <2>3. (x \div 1024) % 1024 = x \div 1024
    BY <2>2, SMT
  <2>4. PICK q \in Nat, r \in Nat : q = x \div 1024 /\ r = x % 1024
    BY <2>2, SMT
  <2>5. x = q * 1024 + r
    BY <2>4, SMT
  <2> DEFINE u == <<55296 + q, 56320 + r>>
  <2>6. Text!Utf16(c) = <<55296 + ((x \div 1024) % 1024), 56320 + (x % 1024)>>
    BY <1>2, <2>1, SMT DEF Text!Utf16
  <2>7. Text!Utf16(c) = u
    BY <2>3, <2>4, <2>6, SMT
  <2>8. Text!CodeOf(u) = q * 1024 + r + 65536
    BY SMT DEF Text!CodeOf
  <2>9. q * 1024 + r + 65536 = c
    BY <2>1, <2>5, SMT
  <2>10. u \in Seq(Nat)
    BY SMT
  <2>11. Text!CodeOf(u) = c
    BY <2>8, <2>9, SMT
  <2> HIDE DEF u
  <2> QED  BY <2>7, <2>10, <2>11, SMT
<1>3. c < 65536 \/ c > 65535
  BY <1>0, SMT
<1> QED  BY <1>1, <1>2, <1>3, SMT

\* A number below 256 is a byte.
LEMMA SmallIsByte == \A x \in Nat : x < 256 => x \in Byte
  BY SMT DEF Byte

\* A byte after the first.
LEMMA TailIsByte == ASSUME NEW d \in Nat PROVE 128 + (d % 64) \in Byte
<1>1. 128 + (d % 64) \in Nat /\ 128 + (d % 64) < 256
  BY SMT
<1> QED  BY <1>1, SmallIsByte, SMT

\* UTF-8 makes bytes.
LEMMA EncodedBytes ==
    ASSUME NEW c \in Nat, IsCode(c)
    PROVE  Text!Encoded(c) \in Seq(Byte)
<1>1. c \div 64 \in Nat /\ c \div 4096 \in Nat
  BY SMT
<1>2. /\ 128 + ((c \div 1) % 64) \in Byte /\ 128 + ((c \div 64) % 64) \in Byte
      /\ 128 + ((c \div 4096) % 64) \in Byte
  <2>1. 128 + (c % 64) \in Byte
    BY TailIsByte, SMT
  <2>2. 128 + ((c \div 64) % 64) \in Byte
    BY <1>1, TailIsByte, SMT
  <2>3. 128 + ((c \div 4096) % 64) \in Byte
    BY <1>1, TailIsByte, SMT
  <2> QED  BY <2>1, <2>2, <2>3, Bits, SMT
<1>3. ASSUME c < 128 PROVE Text!Encoded(c) \in Seq(Byte)
  <2>1. Text!Encoded(c) = <<c>>
    BY <1>3, EncodedBySize, SMT
  <2>2. c \in Byte
    BY <1>3, SmallIsByte, SMT
  <2> QED  BY <2>1, <2>2, SMT
<1>4. ASSUME 127 < c, c < 2048 PROVE Text!Encoded(c) \in Seq(Byte)
  <2>1. Text!Encoded(c) = OfTwo(c)
    BY <1>4, EncodedBySize, SMT
  <2>2. 192 + (c \div 64) \in Nat /\ 192 + (c \div 64) < 256
    BY <1>4, SMT
  <2>3. 192 + (c \div 64) \in Byte
    BY <2>2, SmallIsByte, SMT
  <2> QED  BY <1>2, <2>1, <2>3, SMT DEF OfTwo
<1>5. ASSUME 2047 < c, c < 65536 PROVE Text!Encoded(c) \in Seq(Byte)
  <2>1. Text!Encoded(c) = OfThree(c)
    BY <1>5, EncodedBySize, SMT
  <2>2. 224 + (c \div 4096) \in Nat /\ 224 + (c \div 4096) < 256
    BY <1>5, SMT
  <2>3. 224 + (c \div 4096) \in Byte
    BY <2>2, SmallIsByte, SMT
  <2> QED  BY <1>2, <2>1, <2>3, SMT DEF OfThree
<1>6. ASSUME 65535 < c PROVE Text!Encoded(c) \in Seq(Byte)
  <2>1. Text!Encoded(c) = OfFour(c)
    BY <1>6, EncodedBySize, SMT
  <2>2. 240 + (c \div 262144) \in Nat /\ 240 + (c \div 262144) < 256
    BY SMT DEF IsCode
  <2>3. 240 + (c \div 262144) \in Byte
    BY <2>2, SmallIsByte, SMT
  <2> QED  BY <1>2, <2>1, <2>3, SMT DEF OfFour
<1>7. c < 128 \/ (127 < c /\ c < 2048) \/ (2047 < c /\ c < 65536) \/ 65535 < c
  BY SMT
<1> QED  BY <1>3, <1>4, <1>5, <1>6, <1>7, SMT

\* A lead surrogate.
IsLeadUnit(l) == l \in Nat /\ l > 55295 /\ l < 56320

\* What utf8ToBytes remembers between two rounds is a lead surrogate; what it has pushed,
\* and what utf8Slice reads, are bytes.
TextInv ==
    /\ loop \in {"measure", "write", "read", "done"}
    /\ text \in Seq(Units) /\ bytes \in Seq(Byte) /\ at \in Nat /\ at > 0
    /\ lead = 0 \/ IsLeadUnit(lead)
    /\ loop \in {"measure", "write"} => res = <<>>
    /\ loop = "read" => res \in Seq(Nat)

\* What others send are bytes.
LEMMA ReceivedAreBytes == Received \subseteq Byte
  BY TextAssumption, SmallIsByte, SMT

\* A text of bounded length is a text.
LEMMA SeqOfIsSeq == \A S, n : Text!SeqOf(S, n) \subseteq Seq(S)
<1> SUFFICES ASSUME NEW S, NEW n, NEW s \in Text!SeqOf(S, n) PROVE s \in Seq(S)
  OBVIOUS
<1>1. PICK m \in 0 .. n : s \in [1 .. m -> S]
  BY DEF Text!SeqOf
<1> QED  BY <1>1, SMT

\* Before the first round there is no lead.
LEMMA TextInit == ASSUME Text!Init PROVE TextInv
<1>1. /\ at = 1 /\ lead = 0 /\ res = <<>>
      /\ \/ loop = "measure" /\ text \in Text!SeqOf(Units, MaxLen) /\ bytes = <<>>
         \/ loop = "read" /\ text = <<>> /\ bytes \in Text!SeqOf(Received, MaxLen)
  BY DEF Text!Init
<1>2. Seq(Received) \subseteq Seq(Byte)
  BY ReceivedAreBytes
<1>3. at \in Nat /\ at > 0 /\ lead \in Nat /\ lead = 0
  BY <1>1, SMT
<1>4. CASE loop = "measure" /\ text \in Text!SeqOf(Units, MaxLen) /\ bytes = <<>>
  <2>1. text \in Seq(Units) /\ bytes \in Seq(Byte)
    BY <1>4, SeqOfIsSeq
  <2> QED  BY <1>1, <1>3, <1>4, <2>1, SMT DEF TextInv
<1>5. CASE loop = "read" /\ text = <<>> /\ bytes \in Text!SeqOf(Received, MaxLen)
  <2>1. text \in Seq(Units) /\ bytes \in Seq(Byte) /\ res \in Seq(Nat)
    BY <1>1, <1>2, <1>5, SeqOfIsSeq
  <2> QED  BY <1>1, <1>3, <1>5, <2>1, SMT DEF TextInv
<1> QED  BY <1>1, <1>4, <1>5, SMT

\* The invariant of the text is about its variables.
LEMMA TextStays == ASSUME TextInv, UNCHANGED textVars PROVE TextInv'
  BY SMT DEF TextInv, textVars

\* What one round of utf8ToBytes pushes.
LEMMA PushedBytes ==
    ASSUME TextInv, NEW r \in BOOLEAN, NEW c \in Nat, IsCode(c), NEW n \in Nat, n > 0,
           Text!Pushed(r, c, n)
    PROVE  bytes' \in Seq(Byte) /\ at' \in Nat /\ at' > 0
<1> DEFINE put  == IF r /\ room >= 3 THEN Text!Encoded(Text!Replacement) ELSE <<>>
           more == IF c = 0 THEN <<>> ELSE Text!Encoded(c)
<1>1. put \in Seq(Byte)
  <2>1. Text!Encoded(Text!Replacement) \in Seq(Byte)
    BY EncodedBytes, SMT DEF IsCode, Text!Replacement
  <2>2. <<>> \in Seq(Byte)
    BY SMT
  <2> QED  BY <2>1, <2>2, SMT
<1>2. more \in Seq(Byte)
  BY EncodedBytes, SMT
<1>3. \/ at' = Len(text) + 1 /\ bytes' = bytes \o put
      \/ at' = n /\ bytes' = bytes \o put \o more
  <2> DEFINE gap  == IF r THEN 3 ELSE 0
             left == IF room < gap THEN 0 ELSE room - gap
  <2>1. \/ at' = Len(text) + 1 /\ bytes' = bytes \o put /\ room' = 0
        \/ at' = n /\ bytes' = bytes \o put \o more /\ room' = left - Len(more)
    <3>1. IF Len(more) > left
          THEN at' = Len(text) + 1 /\ bytes' = bytes \o put /\ room' = 0
          ELSE at' = n /\ bytes' = bytes \o put \o more /\ room' = left - Len(more)
      BY DEF Text!Pushed
    <3>2. CASE Len(more) > left
      BY <3>1, <3>2
    <3>3. CASE ~ (Len(more) > left)
      <4> HIDE DEF put, more, gap, left
      <4> QED  BY <3>1, <3>3, Zenon
    <3> QED  BY <3>2, <3>3, Zenon
  <2> QED  BY <2>1
<1> HIDE DEF put, more
<1>4. Len(text) \in Nat /\ bytes \in Seq(Byte)
  BY SMT DEF TextInv
<1>5. bytes \o put \in Seq(Byte) /\ bytes \o put \o more \in Seq(Byte)
  BY <1>1, <1>2, <1>4, SMT
<1>6. Len(text) + 1 \in Nat /\ Len(text) + 1 > 0
  BY <1>4, SMT
<1> QED  BY <1>3, <1>5, <1>6

-----------------------------------------------------------------------------
(****************************************************************************)
(* One round of utf8Slice: what is read is well formed, and is what UTF-8  *)
(* makes of the code point.                                                *)
(****************************************************************************)

\* The span of a sequence of one byte.
LEMMA SpanOfOne ==
    ASSUME NEW s \in Seq(Byte), OneByte(s)
    PROVE  Len(s) = 1 /\ Text!Span(s[1]) = 1
<1>1. Len(s) = 1 /\ s[1] \in Nat /\ s[1] < 192
  BY Bytes, SMT DEF OneByte
<1> QED  BY <1>1, FirstByte, SMT

\* A first byte within a row has the span of the row.
LEMMA FirstInRow ==
    ASSUME NEW s \in Seq(Byte), NEW n \in {2, 3, 4}, NEW a \in Nat, NEW b \in Nat, NEW c \in Nat, NEW d \in Nat,
           LongRow(s, n, a, b, c, d), Text!Span(a) = n, Text!Span(b) = n
    PROVE  Len(s) = n /\ Text!Span(s[1]) = n
<1>1. Len(s) = n /\ a <= s[1] /\ s[1] <= b
  BY SMT DEF LongRow
<1>2. s[1] \in Nat
  BY <1>1, Bytes, SMT
<1>3. \A x \in Nat : a <= x /\ x <= b => Text!Span(x) = n
  BY SMT DEF Text!Span
<1> QED  BY <1>1, <1>2, <1>3, SMT

\* A well-formed sequence is as long as its first byte says.
LEMMA SpanOfWellFormed ==
    ASSUME NEW s \in Seq(Byte), Text!WellFormed(s)
    PROVE  Len(s) \in 1 .. 4 /\ Text!Span(s[1]) = Len(s)
<1>1. OneByte(s) => Len(s) = 1 /\ Text!Span(s[1]) = 1
  BY SpanOfOne
<1>2. LongRow(s, 2, 194, 223, 128, 191) => Len(s) = 2 /\ Text!Span(s[1]) = 2
  <2>1. Text!Span(194) = 2 /\ Text!Span(223) = 2
    BY SMT DEF Text!Span
  <2> QED  BY <2>1, FirstInRow
<1>3. LongRow(s, 3, 224, 224, 160, 191) => Len(s) = 3 /\ Text!Span(s[1]) = 3
  <2>1. Text!Span(224) = 3 /\ Text!Span(224) = 3
    BY SMT DEF Text!Span
  <2> QED  BY <2>1, FirstInRow
<1>4. LongRow(s, 3, 225, 236, 128, 191) => Len(s) = 3 /\ Text!Span(s[1]) = 3
  <2>1. Text!Span(225) = 3 /\ Text!Span(236) = 3
    BY SMT DEF Text!Span
  <2> QED  BY <2>1, FirstInRow
<1>5. LongRow(s, 3, 237, 237, 128, 159) => Len(s) = 3 /\ Text!Span(s[1]) = 3
  <2>1. Text!Span(237) = 3 /\ Text!Span(237) = 3
    BY SMT DEF Text!Span
  <2> QED  BY <2>1, FirstInRow
<1>6. LongRow(s, 3, 238, 239, 128, 191) => Len(s) = 3 /\ Text!Span(s[1]) = 3
  <2>1. Text!Span(238) = 3 /\ Text!Span(239) = 3
    BY SMT DEF Text!Span
  <2> QED  BY <2>1, FirstInRow
<1>7. LongRow(s, 4, 240, 240, 144, 191) => Len(s) = 4 /\ Text!Span(s[1]) = 4
  <2>1. Text!Span(240) = 4 /\ Text!Span(240) = 4
    BY SMT DEF Text!Span
  <2> QED  BY <2>1, FirstInRow
<1>8. LongRow(s, 4, 241, 243, 128, 191) => Len(s) = 4 /\ Text!Span(s[1]) = 4
  <2>1. Text!Span(241) = 4 /\ Text!Span(243) = 4
    BY SMT DEF Text!Span
  <2> QED  BY <2>1, FirstInRow
<1>9. LongRow(s, 4, 244, 244, 128, 143) => Len(s) = 4 /\ Text!Span(s[1]) = 4
  <2>1. Text!Span(244) = 4 /\ Text!Span(244) = 4
    BY SMT DEF Text!Span
  <2> QED  BY <2>1, FirstInRow
<1>10. \A n \in 1 .. 4 : Len(s) = n /\ Text!Span(s[1]) = n => Len(s) \in 1 .. 4 /\ Text!Span(s[1]) = Len(s)
  OBVIOUS
<1> QED  BY <1>1, <1>2, <1>3, <1>4, <1>5, <1>6, <1>7, <1>8, <1>9, <1>10, WellFormedByLength

\* The first plane is code points.
LEMMA SmallIsCode == \A c \in Nat : c < 65536 => IsCode(c)
  BY SMT DEF IsCode

\* The point that utf8Slice makes of two, three and four bytes: it is in its range, and the
\* bytes after the first begin with the bits 10, exactly for the well-formed sequences.
OfBytes2(a, b)       == (a % 32) * 64 + (b % 64)
OfBytes3(a, b, d)    == (a % 16) * 4096 + (b % 64) * 64 + (d % 64)
OfBytes4(a, b, d, e) == (a % 16) * 262144 + (b % 64) * 4096 + (d % 64) * 64 + (e % 64)

IsTail(b)  == 128 <= b /\ b <= 191

\* Two bytes whose first says two.
LEMMA PointOfTwo ==
    ASSUME NEW a \in Nat, 192 <= a, a < 224, NEW b \in Nat, IsTail(b)
    PROVE  /\ Text!Fits(2, OfBytes2(a, b)) <=> 194 <= a
           /\ 194 <= a => IsCode(OfBytes2(a, b)) /\ Text!Encoded(OfBytes2(a, b)) = <<a, b>>
<1>1. PICK A \in Nat : A = a % 32 /\ A < 32 /\ a = 192 + A
  BY SMT
<1>2. PICK B \in Nat : B = b % 64 /\ B < 64 /\ b = 128 + B
  BY SMT DEF IsTail
<1>3. PICK c : c = OfBytes2(a, b)
  OBVIOUS
<1>4. c = A * 64 + B
  BY <1>1, <1>2, <1>3, SMT DEF OfBytes2
<1>5. /\ c \in Nat /\ c < 2048 /\ (Text!Fits(2, c) <=> A >= 2)
      /\ A >= 2 => Text!Encoded(c) = <<192 + A, 128 + B>>
  <2>1. Bits2(A, B, c)
    BY <1>1, <1>2, <1>4, SMT DEF Bits2
  <2> QED  BY <2>1, TwoBytes, SMT
<1>6. A >= 2 <=> 194 <= a
  BY <1>1, SMT
<1>7. IsCode(c)
  BY <1>5, SMT DEF IsCode
<1> QED  BY <1>1, <1>2, <1>3, <1>5, <1>6, <1>7, SMT

\* Three bytes whose first says three.
LEMMA PointOfThree ==
    ASSUME NEW a \in Nat, 224 <= a, a < 240, NEW b \in Nat, IsTail(b), NEW d \in Nat, IsTail(d)
    PROVE  /\ Text!Fits(3, OfBytes3(a, b, d)) <=> (a = 224 => 160 <= b) /\ (a = 237 => b <= 159)
           /\ Text!Fits(3, OfBytes3(a, b, d)) =>
                IsCode(OfBytes3(a, b, d)) /\ Text!Encoded(OfBytes3(a, b, d)) = <<a, b, d>>
<1>1. PICK A \in Nat : A = a % 16 /\ A < 16 /\ a = 224 + A
  BY SMT
<1>2. PICK B \in Nat : B = b % 64 /\ B < 64 /\ b = 128 + B
  BY SMT DEF IsTail
<1>3. PICK D \in Nat : D = d % 64 /\ D < 64 /\ d = 128 + D
  BY SMT DEF IsTail
<1>4. PICK c : c = OfBytes3(a, b, d)
  OBVIOUS
<1>5. c = A * 4096 + B * 64 + D
  BY <1>1, <1>2, <1>3, <1>4, SMT DEF OfBytes3
<1>6. /\ c \in Nat /\ c < 65536
      /\ Text!Fits(3, c) <=> (A = 0 => B >= 32) /\ (A = 13 => B < 32)
      /\ (A = 0 => B >= 32) => Text!Encoded(c) = <<224 + A, 128 + B, 128 + D>>
  <2>1. Bits3(A, B, D, c)
    BY <1>1, <1>2, <1>3, <1>5, SMT DEF Bits3
  <2> QED  BY <2>1, ThreeBytes, SMT
<1>7. (A = 0 <=> a = 224) /\ (A = 13 <=> a = 237) /\ (B >= 32 <=> 160 <= b) /\ (B < 32 <=> b <= 159)
  BY <1>1, <1>2, SMT
<1>8. IsCode(c)
  BY <1>6, SMT DEF IsCode
<1>9. <<224 + A, 128 + B, 128 + D>> = <<a, b, d>>
  BY <1>1, <1>2, <1>3, SMT
<1> QED  BY <1>4, <1>6, <1>7, <1>8, <1>9, SMT

\* Four bytes whose first says four.
LEMMA PointOfFour ==
    ASSUME NEW a \in Nat, 240 <= a, a < 256, NEW b \in Nat, IsTail(b), NEW d \in Nat, IsTail(d),
           NEW e \in Nat, IsTail(e)
    PROVE  /\ Text!Fits(4, OfBytes4(a, b, d, e)) <=>
                (a = 240 => 144 <= b) /\ a <= 244 /\ (a = 244 => b <= 143)
           /\ Text!Fits(4, OfBytes4(a, b, d, e)) =>
                IsCode(OfBytes4(a, b, d, e)) /\ Text!Encoded(OfBytes4(a, b, d, e)) = <<a, b, d, e>>
<1>1. PICK A \in Nat : A = a % 16 /\ A < 16 /\ a = 240 + A
  BY SMT
<1>2. PICK B \in Nat : B = b % 64 /\ B < 64 /\ b = 128 + B
  BY SMT DEF IsTail
<1>3. PICK D \in Nat : D = d % 64 /\ D < 64 /\ d = 128 + D
  BY SMT DEF IsTail
<1>4. PICK E \in Nat : E = e % 64 /\ E < 64 /\ e = 128 + E
  BY SMT DEF IsTail
<1>5. PICK c : c = OfBytes4(a, b, d, e)
  OBVIOUS
<1>6. c = A * 262144 + B * 4096 + D * 64 + E
  BY <1>1, <1>2, <1>3, <1>4, <1>5, SMT DEF OfBytes4
<1>7. /\ c \in Nat
      /\ Text!Fits(4, c) <=> (A = 0 => B >= 16) /\ A <= 4 /\ (A = 4 => B < 16)
      /\ Text!Fits(4, c) => c < 1114112
      /\ (A = 0 => B >= 16) => Text!Encoded(c) = <<240 + A, 128 + B, 128 + D, 128 + E>>
  <2>1. Bits4(A, B, D, E, c)
    BY <1>1, <1>2, <1>3, <1>4, <1>6, SMT DEF Bits4
  <2>2. c \in Nat
    BY <2>1, FourBytes, SMT
  <2>3. Text!Fits(4, c) <=> (A = 0 => B >= 16) /\ A <= 4 /\ (A = 4 => B < 16)
    BY <2>1, FourBytes, SMT
  <2>4. Text!Fits(4, c) => c < 1114112
    BY <2>1, FourBytes, SMT
  <2>5. (A = 0 => B >= 16) => Text!Encoded(c) = <<240 + A, 128 + B, 128 + D, 128 + E>>
    BY <2>1, FourBytes, SMT
  <2> QED  BY <2>2, <2>3, <2>4, <2>5
<1>8. /\ (A = 0 <=> a = 240) /\ (A = 4 <=> a = 244) /\ (A <= 4 <=> a <= 244)
      /\ (B >= 16 <=> 144 <= b) /\ (B < 16 <=> b <= 143)
  BY <1>1, <1>2, SMT
<1>9. Text!Fits(4, c) => IsCode(c)
  BY <1>7, SMT DEF IsCode
<1>10. <<240 + A, 128 + B, 128 + D, 128 + E>> = <<a, b, d, e>>
  BY <1>1, <1>2, <1>3, <1>4, SMT
<1> QED  BY <1>5, <1>7, <1>8, <1>9, <1>10, SMT

\* The same of sequences of bytes.
PointOf(s) ==
    CASE Len(s) = 1 -> s[1]
      [] Len(s) = 2 -> OfBytes2(s[1], s[2])
      [] Len(s) = 3 -> OfBytes3(s[1], s[2], s[3])
      [] Len(s) = 4 -> OfBytes4(s[1], s[2], s[3], s[4])

IsRead(s) ==
    /\ \A k \in 2 .. Len(s) : s[k] \div 64 = 2
    /\ Text!Fits(Len(s), PointOf(s))

Reads(s) ==
    /\ IsRead(s) <=> Text!WellFormed(s)
    /\ IsRead(s) => IsCode(PointOf(s)) /\ Text!Encoded(PointOf(s)) = s

\* What a sequence of bytes holds.
LEMMA BytesOf ==
    ASSUME NEW s \in Seq(Byte)
    PROVE  \A k \in 1 .. Len(s) : s[k] \in Nat /\ s[k] < 256
<1>1. \A k \in 1 .. Len(s) : s[k] \in Byte
  BY SMT
<1> QED  BY <1>1, Bytes, SMT

\* The two ways to say that a byte is not the first of a character.
LEMMA TailByBits == \A b \in Nat : b \div 64 = 2 <=> IsTail(b)
  BY OtherByte, OtherBytes, SMT DEF IsTail

\* One byte is read exactly if it is well formed.
LEMMA ReadsOne ==
    ASSUME NEW s \in Seq(Byte), Len(s) = 1, Text!Span(s[1]) = 1
    PROVE  Reads(s)
<1>1. s[1] \in Nat /\ PointOf(s) = s[1]
  BY Bytes, SMT DEF PointOf
<1>2. \A k \in 2 .. Len(s) : s[k] \div 64 = 2
  BY SMT
<1>3. Text!Fits(1, s[1]) <=> s[1] < 128
  BY SMT DEF Text!Fits
<1>4. Text!WellFormed(s) <=> s[1] < 128
  BY WellFormedByLength, SMT DEF OneByte, LongRow
<1>5. s[1] < 128 => IsCode(s[1]) /\ Text!Encoded(s[1]) = s
  <2> SUFFICES ASSUME s[1] < 128 PROVE IsCode(s[1]) /\ Text!Encoded(s[1]) = s
    OBVIOUS
  <2>1. Text!Encoded(s[1]) = <<s[1]>>
    BY <1>1, EncodedBySize, SMT
  <2>2. <<s[1]>> = s
    BY <1>1, SMT
  <2>3. IsCode(s[1])
    BY <1>1, SmallIsCode, SMT
  <2> QED  BY <2>1, <2>2, <2>3, SMT
<1> QED  BY <1>1, <1>2, <1>3, <1>4, <1>5, SMT DEF Reads, IsRead

\* Two bytes are read exactly if they are well formed.
LEMMA ReadsTwo ==
    ASSUME NEW s \in Seq(Byte), Len(s) = 2, Text!Span(s[1]) = 2
    PROVE  Reads(s)
<1>1. /\ s[1] \in Nat /\ s[1] < 256 /\ s[2] \in Nat
      /\ PointOf(s) = OfBytes2(s[1], s[2]) /\ s = <<s[1], s[2]>>
  BY Bytes, SMTT(30) DEF PointOf
<1>2. 192 <= s[1] /\ s[1] < 224
  BY <1>1, FirstByte, SMT
<1>3. IsRead(s) <=> IsTail(s[2]) /\ Text!Fits(2, PointOf(s))
  <2>1. (\A k \in 2 .. Len(s) : s[k] \div 64 = 2) <=> s[2] \div 64 = 2
    BY SMT
  <2> QED  BY <1>1, <2>1, TailByBits DEF IsRead
<1>4. Text!WellFormed(s) <=> 194 <= s[1] /\ IsTail(s[2])
  <2>1. Text!WellFormed(s) <=> 194 <= s[1] /\ s[1] <= 223 /\ 128 <= s[2] /\ s[2] <= 191
    BY WellFormedByLength, SMT DEF OneByte, LongRow
  <2> QED  BY <1>1, <1>2, <2>1, SMT DEF IsTail
<1>5. IsTail(s[2]) =>
        /\ Text!Fits(2, PointOf(s)) <=> 194 <= s[1]
        /\ 194 <= s[1] => IsCode(PointOf(s)) /\ Text!Encoded(PointOf(s)) = s
  <2>1. PICK a \in Nat, b \in Nat : a = s[1] /\ b = s[2]
    BY <1>1
  <2>2. 192 <= a /\ a < 224 /\ PointOf(s) = OfBytes2(a, b) /\ s = <<a, b>>
    BY <1>1, <1>2, <2>1
  <2>3. IsTail(b) =>
          /\ Text!Fits(2, OfBytes2(a, b)) <=> 194 <= a
          /\ 194 <= a => IsCode(OfBytes2(a, b)) /\ Text!Encoded(OfBytes2(a, b)) = <<a, b>>
    BY <2>2, PointOfTwo, SMT
  <2> QED  BY <2>1, <2>2, <2>3
<1> QED  BY <1>3, <1>4, <1>5 DEF Reads

\* Three bytes are read exactly if they are well formed.
LEMMA ReadsThree ==
    ASSUME NEW s \in Seq(Byte), Len(s) = 3, Text!Span(s[1]) = 3
    PROVE  Reads(s)
<1>1. /\ s[1] \in Nat /\ s[1] < 256 /\ s[2] \in Nat /\ s[3] \in Nat
      /\ PointOf(s) = OfBytes3(s[1], s[2], s[3]) /\ s = <<s[1], s[2], s[3]>>
  <2>1. \A k \in 1 .. Len(s) : s[k] \in Nat /\ s[k] < 256
    BY BytesOf
  <2>2. s[1] \in Nat /\ s[1] < 256 /\ s[2] \in Nat /\ s[3] \in Nat
    <3>1. 1 \in 1 .. Len(s) /\ 2 \in 1 .. Len(s) /\ 3 \in 1 .. Len(s)
      BY SMT
    <3> QED  BY <2>1, <3>1
  <2>3. PointOf(s) = OfBytes3(s[1], s[2], s[3])
    BY DEF PointOf
  <2>4. s = <<s[1], s[2], s[3]>>
    BY SMT
  <2> QED  BY <2>2, <2>3, <2>4
<1>2. 224 <= s[1] /\ s[1] < 240
  BY <1>1, FirstByte, SMT
<1>3. IsRead(s) <=> IsTail(s[2]) /\ IsTail(s[3]) /\ Text!Fits(3, PointOf(s))
  <2>1. (\A k \in 2 .. Len(s) : s[k] \div 64 = 2) <=> s[2] \div 64 = 2 /\ s[3] \div 64 = 2
    BY SMT
  <2> QED  BY <1>1, <2>1, TailByBits DEF IsRead
<1>4. Text!WellFormed(s) <=>
        IsTail(s[2]) /\ IsTail(s[3]) /\ (s[1] = 224 => 160 <= s[2]) /\ (s[1] = 237 => s[2] <= 159)
  <2>1. Text!WellFormed(s) <=>
          /\ 128 <= s[3] /\ s[3] <= 191
          /\ \/ 224 <= s[1] /\ s[1] <= 224 /\ 160 <= s[2] /\ s[2] <= 191
             \/ 225 <= s[1] /\ s[1] <= 236 /\ 128 <= s[2] /\ s[2] <= 191
             \/ 237 <= s[1] /\ s[1] <= 237 /\ 128 <= s[2] /\ s[2] <= 159
             \/ 238 <= s[1] /\ s[1] <= 239 /\ 128 <= s[2] /\ s[2] <= 191
    BY WellFormedByLength, SMT DEF OneByte, LongRow
  <2> QED  BY <1>1, <1>2, <2>1, SMT DEF IsTail
<1>5. IsTail(s[2]) /\ IsTail(s[3]) =>
        /\ Text!Fits(3, PointOf(s)) <=> (s[1] = 224 => 160 <= s[2]) /\ (s[1] = 237 => s[2] <= 159)
        /\ Text!Fits(3, PointOf(s)) => IsCode(PointOf(s)) /\ Text!Encoded(PointOf(s)) = s
  <2>1. PICK a \in Nat, b \in Nat, d \in Nat : a = s[1] /\ b = s[2] /\ d = s[3]
    BY <1>1
  <2>2. 224 <= a /\ a < 240 /\ PointOf(s) = OfBytes3(a, b, d) /\ s = <<a, b, d>>
    BY <1>1, <1>2, <2>1
  <2>3. IsTail(b) /\ IsTail(d) =>
          /\ Text!Fits(3, OfBytes3(a, b, d)) <=> (a = 224 => 160 <= b) /\ (a = 237 => b <= 159)
          /\ Text!Fits(3, OfBytes3(a, b, d)) => IsCode(OfBytes3(a, b, d)) /\ Text!Encoded(OfBytes3(a, b, d)) = <<a, b, d>>
    BY <2>2, PointOfThree, SMT
  <2> QED  BY <2>1, <2>2, <2>3
<1> QED  BY <1>3, <1>4, <1>5 DEF Reads

\* Four bytes are read exactly if they are well formed.
LEMMA ReadsFour ==
    ASSUME NEW s \in Seq(Byte), Len(s) = 4, Text!Span(s[1]) = 4
    PROVE  Reads(s)
<1>1. /\ s[1] \in Nat /\ s[1] < 256 /\ s[2] \in Nat /\ s[3] \in Nat /\ s[4] \in Nat
      /\ PointOf(s) = OfBytes4(s[1], s[2], s[3], s[4]) /\ s = <<s[1], s[2], s[3], s[4]>>
  <2>1. \A k \in 1 .. Len(s) : s[k] \in Nat /\ s[k] < 256
    BY BytesOf
  <2>2. s[1] \in Nat /\ s[1] < 256 /\ s[2] \in Nat /\ s[3] \in Nat /\ s[4] \in Nat
    <3>1. 1 \in 1 .. Len(s) /\ 2 \in 1 .. Len(s)
      OBVIOUS
    <3>2. 3 \in 1 .. Len(s) /\ 4 \in 1 .. Len(s)
      OBVIOUS
    <3> QED  BY <2>1, <3>1, <3>2
  <2>3. PointOf(s) = OfBytes4(s[1], s[2], s[3], s[4])
    BY DEF PointOf
  <2>4. s = <<s[1], s[2], s[3], s[4]>>
    BY SMT
  <2> QED  BY <2>2, <2>3, <2>4
<1>2. 240 <= s[1]
  BY <1>1, FirstByte, SMT
<1>3. IsRead(s) <=> IsTail(s[2]) /\ IsTail(s[3]) /\ IsTail(s[4]) /\ Text!Fits(4, PointOf(s))
  <2>1. (\A k \in 2 .. Len(s) : s[k] \div 64 = 2) <=>
          s[2] \div 64 = 2 /\ s[3] \div 64 = 2 /\ s[4] \div 64 = 2
    BY SMT
  <2> QED  BY <1>1, <2>1, TailByBits DEF IsRead
<1>4. Text!WellFormed(s) <=>
        /\ IsTail(s[2]) /\ IsTail(s[3]) /\ IsTail(s[4])
        /\ (s[1] = 240 => 144 <= s[2]) /\ s[1] <= 244 /\ (s[1] = 244 => s[2] <= 143)
  <2>1. Text!WellFormed(s) <=>
          /\ 128 <= s[3] /\ s[3] <= 191 /\ 128 <= s[4] /\ s[4] <= 191
          /\ \/ 240 <= s[1] /\ s[1] <= 240 /\ 144 <= s[2] /\ s[2] <= 191
             \/ 241 <= s[1] /\ s[1] <= 243 /\ 128 <= s[2] /\ s[2] <= 191
             \/ 244 <= s[1] /\ s[1] <= 244 /\ 128 <= s[2] /\ s[2] <= 143
    BY WellFormedByLength, SMT DEF OneByte, LongRow
  <2> QED  BY <1>1, <1>2, <2>1, SMT DEF IsTail
<1>5. IsTail(s[2]) /\ IsTail(s[3]) /\ IsTail(s[4]) =>
        /\ Text!Fits(4, PointOf(s)) <=>
             (s[1] = 240 => 144 <= s[2]) /\ s[1] <= 244 /\ (s[1] = 244 => s[2] <= 143)
        /\ Text!Fits(4, PointOf(s)) => IsCode(PointOf(s)) /\ Text!Encoded(PointOf(s)) = s
  <2>1. PICK a \in Nat, b \in Nat, d \in Nat, e \in Nat : a = s[1] /\ b = s[2] /\ d = s[3] /\ e = s[4]
    BY <1>1
  <2>2. 240 <= a /\ a < 256 /\ PointOf(s) = OfBytes4(a, b, d, e) /\ s = <<a, b, d, e>>
    BY <1>1, <1>2, <2>1
  <2>3. IsTail(b) /\ IsTail(d) /\ IsTail(e) =>
          /\ Text!Fits(4, OfBytes4(a, b, d, e)) <=>
               (a = 240 => 144 <= b) /\ a <= 244 /\ (a = 244 => b <= 143)
          /\ Text!Fits(4, OfBytes4(a, b, d, e)) => IsCode(OfBytes4(a, b, d, e)) /\ Text!Encoded(OfBytes4(a, b, d, e)) = <<a, b, d, e>>
    BY <2>2, PointOfFour, SMT
  <2> QED  BY <2>1, <2>2, <2>3
<1> QED  BY <1>3, <1>4, <1>5 DEF Reads

\* As many bytes as the first says are read exactly if they are well formed.
LEMMA ReadsAny ==
    ASSUME NEW s \in Seq(Byte), Len(s) \in 1 .. 4, Text!Span(s[1]) = Len(s)
    PROVE  Reads(s)
<1>1. Len(s) = 1 \/ Len(s) = 2 \/ Len(s) = 3 \/ Len(s) = 4
  BY SMT
<1> QED  BY <1>1, ReadsOne, ReadsTwo, ReadsThree, ReadsFour, Zenon

\* A part of a sequence of numbers, and when two of them are the same.
LEMMA PartOf ==
    ASSUME NEW t \in Seq(Nat), NEW a \in Nat, NEW n \in Nat, a + n <= Len(t)
    PROVE  /\ SubSeq(t, a + 1, a + n) \in Seq(Nat) /\ Len(SubSeq(t, a + 1, a + n)) = n
           /\ \A i \in 1 .. n : SubSeq(t, a + 1, a + n)[i] = t[a + i]
  OBVIOUS

\* A part of a sequence of bytes.
LEMMA PartOfBytes ==
    ASSUME NEW t \in Seq(Byte), NEW a \in Nat, NEW n \in Nat, a + n <= Len(t)
    PROVE  /\ SubSeq(t, a + 1, a + n) \in Seq(Byte) /\ Len(SubSeq(t, a + 1, a + n)) = n
           /\ \A i \in 1 .. n : SubSeq(t, a + 1, a + n)[i] = t[a + i]
  OBVIOUS

\* Sequences with the same numbers are the same.
LEMMA SameNumbers ==
    ASSUME NEW u \in Seq(Nat), NEW v \in Seq(Nat), Len(u) = Len(v), \A i \in 1 .. Len(u) : u[i] = v[i]
    PROVE  u = v
  OBVIOUS

\* What a sequence ends with.
LEMMA EndOfConcat ==
    ASSUME NEW r \in Seq(Nat), NEW u \in Seq(Nat)
    PROVE  Text!IsPrefix(r, r \o u) /\ SubSeq(r \o u, Len(r) + 1, Len(r \o u)) = u
<1> DEFINE t == r \o u
           a == Len(r)
           n == Len(u)
<1>1. /\ t \in Seq(Nat) /\ Len(t) = a + n /\ a \in Nat /\ n \in Nat
      /\ \A i \in 1 .. a : t[i] = r[i]
      /\ \A i \in 1 .. n : t[a + i] = u[i]
  BY SMT
<1> HIDE DEF t, a, n
<1>2. SubSeq(t, a + 1, Len(t)) = u
  <2> DEFINE v == SubSeq(t, a + 1, a + n)
  <2>1. v \in Seq(Nat) /\ Len(v) = n /\ \A i \in 1 .. n : v[i] = t[a + i]
    <3>1. a + n <= Len(t)
      BY <1>1
    <3> QED  BY <1>1, <3>1, PartOf
  <2> HIDE DEF v
  <2>2. n = Len(u)
    BY DEF n
  <2>3. v = u
    BY <1>1, <2>1, <2>2, SameNumbers
  <2> QED  BY <1>1, <2>3 DEF v
<1>3. SubSeq(r, 1, a) = SubSeq(t, 1, a) /\ a <= Len(t)
  <2> DEFINE v == SubSeq(r, 0 + 1, 0 + a)
             w == SubSeq(t, 0 + 1, 0 + a)
  <2>1. v \in Seq(Nat) /\ Len(v) = a /\ \A i \in 1 .. a : v[i] = r[0 + i]
    <3>1. 0 + a <= Len(r) /\ a \in Nat /\ 0 \in Nat
      BY <1>1 DEF a
    <3> QED  BY <3>1, PartOf
  <2>2. w \in Seq(Nat) /\ Len(w) = a /\ \A i \in 1 .. a : w[i] = t[0 + i]
    <3>1. 0 + a <= Len(t) /\ 0 \in Nat
      BY <1>1
    <3> QED  BY <1>1, <3>1, PartOf
  <2>3. 0 + 1 = 1 /\ 0 + a = a /\ \A i \in 1 .. a : 0 + i = i
    BY <1>1
  <2>4. v = w
    <3> HIDE DEF v, w
    <3>1. \A i \in 1 .. a : v[i] = r[i]
      BY <2>1, <2>3
    <3>2. \A i \in 1 .. a : w[i] = t[i]
      BY <2>2, <2>3
    <3> QED  BY <1>1, <2>1, <2>2, <3>1, <3>2, SameNumbers
  <2> QED  BY <1>1, <2>3, <2>4
<1>4. Text!IsPrefix(r, t)
  BY <1>3 DEF Text!IsPrefix, a
<1> QED  BY <1>2, <1>4, Zenon DEF t, a

\* The bytes that a round looks at.
LEMMA FromPlace ==
    ASSUME TextInv, NEW k \in 1 .. 4, at + k - 1 <= Len(bytes)
    PROVE  /\ Text!From(k) \in Seq(Byte) /\ Len(Text!From(k)) = k
           /\ \A i \in 1 .. k : Text!From(k)[i] = bytes[at + i - 1]
<1>1. at \in Nat /\ at > 0 /\ bytes \in Seq(Byte)
  BY DEF TextInv
<1>2. at - 1 \in Nat /\ (at - 1) + k <= Len(bytes) /\ k \in Nat
  BY <1>1
<1> DEFINE s == SubSeq(bytes, (at - 1) + 1, (at - 1) + k)
<1>3. s \in Seq(Byte) /\ Len(s) = k /\ \A i \in 1 .. k : s[i] = bytes[(at - 1) + i]
  BY <1>1, <1>2, PartOfBytes
<1>4. (at - 1) + 1 = at /\ (at - 1) + k = at + k - 1 /\ \A i \in 1 .. k : (at - 1) + i = at + i - 1
  BY <1>1, SMT
<1>5. s = Text!From(k)
  BY <1>4 DEF Text!From
<1> HIDE DEF s
<1> QED  BY <1>3, <1>4, <1>5

\* A round takes a character, or finds none.
LEMMA RoundReads ==
    ASSUME TextInv, NEW k \in 1 .. 4, at + k - 1 <= Len(bytes)
    PROVE  /\ IsRead(Text!From(k)) <=> Text!Shaped(k) /\ Text!Fits(k, Text!Point(k))
           /\ PointOf(Text!From(k)) = Text!Point(k)
<1>1. at \in Nat /\ at > 0
  BY DEF TextInv
<1> DEFINE s == Text!From(k)
<1>2. Len(s) = k /\ \A i \in 1 .. k : s[i] = bytes[at + i - 1]
  BY FromPlace
<1> HIDE DEF s
<1>3. (\A i \in 2 .. Len(s) : s[i] \div 64 = 2) <=> Text!Shaped(k)
  <2>1. Text!Shaped(k) <=> \A i \in 1 .. k - 1 : bytes[at + i] \div 64 = 2
    BY DEF Text!Shaped
  <2>2. ASSUME \A i \in 1 .. k - 1 : bytes[at + i] \div 64 = 2, NEW i \in 2 .. Len(s)
        PROVE  s[i] \div 64 = 2
    <3>1. i - 1 \in 1 .. k - 1 /\ s[i] = bytes[at + (i - 1)]
      BY <1>1, <1>2
    <3> QED  BY <2>2, <3>1
  <2>3. ASSUME \A i \in 2 .. Len(s) : s[i] \div 64 = 2, NEW i \in 1 .. k - 1
        PROVE  bytes[at + i] \div 64 = 2
    <3>1. i + 1 \in 2 .. Len(s) /\ s[i + 1] = bytes[at + i]
      BY <1>1, <1>2
    <3> QED  BY <2>3, <3>1
  <2> QED  BY <2>1, <2>2, <2>3
<1>4. PointOf(s) = Text!Point(k)
  <2>1. CASE k = 1
    <3>1. s[1] = bytes[at]
      BY <1>1, <1>2, <2>1
    <3>2. Text!Point(1) = bytes[at]
      BY DEF Text!Point
    <3>3. PointOf(s) = s[1]
      BY <1>2, <2>1 DEF PointOf
    <3> QED  BY <2>1, <3>1, <3>2, <3>3
  <2>2. CASE k = 2
    <3>1. s[1] = bytes[at] /\ s[2] = bytes[at + 1]
      BY <1>1, <1>2, <2>2
    <3>2. Text!Point(2) = OfBytes2(bytes[at], bytes[at + 1])
      BY DEF Text!Point, OfBytes2
    <3>3. PointOf(s) = OfBytes2(s[1], s[2])
      BY <1>2, <2>2 DEF PointOf
    <3> QED  BY <2>2, <3>1, <3>2, <3>3
  <2>3. CASE k = 3
    <3>1. s[1] = bytes[at] /\ s[2] = bytes[at + 1] /\ s[3] = bytes[at + 2]
      BY <1>1, <1>2, <2>3
    <3>2. Text!Point(3) = OfBytes3(bytes[at], bytes[at + 1], bytes[at + 2])
      BY DEF Text!Point, OfBytes3
    <3>3. PointOf(s) = OfBytes3(s[1], s[2], s[3])
      BY <1>2, <2>3 DEF PointOf
    <3> QED  BY <2>3, <3>1, <3>2, <3>3
  <2>4. CASE k = 4
    <3>1. s[1] = bytes[at] /\ s[2] = bytes[at + 1] /\ s[3] = bytes[at + 2] /\ s[4] = bytes[at + 3]
      BY <1>1, <1>2, <2>4
    <3>2. Text!Point(4) = OfBytes4(bytes[at], bytes[at + 1], bytes[at + 2], bytes[at + 3])
      BY SMT DEF Text!Point, OfBytes4
    <3>3. PointOf(s) = OfBytes4(s[1], s[2], s[3], s[4])
      BY <1>2, <2>4 DEF PointOf
    <3> QED  BY <2>4, <3>1, <3>2, <3>3
  <2> QED  BY <2>1, <2>2, <2>3, <2>4
<1>5. IsRead(s) <=> Text!Shaped(k) /\ Text!Fits(k, Text!Point(k))
  BY <1>2, <1>3, <1>4 DEF IsRead
<1> QED  BY <1>4, <1>5 DEF s

\* The promise of a round of utf8Slice.
Promise ==
    \/ /\ Text!WellFormed(Text!From(at' - at))
       /\ Text!IsPrefix(res, res')
       /\ Text!Encoded(Text!CodeOf(SubSeq(res', Len(res) + 1, Len(res')))) = Text!From(at' - at)
    \/ /\ at' = at + 1 /\ res' = Append(res, Text!Replacement)
       /\ \A k \in 1 .. 4 : at + k - 1 <= Len(bytes) => ~ Text!WellFormed(Text!From(k))

\* A round of utf8Slice keeps its promise.
LEMMA RoundKeepsPromise ==
    ASSUME TextInv, Text!ReadRound
    PROVE  Promise /\ res' \in Seq(Nat) /\ at' \in Nat /\ at' > 0
<1>1. at \in Nat /\ at > 0 /\ at <= Len(bytes) /\ bytes \in Seq(Byte) /\ res \in Seq(Nat)
  BY DEF TextInv, Text!ReadRound
<1> DEFINE n == Text!Span(bytes[at])
<1>2. n \in 1 .. 4
  BY DEF Text!Span
<1>3. \/ /\ Text!Shaped(n) /\ Text!Fits(n, Text!Point(n))
         /\ res' = res \o Text!Utf16(Text!Point(n)) /\ at' = at + n
      \/ /\ ~ (Text!Shaped(n) /\ Text!Fits(n, Text!Point(n)))
         /\ res' = Append(res, Text!Replacement) /\ at' = at + 1
  BY SMT DEF Text!ReadRound
<1> HIDE DEF n
<1>4. ASSUME NEW k \in 1 .. 4, at + k - 1 <= Len(bytes)
      PROVE  Text!From(k) \in Seq(Byte) /\ Len(Text!From(k)) = k /\ Text!From(k)[1] = bytes[at]
  <2>1. 1 \in 1 .. k /\ at + 1 - 1 = at
    BY <1>1
  <2>2. Text!From(k) \in Seq(Byte) /\ Len(Text!From(k)) = k /\ Text!From(k)[1] = bytes[at + 1 - 1]
    BY <1>4, <2>1, FromPlace
  <2> QED  BY <2>1, <2>2
<1>5. ASSUME at + n - 1 <= Len(bytes)
      PROVE  /\ Reads(Text!From(n)) /\ PointOf(Text!From(n)) = Text!Point(n)
             /\ IsRead(Text!From(n)) <=> Text!Shaped(n) /\ Text!Fits(n, Text!Point(n))
  <2>1. Text!From(n) \in Seq(Byte) /\ Len(Text!From(n)) \in 1 .. 4
        /\ Text!Span(Text!From(n)[1]) = Len(Text!From(n))
    BY <1>2, <1>4, <1>5 DEF n
  <2>2. Reads(Text!From(n))
    BY <2>1, ReadsAny
  <2> QED  BY <1>2, <1>5, <2>2, RoundReads
<1>6. CASE /\ Text!Shaped(n) /\ Text!Fits(n, Text!Point(n))
           /\ res' = res \o Text!Utf16(Text!Point(n)) /\ at' = at + n
  <2> DEFINE s == Text!From(n)
             p == Text!Point(n)
             u == Text!Utf16(p)
  <2>1. at + n - 1 <= Len(bytes)
    BY <1>6 DEF Text!Shaped
  <2>2. Text!WellFormed(s) /\ IsCode(p) /\ Text!Encoded(p) = s
    BY <1>5, <1>6, <2>1 DEF Reads
  <2>3. u \in Seq(Nat) /\ Text!CodeOf(u) = p
    BY <2>2, UnitsOfCode
  <2>4. at' - at = n
    BY <1>1, <1>2, <1>6
  <2>5. res' = res \o u
    BY <1>6
  <2> HIDE DEF u, p, s
  <2>6. Text!IsPrefix(res, res') /\ SubSeq(res', Len(res) + 1, Len(res')) = u /\ res' \in Seq(Nat)
    BY <1>1, <2>3, <2>5, EndOfConcat
  <2>7. at' \in Nat /\ at' > 0
    BY <1>1, <1>2, <1>6
  <2> QED  BY <2>2, <2>3, <2>4, <2>6, <2>7 DEF Promise, s
<1>7. CASE /\ ~ (Text!Shaped(n) /\ Text!Fits(n, Text!Point(n)))
           /\ res' = Append(res, Text!Replacement) /\ at' = at + 1
  <2>1. ASSUME NEW k \in 1 .. 4, at + k - 1 <= Len(bytes), Text!WellFormed(Text!From(k))
        PROVE  FALSE
    <3>1. k = n
      BY <1>4, <2>1, SpanOfWellFormed DEF n
    <3> QED  BY <1>5, <1>7, <2>1, <3>1 DEF Reads
  <2>2. res' \in Seq(Nat)
    BY <1>1, <1>7 DEF Text!Replacement
  <2>3. at' \in Nat /\ at' > 0
    BY <1>1, <1>7
  <2> QED  BY <1>7, <2>1, <2>2, <2>3 DEF Promise
<1> QED  BY <1>3, <1>6, <1>7

\* The unit that a round of utf8ToBytes looks at.
LEMMA UnitAt ==
    ASSUME TextInv, at <= Len(text)
    PROVE  text[at] \in Nat /\ text[at] < 65536
<1>1. text[at] \in Units
  BY SMT DEF TextInv
<1> QED  BY <1>1, TextAssumption, SMT

\* The code points that utf8ToBytes encodes are code points.
LEMMA CodeOfUnit == \A c \in Nat : c < 65536 => IsCode(c)
  BY SMT DEF IsCode

\* What utf8ToBytes takes for a lead is a lead.
LEMMA LeadIsLead == \A u \in Nat : Text!IsLead(u) => IsLeadUnit(u)
  BY SMT DEF Text!IsLead, IsLeadUnit

\* A surrogate pair stands for a code point.
LEMMA CodeOfPair ==
    ASSUME NEW l, IsLeadUnit(l), NEW t \in Nat, Text!IsTrail(t)
    PROVE  Text!PairCode(l, t) \in Nat /\ IsCode(Text!PairCode(l, t))
  BY SMT DEF IsCode, Text!IsTrail, IsLeadUnit, Text!PairCode

\* A round of utf8ToBytes that pushes a code point, and then remembers a lead or none.
Pushes(r, c) ==
    /\ loop \in {"measure", "write"} /\ Text!Pushed(r, c, at + 1)
    /\ (lead' = 0 \/ IsLeadUnit(lead'))
    /\ loop' = loop /\ text' = text /\ res' = res

\* A round that pushes keeps the invariant of the text.
LEMMA PushStep ==
    ASSUME TextInv, NEW r \in BOOLEAN, NEW c \in Nat, IsCode(c), Pushes(r, c)
    PROVE  TextInv'
<1>1. at + 1 \in Nat /\ at + 1 > 0
  BY SMT DEF TextInv
<1>2. Text!Pushed(r, c, at + 1)
  BY DEF Pushes
<1>3. bytes' \in Seq(Byte) /\ at' \in Nat /\ at' > 0
  BY <1>1, <1>2, PushedBytes
<1>4. /\ loop' \in {"measure", "write"} /\ text' \in Seq(Units) /\ res' = <<>>
      /\ (lead' = 0 \/ IsLeadUnit(lead'))
  BY SMT DEF TextInv, Pushes
<1> QED  BY <1>3, <1>4, SMT DEF TextInv

\* Every round of utf8ToBytes and utf8Slice keeps the invariant of the text.
LEMMA TextStep == ASSUME TextInv, Text!Next PROVE TextInv'
<1>0. 0 \in Nat /\ IsCode(0)
  BY CodeOfUnit, SMT
<1>1. CASE Text!FirstSurrogate
  <2>1. loop \in {"measure", "write"} /\ at <= Len(text) /\ UNCHANGED <<loop, text, res, length>>
    BY <1>1 DEF Text!FirstSurrogate, Text!Writing
  <2>2. CASE Text!Pushed(TRUE, 0, at + 1) /\ lead' = lead
    <3>1. lead' = 0 \/ IsLeadUnit(lead')
      BY <2>2 DEF TextInv
    <3>2. Pushes(TRUE, 0)
      BY <2>1, <2>2, <3>1 DEF Pushes
    <3> QED  BY <1>0, <3>2, PushStep
  <2>3. CASE Text!IsLead(text[at]) /\ lead' = text[at] /\ at' = at + 1 /\ bytes' = bytes
    <3>1. IsLeadUnit(lead')
      BY <2>1, <2>3, UnitAt, LeadIsLead
    <3> QED  BY <2>1, <2>3, <3>1, SMT DEF TextInv
  <2> QED  BY <1>1, <2>2, <2>3 DEF Text!FirstSurrogate
<1>2. CASE Text!TwoLeads
  <2>1. /\ loop \in {"measure", "write"} /\ at <= Len(text) /\ UNCHANGED <<loop, text, res, length>>
        /\ Text!IsLead(text[at]) /\ Text!Pushed(TRUE, 0, at + 1) /\ lead' = text[at]
    BY <1>2 DEF Text!TwoLeads, Text!Writing
  <2>2. IsLeadUnit(lead')
    BY <2>1, UnitAt, LeadIsLead
  <2>3. Pushes(TRUE, 0)
    BY <2>1, <2>2 DEF Pushes
  <2> QED  BY <1>0, <2>3, PushStep
<1>3. CASE Text!SurrogatePair
  <2>1. /\ loop \in {"measure", "write"} /\ at <= Len(text) /\ UNCHANGED <<loop, text, res, length>>
        /\ lead # 0 /\ Text!IsTrail(text[at]) /\ lead' = 0
    BY <1>3 DEF Text!SurrogatePair, Text!Writing
  <2>2. Text!Pushed(FALSE, Text!PairCode(lead, text[at]), at + 1)
    BY <1>3, Zenon DEF Text!SurrogatePair
  <2>3. IsLeadUnit(lead) /\ text[at] \in Nat
    BY <2>1, UnitAt, SMT DEF TextInv
  <2>4. Text!PairCode(lead, text[at]) \in Nat /\ IsCode(Text!PairCode(lead, text[at]))
    BY <2>1, <2>3, CodeOfPair
  <2>5. Pushes(FALSE, Text!PairCode(lead, text[at]))
    BY <2>1, <2>2 DEF Pushes
  <2> QED  BY <2>4, <2>5, PushStep
<1>4. CASE Text!Character
  <2>1. /\ loop \in {"measure", "write"} /\ at <= Len(text) /\ UNCHANGED <<loop, text, res, length>>
        /\ Text!Pushed(lead # 0, text[at], at + 1) /\ lead' = 0
    BY <1>4 DEF Text!Character, Text!Writing
  <2>2. text[at] \in Nat /\ IsCode(text[at])
    BY <2>1, UnitAt, CodeOfUnit, SMT
  <2>3. lead' = 0 \/ IsLeadUnit(lead')
    BY <2>1, SMT
  <2>4. (lead # 0) \in BOOLEAN
    OBVIOUS
  <2>5. Pushes(lead # 0, text[at])
    BY <2>1, <2>3 DEF Pushes
  <2> QED  BY <2>2, <2>4, <2>5, PushStep
<1>5. CASE Text!Measured
  <2>1. loop' = "write" /\ at' = 1 /\ lead' = 0 /\ bytes' = <<>> /\ text' = text /\ res' = res /\ loop = "measure"
    BY <1>5 DEF Text!Measured
  <2> QED  BY <2>1, SMT DEF TextInv
<1>6. CASE Text!Written
  <2>1. /\ loop = "write" /\ loop' = "read" /\ at' = 1 /\ lead' = lead /\ bytes' = bytes
        /\ text' = text /\ res' = res
    BY <1>6 DEF Text!Written
  <2> QED  BY <2>1, SMT DEF TextInv
<1>7. CASE Text!ReadRound
  <2>1. loop = "read" /\ loop' = loop /\ text' = text /\ lead' = lead /\ bytes' = bytes
    BY <1>7 DEF Text!ReadRound
  <2>2. res' \in Seq(Nat) /\ at' \in Nat /\ at' > 0
    BY <1>7, RoundKeepsPromise
  <2> QED  BY <2>1, <2>2, SMT DEF TextInv
<1>8. CASE Text!ReadEnds
  <2>1. loop' = "done" /\ text' = text /\ lead' = lead /\ bytes' = bytes /\ at' = at
    BY <1>8 DEF Text!ReadEnds
  <2> QED  BY <2>1, SMT DEF TextInv
<1> QED  BY <1>1, <1>2, <1>3, <1>4, <1>5, <1>6, <1>7, <1>8, SMT DEF Text!Next

-----------------------------------------------------------------------------
(****************************************************************************)
(* The theorems.                                                           *)
(****************************************************************************)

PartsInv == NodeInv /\ EventsInv /\ TextInv

\* The three invariants hold together; a part's step leaves the variables of the others.
LEMMA PartsInductive == PartsSpec => []PartsInv
<1>1. ASSUME PartsInit PROVE PartsInv
  <2>1. Node!Init /\ Events!Init /\ Text!Init
    BY <1>1 DEF PartsInit
  <2> QED  BY <2>1, NodeInit, EventsInit, TextInit DEF PartsInv
<1>2. ASSUME PartsInv, [PartsNext]_partsVars PROVE PartsInv'
  <2>1. NodeInv'
    <3>1. CASE Node!Next
      BY <1>2, <3>1, NodeStep DEF PartsInv
    <3>2. CASE UNCHANGED nodeVars
      BY <1>2, <3>2, NodeStays DEF PartsInv
    <3>3. Node!Next \/ UNCHANGED nodeVars
      BY <1>2 DEF PartsNext, partsVars
    <3> QED  BY <3>1, <3>2, <3>3
  <2>2. EventsInv'
    <3>1. CASE Events!Next
      BY <1>2, <3>1, EventsStep DEF PartsInv
    <3>2. CASE UNCHANGED eventVars
      BY <1>2, <3>2, EventsStays DEF PartsInv
    <3>3. Events!Next \/ UNCHANGED eventVars
      BY <1>2 DEF PartsNext, partsVars
    <3> QED  BY <3>1, <3>2, <3>3
  <2>3. TextInv'
    <3>1. CASE Text!Next
      BY <1>2, <3>1, TextStep DEF PartsInv
    <3>2. CASE UNCHANGED textVars
      BY <1>2, <3>2, TextStays DEF PartsInv
    <3>3. Text!Next \/ UNCHANGED textVars
      BY <1>2 DEF PartsNext, partsVars
    <3> QED  BY <3>1, <3>2, <3>3
  <2> QED  BY <2>1, <2>2, <2>3 DEF PartsInv
<1> QED  BY <1>1, <1>2, PTL DEF PartsSpec

\* The emitter's listeners and emissions, and the worker's tokens and announcements, keep
\* their types (component-emitter's _callbacks; socket.authToken in worker.js).
THEOREM PartsTypesCorrect == PartsSpec => []PartsTypeOK
<1>1. PartsInv => PartsTypeOK
  BY DEF PartsInv, NodeInv, EventsInv, PartsTypeOK
<1> QED  BY <1>1, PartsInductive, PTL

\* An emission calls those who listened when it began, in their order, although they add
\* and remove listeners; a listener for one call is gone once it was called (emit, once
\* and off of component-emitter).
THEOREM EmissionIsServed == PartsSpec => []Served
<1>1. PartsInv => Served
  BY EventsPromise DEF PartsInv
<1> QED  BY <1>1, PartsInductive, PTL

\* Operators are never left with somebody who has gone: whoever was announced as present
\* on one chat or site, and on no other, is connected (worker.js's 'disconnect' handler
\* announces the departure to where the token says).
THEOREM NobodyIsLeftBehind == PartsSpec => []NobodyLeft
<1>1. PartsInv => NobodyLeft
  BY NodePromise DEF PartsInv
<1> QED  BY <1>1, PartsInductive, PTL

\* Of whatever bytes, a round of utf8Slice takes exactly the well-formed sequence of one
\* character and adds its units, or there is none, and it replaces one byte: the masks and
\* ranges of utf8Slice accept the sequences of the definition of UTF-8 and no others.
THEOREM ReadByCharacter == PartsSpec => CharacterByCharacter
<1>1. ASSUME PartsInv
      PROVE  [Text!ReadRound =>
                \/ /\ Text!WellFormed(Text!From(at' - at))
                   /\ Text!IsPrefix(res, res')
                   /\ Text!Encoded(Text!CodeOf(SubSeq(res', Len(res) + 1, Len(res')))) = Text!From(at' - at)
                \/ /\ at' = at + 1 /\ res' = Append(res, Text!Replacement)
                   /\ \A k \in 1 .. 4 : at + k - 1 <= Len(bytes) => ~ Text!WellFormed(Text!From(k))]_(Text!vars)
  BY <1>1, RoundKeepsPromise DEF PartsInv, Promise
<1> QED  BY <1>1, PartsInductive, PTL DEF CharacterByCharacter, Text!CharacterByCharacter
=============================================================================
