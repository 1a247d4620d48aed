----------------------------- MODULE EmitBuffer -----------------------------
(***************************************************************************)
(* The emit buffer as it is built: the doubly linked list of linked-list   *)
(* (in socketcluster.js), whose tail is null while it has one item, walked *)
(* by the client while the callbacks it calls add to it and walk it again. *)
(***************************************************************************)
EXTENDS Naturals, Sequences, SequencesExt

CONSTANTS
    Items,      \* the list items under way
    Nil,        \* null
    MaxWalks    \* bound: walks inside each other

ASSUME BufferAssumption == Nil \notin Items /\ MaxWalks \in Nat

VARIABLES
    head, tail, \* List.head, List.tail
    next, prev, \* ListItem.next, ListItem.prev
    linked,     \* the items whose list is set
    walks,      \* currentNode of the walks under way, the innermost first
    due         \* history: what was in the list when the outermost walk began, and still is

pointerVars == <<head, tail, next, prev, linked>>
listVars     == <<pointerVars, walks, due>>

Links == Items \cup {Nil}

Unlinked_Undefined == [i \in Items |-> <<>>]
Unlinked == [i \in Items |-> Nil]

ListInit ==
    /\ head = Nil /\ tail = Nil
    /\ next = Unlinked /\ prev = Unlinked
    /\ linked = {} /\ walks = <<>> /\ due = {}

\* Item.append: put i after the item last.
InsertAfter(last, i) ==
    /\ next' = [next EXCEPT ![last] = i, ![i] = next[last]]
    /\ prev' = [j \in Items |-> IF j = i THEN last
                                ELSE IF j = next[last] THEN i ELSE prev[j]]
    /\ tail' = (IF last = tail \/ tail = Nil THEN i ELSE tail)
    /\ linked' = linked \cup {i}
    /\ UNCHANGED head

AppendItem_OneItemTail(i) ==
    LET last == IF tail # Nil THEN tail ELSE head IN
    IF last = Nil
    THEN head' = i /\ tail' = i /\ linked' = linked \cup {i} /\ UNCHANGED <<next, prev>>
    ELSE InsertAfter(last, i)

AppendItem_ToHead(i) ==
    IF head = Nil
    THEN head' = i /\ linked' = linked \cup {i} /\ UNCHANGED <<tail, next, prev>>
    ELSE InsertAfter(head, i)

\* List.append of a new item: after the tail, or after the head if there is no tail;
\* the first item becomes the head alone.
AppendItem(i) ==
    LET last == IF tail # Nil THEN tail ELSE head IN
    IF last = Nil
    THEN head' = i /\ linked' = linked \cup {i} /\ UNCHANGED <<tail, next, prev>>
    ELSE InsertAfter(last, i)

\* Item.detach: the tail is null again when one item is left.
Detach(i) ==
    IF i \notin linked THEN UNCHANGED pointerVars
    ELSE LET h == IF head = i THEN next[i] ELSE head
             t == IF tail = i THEN prev[i] ELSE tail IN
         /\ head' = h
         /\ tail' = IF t = h THEN Nil ELSE t
         /\ next' = [j \in Items |-> IF j = i THEN Nil ELSE IF j = prev[i] THEN next[i] ELSE next[j]]
         /\ prev' = [j \in Items |-> IF j = i THEN Nil ELSE IF j = next[i] THEN prev[i] ELSE prev[j]]
         /\ linked' = linked \ {i}

\* _emit, in a task of its own or in a callback of a walk.
ListEmit(i) ==
    /\ i \notin linked /\ i \notin ToSet(walks)
    /\ AppendItem(i)
    /\ UNCHANGED <<walks, due>>

\* _handleEventAckTimeout: a task of its own.
ListAckTimeout(i) ==
    /\ walks = <<>>
    /\ due' = due \ {i}
    /\ Detach(i)
    /\ UNCHANGED walks

\* The start of _flushEmitBuffer and of _abortAllPendingEventsDueToBadConnection;
\* the callbacks of a walk may start another.
WalkBegins ==
    /\ Len(walks) < MaxWalks
    /\ walks' = <<head>> \o walks
    /\ due' = IF walks = <<>> THEN linked ELSE due
    /\ UNCHANGED pointerVars

WalkTakes_NextAfterDetach ==
    /\ walks # <<>> /\ Head(walks) # Nil
    /\ due' = due \ {Head(walks)}
    /\ Detach(Head(walks))
    /\ walks' = [walks EXCEPT ![1] = next'[@]]

\* One round of their loop, up to the callback.
WalkTakes ==
    /\ walks # <<>> /\ Head(walks) # Nil
    /\ walks' = [walks EXCEPT ![1] = next[@]]
    /\ due' = due \ {Head(walks)}
    /\ Detach(Head(walks))

WalkEnds ==
    /\ walks # <<>> /\ Head(walks) = Nil
    /\ walks' = Tail(walks)
    /\ UNCHANGED <<pointerVars, due>>

ListNext == (\E i \in Items : ListEmit(i) \/ ListAckTimeout(i)) \/ WalkBegins \/ WalkTakes \/ WalkEnds

ListSpec == ListInit /\ [][ListNext]_listVars

-----------------------------------------------------------------------------
\* Every variable has its type.
ListTypeOK ==
    /\ head \in Links /\ tail \in Links
    /\ next \in [Items -> Links] /\ prev \in [Items -> Links]
    /\ linked \subseteq Items /\ due \subseteq Items
    /\ walks \in Seq(Links)

LastItem == IF tail = Nil THEN head ELSE tail

DetachedNowhere == \A i \in Items \ linked : next[i] = Nil /\ prev[i] = Nil
NextLinked == \A i \in linked : next[i] # Nil => next[i] \in linked /\ prev[next[i]] = i
PrevLinked == \A i \in linked : prev[i] # Nil => prev[i] \in linked /\ next[prev[i]] = i
HeadFirst  == \A i \in linked : prev[i] = Nil <=> i = head
TailLast   == \A i \in linked : next[i] = Nil <=> i = LastItem
NoCycle    == \A S \in SUBSET linked : S # {} => \E i \in S : prev[i] \notin S
EndsLinked == /\ head = Nil => tail = Nil
              /\ head # Nil => head \in linked
              /\ tail # Nil => tail \in linked /\ tail # head

\* The pointers belong together: next and prev are inverse, only the head has no
\* predecessor and only the last item no successor, the tail is null exactly while it
\* would be the head, there is no circle beside the list, and a detached item points
\* nowhere (Item.append, Item.detach).
WellLinked == DetachedNowhere /\ NextLinked /\ PrevLinked /\ HeadFirst /\ TailLast /\ EndsLinked /\ NoCycle

\* What was waiting when a walk began has been handed out when it is over, although
\* other walks were begun in the middle and may have taken the item it was to take
\* next (currentNode = nextNode).
WalkedToTheEnd == walks = <<>> => due = {}

\* The items from the head on.
Contents ==
    LET at[n \in Nat] == IF n = 0 THEN head ELSE IF at[n - 1] = Nil THEN Nil ELSE next[at[n - 1]]
        len == CHOOSE n \in 0 .. Cardinality(linked) : at[n] = Nil /\ \A k \in 0 .. n - 1 : at[k] # Nil
    IN  [n \in 1 .. len |-> at[n - 1]]

\* The list behaves as the queue that SCClient models (_emitBuffer).
Queue == INSTANCE EmitQueue WITH queue <- Contents
ImplementsQueue == Queue!QueueSpec

=============================================================================
