----------------------------- MODULE EmitQueue ------------------------------
(***************************************************************************)
(* What the emit buffer of the client promises, and what SCClient takes    *)
(* for granted of it: a queue of events that one may append to at any      *)
(* time, also in the middle of a walk.  A walk (_flushEmitBuffer, and      *)
(* _abortAllPendingEventsDueToBadConnection) takes the items from the      *)
(* head on; before it hands out an item it notes which item comes next.    *)
(***************************************************************************)
EXTENDS Naturals, Sequences, SequencesExt, Sublists

CONSTANTS
    Items,      \* the list items under way
    Nil,        \* null
    MaxWalks    \* bound: walks inside each other

VARIABLES
    queue,      \* the events in the order of their emit
    walks       \* the items at which the walks stand, the innermost first

NextOf(e) == IF \E i \in 1 .. Len(queue) - 1 : queue[i] = e
             THEN queue[(CHOOSE i \in 1 .. Len(queue) - 1 : queue[i] = e) + 1]
             ELSE Nil
QueueWithout(e) == Without(queue, LAMBDA x : x = e)

QueueInit == queue = <<>> /\ walks = <<>>

Emitted(e) ==
    /\ e \notin ToSet(queue) \cup ToSet(walks)
    /\ queue' = Append(queue, e)
    /\ UNCHANGED walks

TimedOut(e) ==
    /\ walks = <<>>
    /\ queue' = QueueWithout(e)
    /\ UNCHANGED walks

Begins ==
    /\ Len(walks) < MaxWalks
    /\ walks' = <<IF queue = <<>> THEN Nil ELSE Head(queue)>> \o walks
    /\ UNCHANGED queue

Takes ==
    /\ walks # <<>> /\ Head(walks) # Nil
    /\ walks' = <<NextOf(Head(walks))>> \o Tail(walks)
    /\ queue' = QueueWithout(Head(walks))

Ends == walks # <<>> /\ Head(walks) = Nil /\ walks' = Tail(walks) /\ UNCHANGED queue

QueueNext == (\E e \in Items : Emitted(e) \/ TimedOut(e)) \/ Begins \/ Takes \/ Ends

QueueSpec == QueueInit /\ [][QueueNext]_<<queue, walks>>

=============================================================================
