------------------------------ MODULE Emitter -------------------------------
(***************************************************************************)
(* The event emitter under the client, its transport and its channels      *)
(* (component-emitter in socketcluster.js), for one event.  A listener     *)
(* that is being called may add and remove listeners, others or itself,    *)
(* and emit the same event again.                                          *)
(***************************************************************************)
EXTENDS Naturals, Sequences, SequencesExt

CONSTANTS
    Fns,            \* the functions that are registered
    Wrappers,       \* the functions that once() makes, as many as exist at one time
    Plain,          \* no wrapper
    MaxListeners,   \* bound: listeners at one time
    MaxEmits        \* bound: emissions inside each other

Entries == [fn : Fns, on : Wrappers \cup {Plain}]

VARIABLES
    callbacks,  \* _callbacks of the event
    emits,      \* the emissions under way, the innermost first: their copy of the list,
                \* the next place in it, and whom they have called (history)
    spent       \* history: the wrappers that were called or removed

vars == <<callbacks, emits, spent>>

Init == callbacks = <<>> /\ emits = <<>> /\ spent = {}

Held == {callbacks[i].on : i \in DOMAIN callbacks}
        \cup UNION {{emits[k].list[i].on : i \in DOMAIN emits[k].list} : k \in DOMAIN emits}

On(entry) == callbacks' = Append(callbacks, entry)

\* on, in a task of its own or in a listener.
AddListener ==
    /\ Len(callbacks) < MaxListeners
    /\ \E f \in Fns : On([fn |-> f, on |-> Plain])
    /\ UNCHANGED <<emits, spent>>

\* once: a new function around fn.
Once ==
    /\ Len(callbacks) < MaxListeners
    /\ \E f \in Fns, w \in Wrappers \ Held :
         /\ On([fn |-> f, on |-> w])
         /\ spent' = spent \ {w}
    /\ UNCHANGED emits

Removed_ByFunction(list, f, w) == RemoveFirstMatch(list, LAMBDA e : e.fn = f)

\* off(event, fn): the first callback that is the function, or wraps it.  The caller's
\* function is a wrapper when a once listener removes itself.
Removed(list, f, w) ==
    RemoveFirstMatch(list, LAMBDA e : IF w = Plain THEN e.fn = f ELSE e.on = w)

Wrapping(list) == {list[i].on : i \in DOMAIN list} \ {Plain}

RemoveListener ==
    /\ \E f \in Fns : callbacks' = Removed(callbacks, f, Plain)
    /\ spent' = spent \cup (Wrapping(callbacks) \ Wrapping(callbacks'))
    /\ UNCHANGED emits

\* off(event) and off().
RemoveAllListeners ==
    /\ callbacks' = <<>>
    /\ spent' = spent \cup Wrapping(callbacks)
    /\ UNCHANGED emits

\* emit, up to the loop: callbacks.slice(0).
Emit ==
    /\ Len(emits) < MaxEmits
    /\ emits' = <<[list |-> callbacks, at |-> 1, called |-> <<>>]>> \o emits
    /\ UNCHANGED <<callbacks, spent>>

\* callbacks[i] of an emission, which loops over a copy.
Listener(e) == e.list[e.at]

\* A round of the loop: a plain listener begins, or a once listener removes itself
\* and begins.  Whatever it does are steps of their own.
CallListener ==
    /\ emits # <<>> /\ emits[1].at <= Len(emits[1].list)
    /\ LET next == Listener(emits[1]) IN
       /\ emits' = [emits EXCEPT ![1].at = @ + 1, ![1].called = Append(@, next)]
       /\ IF next.on = Plain THEN UNCHANGED <<callbacks, spent>>
          ELSE /\ callbacks' = Removed(callbacks, next.fn, next.on)
               /\ spent' = spent \cup {next.on}

EmitEnds ==
    /\ emits # <<>> /\ emits[1].at > Len(emits[1].list)
    /\ emits' = Tail(emits)
    /\ UNCHANGED <<callbacks, spent>>

Next == AddListener \/ Once \/ RemoveListener \/ RemoveAllListeners \/ Emit \/ CallListener \/ EmitEnds

Spec == Init /\ [][Next]_vars

-----------------------------------------------------------------------------
\* Every variable has its type.
TypeOK ==
    /\ callbacks \in Seq(Entries)
    /\ emits \in Seq([list : Seq(Entries), at : Nat, called : Seq(Entries)])
    /\ spent \subseteq Wrappers

\* An emission calls the listeners of its start, each once and in order, whatever they
\* add, remove or emit meanwhile; and a once listener that was called or removed is not
\* registered any more: no later emission calls it, and no other listener was removed
\* in its place.  (Emissions inside each other may both call it, the outer one from its
\* copy, although the comment of once says "invoked a single time".)
Served ==
    /\ \A k \in DOMAIN emits : emits[k].called = SubSeq(emits[k].list, 1, emits[k].at - 1)
    /\ spent \cap Wrapping(callbacks) = {}

=============================================================================
