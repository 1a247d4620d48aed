----------------------------- MODULE MCSCClient -----------------------------
(* The client with any page, for the one run that a subscribe breaks. *)
EXTENDS SCClient

\* The comment of _trySubscribe (socketcluster.js:1086): "We can only ever have one
\* pending subscribe action at any given time on a channel".  An open client has that
\* one for each channel that waits: a request whose answer is still to come.
PendingAsked ==
    Idle /\ state = "open" =>
        \A c \in Channels : chan[c].st = "pending" => \E e \in Elems(map) : e.at = c

=============================================================================
