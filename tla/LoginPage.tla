----------------------------- MODULE LoginPage ------------------------------
(***************************************************************************)
(* What the widget (customjs-widget.js) and the operator's page            *)
(* (customjs-admin.js) share: how a page logs in on the client of module   *)
(* SCClient.  Between the 'connect' event and the login lies a request to  *)
(* PHP for the login hash ($.post), during which the connection may drop   *)
(* and come back.                                                          *)
(***************************************************************************)
EXTENDS SCClient

CONSTANTS
    Joins,      \* the logins of the 'connect' handler: the page joins on success
    Reauths     \* the logins of the 'deauthenticate' handler

ASSUME LoginAssumption == Joins \cup Reauths \subseteq Calls /\ Joins \cap Reauths = {}

VARIABLES
    posts,      \* the logins whose $.post is under way
    failed,     \* history: PHP did not answer the last request of a 'connect'
    overlap     \* history: what was not settled when 'connect' came: "none", the login
                \* of a 'deauthenticate' ("reauth"), or that of an earlier 'connect' ("join")

loginVars == <<posts, failed, overlap>>

LoginInit == Init /\ posts = {} /\ failed = FALSE /\ overlap = "none"

Underway(S) == {e \in S : e \in posts \/ ~ Unused(e)}

Overlap ==
    IF Underway(Joins) # {} THEN "join"
    ELSE IF Underway(Reauths) # {} /\ overlap = "none" THEN "reauth" ELSE overlap

\* $.post for one of the logins S, which may fail: then nothing is called.  The bound
\* on their number makes one more fail.
Post(S) ==
    \/ \E e \in S \ Underway(S) : posts' = posts \cup {e}
    \/ UNCHANGED posts

\* 'connect' of a connection that the server did not authenticate.
OnConnectAnonymous ==
    /\ Step("connect") /\ Top.n = 0
    /\ Post(Joins)
    /\ failed' = (posts' = posts /\ Underway(Joins) # Joins)
    /\ overlap' = Overlap
    /\ stack' = Tail(stack)
    /\ UNCHANGED <<selfVars, linkVars, wireVars>>

\* 'deauthenticate': a login whose success changes nothing on the page.
OnDeauthenticate ==
    /\ Step("deauthenticate")
    /\ Post(Reauths)
    /\ stack' = Tail(stack)
    /\ UNCHANGED <<selfVars, linkVars, wireVars, failed, overlap>>

\* The answer of PHP: socket.emit('login', ..).
PostAnswered ==
    /\ Idle
    /\ \E e \in posts :
         /\ posts' = posts \ {e}
         /\ Emit(e, <<>>)
    /\ UNCHANGED <<failed, overlap>>

OnReauthAnswered ==
    /\ Step("answered") /\ Top.at \in Reauths
    /\ stack' = Tail(stack)
    /\ UNCHANGED <<selfVars, linkVars, wireVars, loginVars>>

\* Any error of the login: the server's, a timeout, or a connection that is gone.
OnLoginRefused ==
    /\ Step("refused")
    /\ Destroy(Tail(stack))
    /\ UNCHANGED loginVars

BeforeUnload == Idle /\ active /\ Destroy(<<>>) /\ UNCHANGED loginVars

LoginHandlers == OnConnectAnonymous \/ OnDeauthenticate \/ OnReauthAnswered \/ OnLoginRefused
LoginStep     == LoginHandlers \/ PostAnswered \/ BeforeUnload

\* The events that make the page join: the 'connect' of an authenticated connection,
\* and the answer to the login of the others.
Joining ==
    /\ \/ Step("connect") /\ Top.n = 1 /\ overlap' = Overlap
       \/ Step("answered") /\ Top.at \in Joins /\ UNCHANGED overlap
    /\ UNCHANGED <<posts, failed>>

Answering == PeerHandshake \/ PeerLogin \/ PeerSubscribe \/ PeerUnsubscribe \/ PeerIgnores
Receiving == ReceiveAnswer \/ ReceiveEvent

LoginTypeOK ==
    /\ TypeOK
    /\ posts \subseteq Calls /\ failed \in BOOLEAN /\ overlap \in {"none", "reauth", "join"}

=============================================================================
