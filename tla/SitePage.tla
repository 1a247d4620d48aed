------------------------------ MODULE SitePage ------------------------------
(***************************************************************************)
(* The script on the pages of a site (customjs.js): a visitor without a    *)
(* chat listens for a check_message.  The login hash is part of the page,  *)
(* so a login needs no request to PHP; the page has no handler of 'close'  *)
(* or 'deauthenticate' and never gives up its connection.                  *)
(***************************************************************************)
EXTENDS SCClient

CONSTANT Visitor    \* uo_<vid>

VARIABLES
    watched,    \* the channel has a listener: connectSiteVisitor ran
    late        \* history: the login of this connection was not answered in time

siteVars == <<watched, late>>
allVars  == <<vars, siteVars>>

SiteInit == Init /\ watched = FALSE /\ late = FALSE

ConnectSiteVisitor_OncePerPage ==
    /\ Step("answered") \/ (Step("connect") /\ Top.n = 1)
    /\ watched' = TRUE
    /\ IF watched THEN stack' = Tail(stack) /\ UNCHANGED <<selfVars, linkVars, wireVars>>
       ELSE Subscribe({Visitor}, Tail(stack))
    /\ late' = (late /\ Step("answered"))

\* After each login and each authenticated connection.
ConnectSiteVisitor ==
    /\ Step("answered") \/ (Step("connect") /\ Top.n = 1)
    /\ watched' = TRUE
    /\ Subscribe({Visitor}, Tail(stack))
    /\ late' = (late /\ Step("answered"))

\* 'connect' without authentication: the login at once, in the handler.
OnConnectAnonymous ==
    /\ Step("connect") /\ Top.n = 0
    /\ \E e \in Calls : Unused(e) /\ Emit(e, Tail(stack))
    /\ late' = FALSE
    /\ UNCHANGED watched

\* The login's error, which the page logs; a check_message, which makes it ask PHP
\* for the message; and the events it does not listen to.
Returns ==
    /\ \E h \in {"refused", "message", "close", "deauthenticate", "subscribe"} : Step(h)
    /\ late' = (late \/ (Step("refused") /\ Top.n = 0))
    /\ stack' = Tail(stack)
    /\ UNCHANGED <<selfVars, linkVars, wireVars, watched>>

Site == ConnectSiteVisitor \/ OnConnectAnonymous \/ Returns

SiteNext == Site \/ ((Library \/ Browser \/ Peer) /\ UNCHANGED siteVars)

SiteSpec == SiteInit /\ [][SiteNext]_allVars

\* As in WidgetPage; the login waits for nobody.
Running  == Site \/ (Library /\ UNCHANGED siteVars)
Answers  == (PeerHandshake \/ PeerLogin \/ PeerSubscribe \/ PeerIgnores) /\ UNCHANGED siteVars
Receives == (ReceiveAnswer \/ ReceiveEvent) /\ UNCHANGED siteVars

-----------------------------------------------------------------------------
\* The variables of the client and of the page have their types.
SiteTypeOK == TypeOK /\ watched \in BOOLEAN /\ late \in BOOLEAN

\* Between tasks, with nothing under way, a connection that the server authenticated
\* has the page's channel, watched: a request of before the login that the server
\* refused does not leave it without (connectSiteVisitor subscribes again).  A login
\* answered too late does: the token arrives, the callback is gone.
SiteListens ==
    Idle /\ state = "open" /\ ws = "open" /\ up = <<>> /\ down = <<>> /\ peer.authed /\ ~ late =>
        watched /\ peer.subs = {Visitor} /\ chan[Visitor].st = "subscribed"

\* The page has its channel, unless the server refuses its login or answers it too late.
Joined == chan[Visitor].st = "subscribed" \/ ~ peer.authed \/ late

=============================================================================
