------------------------------ MODULE MCPages -------------------------------
(***************************************************************************)
(* A browser with one of the pages: the widget, the operator's page with   *)
(* chats, the same page with mails, or a site.  The state of the other     *)
(* pages stays as it is.                                                   *)
(***************************************************************************)
EXTENDS LoginPage

CONSTANTS c1, c2    \* Channels

VARIABLES
    page,                       \* the page the browser has loaded
    sample, watchers, listening,
    nodeMode, mailMode, opened, channelList, channelListMail, strays, deaf,
    watched, late

Join   == CHOOSE e \in Joins : TRUE

\* The operator's page with a chat publishes nothing, the one with a mail gets no
\* hash from PHP after 'deauthenticate'.
Widget == INSTANCE WidgetProofs WITH Chat <- c1
Desk   == INSTANCE AdminPage WITH Tabs <- {c1}, Mails <- {}, Online <- c2, Joins <- {Join}, Casts <- {}
Mail   == INSTANCE AdminPage WITH Tabs <- {}, Mails <- {c1}, Online <- c2, Joins <- {Join}, Reauths <- {}
Site   == INSTANCE SiteProofs WITH Visitor <- c1, Calls <- Joins

widgetVars == <<sample, watchers, listening>>
adminVars  == <<nodeMode, mailMode, opened, channelList, channelListMail, strays, deaf>>
siteVars   == <<watched, late>>
pageVars   == <<page, vars, loginVars, widgetVars, adminVars, siteVars>>

OnWidget == page = "widget"
OnDesk   == page = "desk"
OnMail   == page = "mail"
OnSite   == page = "site"

PagesInit ==
    /\ page \in {"widget", "desk", "mail", "site"}
    /\ Widget!WidgetInit /\ Site!SiteInit
    /\ IF OnDesk THEN Desk!AdminInit ELSE Mail!AdminInit

OneOf(widget, desk, mail, site) ==
    /\ UNCHANGED page
    /\ \/ OnWidget /\ widget /\ UNCHANGED <<adminVars, siteVars>>
       \/ OnDesk /\ desk /\ UNCHANGED <<widgetVars, siteVars>>
       \/ OnMail /\ mail /\ UNCHANGED <<widgetVars, siteVars>>
       \/ OnSite /\ site /\ UNCHANGED <<loginVars, widgetVars, adminVars>>

PagesNext == OneOf(Widget!WidgetNext, Desk!AdminNext, Mail!AdminNext, Site!SiteNext)

PagesSpec == PagesInit /\ [][PagesNext]_pageVars

\* The fairness of whichever page it is.
FairPages ==
    /\ PagesSpec
    /\ WF_pageVars(OneOf(Widget!Running, Desk!Running, Mail!Running, Site!Running))
    /\ WF_pageVars(OneOf(Widget!Answers, Desk!Answers, Mail!Answers, Site!Answers))
    /\ SF_pageVars(OneOf(Widget!Receives, Desk!Receives, Mail!Receives, Site!Receives))
    /\ SF_pageVars(OneOf(Widget!Posted, Desk!Posted, Mail!Posted, FALSE))

-----------------------------------------------------------------------------
\* The variables of the client and of the pages have their types.
PagesTypeOK ==
    /\ OnWidget => Widget!WidgetTypeOK
    /\ OnDesk => Desk!AdminTypeOK
    /\ OnMail => Mail!AdminTypeOK
    /\ OnSite => Site!SiteTypeOK

\* The widget polls slowly only while it has the channel that replaces the polling.
SlowOnlyWhenJoined == OnWidget => Widget!SlowOnlyWhenJoined

\* The widget handles every message on its channel once.
HandledOnce == OnWidget => Widget!HandledOnce

\* In nodeJsMode the operator's page hears every open tab.
TabsHeard == OnDesk => Desk!TabsHeard

\* An open mail is heard through every reconnect.
MailsHeard == OnMail => Mail!MailsHeard

\* An authenticated site at rest listens on its channel.
SiteListens == OnSite => Site!SiteListens

\* A connection that lasts is used: the widget joins its channel, the operator's page
\* subscribes every tab that stays open, and a site has its channel, however often the
\* connection dropped before, with or without a token, and whatever was under way
\* then, unless PHP does not answer ($.post has no error handler).
Settles ==
    <>[](state = "open" /\ ~ failed) =>
        []<>(/\ OnWidget => Widget!Joined
             /\ OnDesk => Desk!TabsSubscribed
             /\ OnSite => Site!Joined)

=============================================================================
