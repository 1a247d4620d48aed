----------------------------- MODULE AdminPage ------------------------------
(***************************************************************************)
(* The operator's page (customjs-admin.js) on the client library: a        *)
(* channel for each open chat tab and each open mail, and one for the      *)
(* visitors online.  Tabs and mails come and go by the operator's hand,    *)
(* connected or not; the listeners for tabs are removed at 'close', those  *)
(* for mails and for the visitors' list stay for ever.                     *)
(***************************************************************************)
EXTENDS LoginPage

CONSTANTS
    Tabs,       \* the chats, as their channels
    Mails,      \* the mails, as their channels
    Online      \* ous_<instance>

VARIABLES
    nodeMode,   \* lhinst.nodeJsMode, with the listeners for tabs and the long interval
    mailMode,   \* the listeners for mails and for the visitors' list
    opened,     \* lhinst.chatsSynchronising: the open tabs
    channelList, channelListMail,
    strays,     \* history: tabs closed while nobody listened
    deaf        \* history: mails held while the server did not authenticate the page

adminVars == <<nodeMode, mailMode, opened, channelList, channelListMail, strays, deaf>>
allVars   == <<vars, loginVars, adminVars>>

AdminInit ==
    /\ LoginInit
    /\ nodeMode = FALSE /\ mailMode = FALSE
    /\ opened \in SUBSET Tabs
    /\ channelList = {} /\ channelListMail = {} /\ strays = {} /\ deaf = {}

ConnectAdmin_ListenersOnly ==
    /\ Joining
    /\ nodeMode' = TRUE /\ mailMode' = TRUE
    /\ Subscribe({Online}, Tail(stack))
    /\ UNCHANGED <<opened, channelList, channelListMail, strays, deaf>>

\* The tabs of chatsSynchronising, the listeners, and the visitors online.
ConnectAdmin ==
    /\ Joining
    /\ nodeMode' = TRUE /\ mailMode' = TRUE
    /\ channelList' = channelList \cup opened
    /\ Subscribe((opened \ channelList) \cup {Online}, Tail(stack))
    /\ UNCHANGED <<opened, channelListMail, strays, deaf>>

\* 'close': the list is emptied, the channels in it are not destroyed.
OnClose ==
    /\ Step("close")
    /\ nodeMode' = FALSE /\ channelList' = {}
    /\ stack' = Tail(stack)
    /\ UNCHANGED <<selfVars, linkVars, wireVars, loginVars, mailMode, opened, channelListMail,
                   strays, deaf>>

\* A tab is opened: chatTabLoaded or chatTabMonitor, if anyone listens.
AddChatToNodeJS ==
    /\ Idle /\ Room
    /\ \E t \in Tabs \ opened :
         /\ opened' = opened \cup {t}
         /\ strays' = strays \ {t}
         /\ IF nodeMode /\ t \notin channelList
            THEN Subscribe({t}, <<Frame("added", t)>>)
            ELSE UNCHANGED vars
    /\ UNCHANGED <<loginVars, nodeMode, mailMode, channelList, channelListMail, deaf>>

\* The assignment of channelList[chat_id], when subscribe has returned.
Added ==
    /\ Step("added")
    /\ channelList' = channelList \cup {Top.at}
    /\ stack' = Tail(stack)
    /\ UNCHANGED <<selfVars, linkVars, wireVars, loginVars, nodeMode, mailMode, opened,
                   channelListMail, strays, deaf>>

\* A tab is closed: removeSynchroChat, if anyone listens.
RemoveSynchroChatListener ==
    /\ Idle /\ Room
    /\ \E t \in opened :
         /\ opened' = opened \ {t}
         /\ IF nodeMode /\ t \in channelList
            THEN DestroyChannel(t, <<>>) /\ channelList' = channelList \ {t} /\ UNCHANGED strays
            ELSE UNCHANGED <<vars, channelList>> /\ strays' = strays \cup {t}
    /\ UNCHANGED <<loginVars, nodeMode, mailMode, channelListMail, deaf>>

\* A mail is opened.
MailChatContentLoaded ==
    /\ Idle /\ Room /\ mailMode
    /\ \E m \in Mails \ channelListMail :
         /\ channelListMail' = channelListMail \cup {m}
         /\ deaf' = IF state = "open" /\ ~ auth THEN deaf \cup {m} ELSE deaf \ {m}
         /\ Subscribe({m}, <<>>)
    /\ UNCHANGED <<loginVars, nodeMode, mailMode, opened, channelList, strays>>

Publishes(rest) == \E e \in Casts : Room /\ Unused(e) /\ Emit(e, rest)

\* A mail is closed: publish opleft, end the interval, destroy the channel.
MailChatContentUnLoaded ==
    /\ Idle /\ mailMode
    /\ \E m \in channelListMail : Publishes(<<Frame("leaving", m)>>)
    /\ UNCHANGED <<loginVars, adminVars>>

Leaving ==
    /\ Step("leaving")
    /\ channelListMail' = channelListMail \ {Top.at}
    /\ DestroyChannel(Top.at, Tail(stack))
    /\ UNCHANGED <<loginVars, nodeMode, mailMode, opened, channelList, strays, deaf>>

\* What the page publishes on its own: to a chat while it listens (tabActivated,
\* operatorTypingListener), to visitors and, every five seconds, to the readers of
\* an open mail (onlineVisitors, onlineVisitorsCheck, monitoring_timeout), whether
\* it is connected or not.
OperatorPublishes ==
    /\ Idle /\ (nodeMode \/ mailMode)
    /\ Publishes(<<>>)
    /\ UNCHANGED <<loginVars, adminVars>>

\* The channels' listeners: 'subscribe' publishes vo or oo, a message oo is answered
\* with oos; other messages publish nothing.
OnChannel ==
    /\ Step("subscribe") \/ Step("message")
    /\ \/ Top.at \in Tabs \cup Mails /\ Publishes(Tail(stack))
       \/ /\ Step("message") \/ Top.at = Online \/ ~ Room \/ \A e \in Casts : ~ Unused(e)
          /\ stack' = Tail(stack)
          /\ UNCHANGED <<selfVars, linkVars, wireVars>>
    /\ UNCHANGED <<loginVars, adminVars>>

\* The handlers of LoginPage; a connection without a token refuses the channels that
\* are asked for before the login.
Login ==
    /\ LoginStep
    /\ deaf' = IF Step("connect") THEN deaf \cup channelListMail ELSE deaf
    /\ UNCHANGED <<nodeMode, mailMode, opened, channelList, channelListMail, strays>>

Admin ==
    \/ ConnectAdmin \/ OnClose \/ AddChatToNodeJS \/ Added \/ RemoveSynchroChatListener
    \/ MailChatContentLoaded \/ MailChatContentUnLoaded \/ Leaving \/ OperatorPublishes \/ OnChannel

AdminNext ==
    \/ Login \/ Admin
    \/ (Library \/ Browser \/ Peer) /\ UNCHANGED <<loginVars, adminVars>>

AdminSpec == AdminInit /\ [][AdminNext]_allVars

\* As in WidgetPage.
Running ==
    \/ ConnectAdmin \/ OnClose \/ Added \/ Leaving \/ OnChannel
    \/ Login /\ ~ Idle
    \/ Library /\ UNCHANGED <<loginVars, adminVars>>
Answers  == Answering /\ UNCHANGED <<loginVars, adminVars>>
Receives == Receiving /\ UNCHANGED <<loginVars, adminVars>>
Posted   == PostAnswered /\ UNCHANGED adminVars

-----------------------------------------------------------------------------
\* The variables of the client and of the page have their types.
AdminTypeOK ==
    /\ LoginTypeOK
    /\ nodeMode \in BOOLEAN /\ mailMode \in BOOLEAN
    /\ opened \subseteq Tabs /\ channelList \subseteq Tabs /\ channelListMail \subseteq Mails
    /\ strays \subseteq Tabs /\ deaf \subseteq Mails

Heard(c) == chan[c].st \in {"pending", "subscribed"}

\* The page that has told lhinst to poll less (nodeJsMode) hears every open tab, those
\* opened or closed while the connection was away or the login under way included; and
\* it holds no channel of a closed tab but of those closed while nobody listened.  (Two
\* logins under way at once can bring it to nodeJsMode without a connection, see
\* SlowOnlyWhenJoined of WidgetPage.)
TabsHeard ==
    Idle /\ nodeMode =>
        /\ state = "open" \/ overlap # "none"
        /\ state = "open" => /\ \A t \in opened : Heard(t)
                            /\ \A t \in Tabs \ (opened \cup strays) : chan[t].st = "none"

\* A mail that is open is heard through every reconnect, although nothing subscribes
\* it again (mailChatContentLoaded runs once): the client does, unless the server took
\* the page for a stranger in the meantime and refused.
MailsHeard ==
    Idle /\ state = "open" => \A m \in channelListMail \ deaf : Heard(m)

\* Every open tab is subscribed.
TabsSubscribed == \A t \in opened : chan[t].st = "subscribed"

=============================================================================
