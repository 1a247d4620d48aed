----------------------------- MODULE PagesProofs -----------------------------
(***************************************************************************)
(* What the proofs about the pages say of the browser of MCPages, which    *)
(* has loaded one of them.  Each page is an instance of the module with    *)
(* its proofs, so a step of the browser is a step that module is about.    *)
(***************************************************************************)
EXTENDS MCPages, TLAPS

\* The site's logins are among the calls of the client.
LEMMA SiteAssumption == Site!SCClientAssumption
  BY SCClientAssumption, LoginAssumption DEF Site!SCClientAssumption

\* A step of the browser on a site is a step of the site.
LEMMA StepOnSite ==
    ASSUME OnSite, [PagesNext]_pageVars
    PROVE  [Site!SiteNext]_(Site!allVars) /\ OnSite'
  BY DEF OnSite, OnWidget, OnDesk, OnMail, PagesNext, OneOf, pageVars, siteVars, vars, Site!allVars, Site!vars, Site!siteVars

\* An authenticated site at rest listens on its channel, whatever connections were lost
\* and calls timed out before (connectSiteVisitor, _trySubscribe, handleSubscribe).
THEOREM SitesListen == ASSUME Site!Visiting PROVE PagesSpec => []SiteListens
<1> DEFINE Inv == OnSite => Site!SiteInv
<1>1. PagesInit => Inv
  BY SiteAssumption, Site!SiteInvInit DEF PagesInit
<1>2. Inv /\ [PagesNext]_pageVars => Inv'
  <2> SUFFICES ASSUME Inv, [PagesNext]_pageVars, OnSite' PROVE Site!SiteInv'
    OBVIOUS
  <2>1. OnSite
    BY DEF OnSite, PagesNext, OneOf, pageVars
  <2>2. [Site!SiteNext]_(Site!allVars)
    BY <2>1, StepOnSite
  <2> QED  BY <2>1, <2>2, SiteAssumption, Site!SiteInvStep
<1>3. Inv => SiteListens
  BY SiteAssumption, Site!SiteInvPromise DEF SiteListens
<1> QED  BY <1>1, <1>2, <1>3, PTL DEF PagesSpec

-----------------------------------------------------------------------------
\* The widget's logins are among the calls of the client, and apart from each other.
LEMMA WidgetAssumption == Widget!SCClientAssumption /\ Widget!LoginAssumption
  BY SCClientAssumption, LoginAssumption DEF Widget!SCClientAssumption, Widget!LoginAssumption

\* A step of the browser on the widget's page is a step of the widget.
LEMMA StepOnWidget ==
    ASSUME OnWidget', [PagesNext]_pageVars
    PROVE  [Widget!WidgetNext]_(Widget!allVars) /\ OnWidget
  BY DEF OnSite, OnWidget, OnDesk, OnMail, PagesNext, OneOf, pageVars, loginVars, widgetVars, vars,
         Widget!allVars, Widget!vars, Widget!loginVars, Widget!widgetVars

\* The widget polls slowly only while it has its channel (connectVisitor, 'close').
THEOREM WidgetsPollSlowlyWhenJoined == ASSUME Widget!Hosting PROVE PagesSpec => []SlowOnlyWhenJoined
<1> DEFINE Inv == OnWidget => Widget!WidgetInv
<1>1. PagesInit => Inv
  BY WidgetAssumption, Widget!WidgetInvInit DEF PagesInit
<1>2. Inv /\ [PagesNext]_pageVars => Inv'
  BY StepOnWidget, WidgetAssumption, Widget!WidgetInvStep
<1>3. Inv => SlowOnlyWhenJoined
  BY WidgetAssumption, Widget!WidgetInvSlow DEF SlowOnlyWhenJoined
<1> QED  BY <1>1, <1>2, <1>3, PTL DEF PagesSpec

\* The widget handles every message on its channel once, unless 'connect' came again while
\* an earlier join was not settled (connectVisitor, the 'close' handler).
THEOREM WidgetsHandleOnce == ASSUME Widget!Hosting PROVE PagesSpec => []HandledOnce
<1> DEFINE Inv == OnWidget => Widget!WidgetInv
<1>1. PagesInit => Inv
  BY WidgetAssumption, Widget!WidgetInvInit DEF PagesInit
<1>2. Inv /\ [PagesNext]_pageVars => Inv'
  BY StepOnWidget, WidgetAssumption, Widget!WidgetInvStep
<1>3. Inv => HandledOnce
  BY WidgetAssumption, Widget!WidgetInvOnce DEF HandledOnce
<1> QED  BY <1>1, <1>2, <1>3, PTL DEF PagesSpec

=============================================================================
