SPECIFICATION FairPages
CONSTANTS
  c1 = c1
  c2 = c2
  Channels = {c1, c2}
  Joins = {j1, j2}
  Reauths = {r1}
  Calls = {j1, j2, r1}
  Casts = {p1}
  Handshake = Handshake
  None = None
  CloseCodes = {1006}
  ClosingWindow = FALSE
  MaxCid = 8
  MaxWire = 1
INVARIANTS
  PagesTypeOK
  
  HandledOnce
  TabsHeard
  MailsHeard
  SiteListens
 
CHECK_DEADLOCK FALSE
