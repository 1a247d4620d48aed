\* Two connections with every login, request and disconnect, and a shutdown.
\* The process really ends: a state after exit has no successor.
CONSTANTS
  s1 = s1
  s2 = s2
  chat1 = chat1
  chat2 = chat2
  uo = uo
  NoToken = none
  NoChannel = nochannel
  Sockets <- MCSockets
  ChatChannels <- MCChats
  OtherChannels <- MCOthers
  Credentials <- MCCredentials
  ChannelLimit = 1
  TrackVisitors = TRUE
  StrictChannelBinding = TRUE
SPECIFICATION Spec
SYMMETRY MCSymmetry
CHECK_DEADLOCK FALSE
INVARIANTS
  TypeOK
  ChatHeldByOwner
  HubWithinLimit
  RetractsWhatItShowed
  NoGhostVisitor
