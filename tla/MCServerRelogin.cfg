\* A visitor's disconnect handler retracts its chat: broken by a second login.
CONSTANTS
  s1 = s1
  s2 = s2
  chat1 = chat1
  chat2 = chat2
  uo = uo
  NoToken = none
  NoChannel = nochannel
  Sockets <- MCSockets
  ChatChannels <- MCChats
  OtherChannels <- MCOthers
  Credentials <- MCVisitors
  ChannelLimit = 1
  TrackVisitors = TRUE
  StrictChannelBinding = TRUE
SPECIFICATION Spec
CHECK_DEADLOCK FALSE
INVARIANT
  ChatOfflineWhenGone
