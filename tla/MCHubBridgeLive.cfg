\* Liveness on one channel.
CONSTANTS
  s1 = s1
  s2 = s2
  s3 = s3
  c1 = c1
  c2 = c2
  NoChannel = none
  Sockets <- MCSockets
  Channels <- MCOneChannel
SPECIFICATION FairSpec
PROPERTY
  SubscriberServed
