\* The documented mirroring of the hub in Redis, which overlapping hooks break.
CONSTANTS
  s1 = s1
  s2 = s2
  s3 = s3
  c1 = c1
  c2 = c2
  NoChannel = none
  Sockets <- MCSockets
  Channels <- MCOneChannel
SPECIFICATION Spec
INVARIANT
  ServedWhileSubscribed
