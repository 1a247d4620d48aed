\* The documented ping timeout, which a peer that does not read defeats.
\* The connection may end for good, and the messages are bounded.
CONSTANTS
  receiveLoop = receiveLoop
  mainThread = mainThread
  NoFrame = noframe
  Pong = pong
  Close = close
  Publishers <- MCPublishers
  Closers <- MCClosers
  SendBuffer = 1
  MaxMessages = 3
SPECIFICATION FairSpec
CHECK_DEADLOCK FALSE
PROPERTY
  PongTimeoutCloses
