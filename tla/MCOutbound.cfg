\* Every overlap of the goroutines of one connection, safety only.
\* The connection may end for good, and the messages are bounded.
CONSTANTS
  receiveLoop = receiveLoop
  mainThread = mainThread
  NoFrame = noframe
  Pong = pong
  Close = close
  Publishers <- MCPublishers
  Closers <- MCClosers
  SendBuffer = 1
  MaxMessages = 3
SPECIFICATION Spec
CHECK_DEADLOCK FALSE
INVARIANTS
  TypeOK
  NothingLostWhileOpen
  OneFrameAtATime
