\* Liveness with a peer that reads.
\* The connection may end for good, and the messages are bounded.
CONSTANTS
  receiveLoop = receiveLoop
  mainThread = mainThread
  NoFrame = noframe
  Pong = pong
  Close = close
  Publishers <- MCNobody
  Closers <- MCNobody
  SendBuffer = 1
  MaxMessages = 3
SPECIFICATION PatientSpec
CHECK_DEADLOCK FALSE
PROPERTIES
  CallsReturn
  ClosedIsTornDown
