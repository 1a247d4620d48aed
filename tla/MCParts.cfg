SPECIFICATION PartsSpec
CONSTANTS
  Items = {e1, e2, e3, e4}
  Nil = Nil
  MaxWalks = 2
  Channels = {c1}
  Calls = {l1, l2}
  Casts = {p1}
  Handshake = Handshake
  None = None
  CloseCodes = {1001, 1006}
  ClosingWindow = TRUE
  MaxCid = 8
  MaxWire = 2
  Octets = {0, 107, 148, 255}
  MaxBytes = 6
  MaxChunk = 3
  Units = {65, 233, 8364, 55357, 56832}
  Received = {65, 130, 159, 160, 194, 193, 224, 237, 240, 244}
  MaxLen = 4
  MaxArguments = 2
  Fns = {f, g}
  Wrappers = {w1, w2}
  Plain = Plain
  MaxListeners = 2
  MaxEmits = 2
  Sockets = {s1, s2}
  Chats = {a, b}
  Site = Site
  Nothing = Nothing
INVARIANTS
  TypeOK
  ListTypeOK
  WellLinked
  WalkedToTheEnd
  PartsTypeOK
  CallsHeld
  CalledOnce
  RequestsHeld
  Agreement
  ComesBack
  Farewell
  SameBytes
  SameText
  Served
  NobodyLeft
PROPERTIES
  ImplementsQueue
  DestroyedStays
  CharacterByCharacter
CHECK_DEADLOCK FALSE
