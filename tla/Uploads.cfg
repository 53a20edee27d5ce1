SPECIFICATION MemorySpec
CONSTANTS
  ChunksTotal = 2
  Requests = {r1, r2}
  MaxSends = 2
  Streams = {m1, m2}
  Senders = {b1}
  Watched = {j1}
  AnyFile = AnyFile
  Buffer = 1
  HubStarted = TRUE
  MaxMessages = 2
CHECK_DEADLOCK FALSE
INVARIANTS
  RowHasObject
  LoadedNotLost
  OneFilePerUpload
  NoSendOnClosed
PROPERTIES
  AnswersAndStreamsEnd
