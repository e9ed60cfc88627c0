SPECIFICATION WrapSpec
CONSTANTS
  MaxMsgs = 11
  Size <- UnitSizes
  SeqMod = 10
  OutgoingSlots = 3
  RecvQueueSlots = 3
  ReorderSlots = 2
  FragSlots = 1
  PoolBufs = 3
  EventQueue = 2
  FragPayload = 1
  RecvWindow = 3
  MaxAttempts = 2
  Duplicates = TRUE
  NetCap = 1
  AppCloses = TRUE
INVARIANTS
  IInv
  FreedWasReceived
CHECK_DEADLOCK FALSE
