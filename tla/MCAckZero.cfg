SPECIFICATION Spec
CONSTANTS
  MaxMsgs = 3
  Size <- UnitSizes
  SeqMod = 16
  OutgoingSlots = 3
  RecvQueueSlots = 3
  ReorderSlots = 3
  FragSlots = 1
  PoolBufs = 3
  EventQueue = 2
  FragPayload = 1
  RecvWindow = 3
  MaxAttempts = 2
  Duplicates = FALSE
  NetCap = 2
  AppCloses = FALSE
INVARIANT AckConfirmsDelivery
CHECK_DEADLOCK FALSE
