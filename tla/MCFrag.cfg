SPECIFICATION Spec
CONSTANTS
  MaxMsgs = 2
  Size <- DoubleSizes
  SeqMod = 16
  OutgoingSlots = 3
  RecvQueueSlots = 3
  ReorderSlots = 3
  FragSlots = 1
  PoolBufs = 3
  EventQueue = 2
  FragPayload = 1
  RecvWindow = 4
  MaxAttempts = 2
  Duplicates = FALSE
  NetCap = 2
  AppCloses = FALSE
INVARIANTS
  PoolConserved
  AcceptedInOrder
  NeverStranded
CHECK_DEADLOCK FALSE
