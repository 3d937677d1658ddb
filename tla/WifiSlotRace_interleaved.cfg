\* The JavaScript task and the event task interleave on g_jsDisconnectCallback.
CONSTANTS
  MaxCalls = 3
  MaxEvents = 2
SPECIFICATION Spec
INVARIANTS
  TypeOK
  QueuedAtMostOnce
