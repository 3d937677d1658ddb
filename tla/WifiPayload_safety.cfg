\* All of event_handler, scanCB and the queries: no payload is freed while
\* a queued callback still refers to it.
CONSTANTS
  ObjIds = {o1, o2, o3, o4}
  NULL = NULL
  JsQueueCap = 4
  PublishOn = TRUE
SYMMETRY Symm
SPECIFICATION Spec
INVARIANTS
  TypeOK
  QueuedAlive
