\* All of event_handler: the details object of a published event keeps the
\* lock jsvNewObject gave it after its listeners have run.
CONSTANTS
  ObjIds = {o1, o2, o3}
  NULL = NULL
  JsQueueCap = 3
  PublishOn = TRUE
SYMMETRY Symm
SPECIFICATION Spec
INVARIANT
  NoLeakedPayload
