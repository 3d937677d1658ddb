\* Atomic adapter, driver calls may fail: callback bookkeeping invariants,
\* and the binding refines the abstract pending-callback registers.
CONSTANTS
  MaxCalls = 3
  VendorQueueCap = 2
  JsQueueCap = 3
  VendorMayFail = TRUE
SPECIFICATION Spec
INVARIANTS
  TypeOK
  NoDoubleCompletion
  ReleasedNeverCalled
  LocksMatchSlots
PROPERTY
  PCSpec
  QueueConsumesSlot
