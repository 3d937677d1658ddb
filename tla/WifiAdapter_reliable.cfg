\* Atomic adapter, driver calls succeed: scan bookkeeping and scan liveness.
CONSTANTS
  MaxCalls = 3
  VendorQueueCap = 2
  JsQueueCap = 3
  VendorMayFail = FALSE
SPECIFICATION Spec
INVARIANT ScanSlotBacked
PROPERTY ScanEventuallyCompletes
