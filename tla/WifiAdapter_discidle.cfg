\* disconnect(cb) before the station is started.
CONSTANTS
  MaxCalls = 3
  VendorQueueCap = 2
  JsQueueCap = 3
  VendorMayFail = FALSE
SPECIFICATION Spec
PROPERTY DisconnectEventuallyCompletes
