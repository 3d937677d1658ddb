\* A stale STA_GOT_IP resolves a newer connect callback.
CONSTANTS
  MaxCalls = 3
  VendorQueueCap = 2
  JsQueueCap = 3
  VendorMayFail = FALSE
SPECIFICATION Spec
PROPERTY ConnectCallbackOwnLink
