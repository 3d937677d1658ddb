\* Driver calls may fail: a failed esp_wifi_start leaves g_jsScanCallback set.
CONSTANTS
  MaxCalls = 3
  VendorQueueCap = 2
  JsQueueCap = 3
  VendorMayFail = TRUE
SPECIFICATION Spec
INVARIANT ScanSlotBacked
