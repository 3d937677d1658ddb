----------------------------- MODULE WifiAdapter -----------------------------
(***************************************************************************)
(* The ESP32 Wifi binding of Espruino (jswrap_esp32_network.c): the three  *)
(* process-wide pending-callback slots g_jsDisconnectCallback,             *)
(* g_jsGotIpCallback and g_jsScanCallback, written by the JavaScript API   *)
(* calls (connect, disconnect, scan and the queries) and read and cleared  *)
(* by event_handler, which the ESP-IDF event loop calls for every system   *)
(* event.  Completions and published events go to the JavaScript event    *)
(* queue (jsiQueueEvents / jsiQueueObjectCallbacks).                       *)
(*                                                                         *)
(* In this module each API call and each run of event_handler is one       *)
(* atomic step: the assumption of the spec that the runtime serialises     *)
(* the script context and the vendor callback context.                     *)
(*                                                                         *)
(* The vendor Wi-Fi driver is not part of the repository; it is the        *)
(* environment: a radio that is started or not, a station link, a scan in  *)
(* progress, and the queue of system events it posts to the event loop.    *)
(* Every vendor call may fail when VendorMayFail holds.                    *)
(*                                                                         *)
(* JavaScript function values are abstracted to callback identities: the   *)
(* function passed to API call number n is callback n, so every            *)
(* registration is distinguishable.  0 stands for the NULL JsVar pointer.  *)
(***************************************************************************)
EXTENDS Naturals, Sequences, FiniteSets

CONSTANTS
  MaxCalls,        \* bound on the API calls that take a callback argument
  VendorQueueCap,  \* bound on the system events waiting in the event loop
  JsQueueCap,      \* bound on the entries waiting in the JS event queue
  VendorMayFail    \* whether esp_wifi_* calls and record fetches may fail

ASSUME ConstantsAssumption ==
  /\ MaxCalls \in Nat \ {0}
  /\ VendorQueueCap \in Nat \ {0}
  /\ JsQueueCap \in Nat /\ JsQueueCap >= 2
  /\ VendorMayFail \in BOOLEAN

-----------------------------------------------------------------------------
(* Values.                                                                 *)

NULL == 0                       \* a JsVar* that is NULL
CbIds == 1 .. MaxCalls           \* the callback functions the script passes
Kinds == {"disc", "gotip", "scan"}

\* What a script passes where the API expects an optional callback.
CbArgs == {"undef", "null", "notfn", "fn"}

\* The system_event_id_t values event_handler can receive.
SystemEvents ==
  { "WIFI_READY", "SCAN_DONE", "STA_START", "STA_STOP", "STA_CONNECTED",
    "STA_DISCONNECTED", "STA_AUTHMODE_CHANGE", "STA_GOT_IP", "AP_START",
    "AP_STOP", "AP_STACONNECTED", "AP_STADISCONNECTED", "AP_PROBEREQRECVED" }

NoName == "none"                 \* wifiGetEvent returning NULL

\* wifiGetEvent: the "#on..." listener name an event is published on.
wifiGetEvent(e) ==
  CASE e = "AP_PROBEREQRECVED"   -> "probe_recv"
    [] e = "AP_STACONNECTED"     -> "sta_joined"
    [] e = "AP_STADISCONNECTED"  -> "sta_left"
    [] e = "STA_AUTHMODE_CHANGE" -> "auth_change"
    [] e = "STA_CONNECTED"       -> "associated"
    [] e = "STA_DISCONNECTED"    -> "disconnected"
    [] e = "STA_GOT_IP"          -> "connected"
    [] OTHER                     -> NoName

EventNames == {wifiGetEvent(e) : e \in SystemEvents} \ {NoName}

\* An entry of the JS event queue: a callback to call with one argument,
\* or an event emitted on the Wifi module's listeners.
CallArgs == {"noarg", "null", "list", "details"}
Call(c, a) == [kind |-> "call", cb |-> c, arg |-> a]
Emit(n) == [kind |-> "emit", cb |-> NULL, arg |-> n]
JsEntries == [kind : {"call"}, cb : CbIds, arg : CallArgs]
             \cup [kind : {"emit"}, cb : {NULL}, arg : EventNames]

\* A system event, tagged with the connect call that began the link it
\* reports on (the vendor's notion of "the current connection").
VEvent(e, a) == [id |-> e, att |-> a]
VendorEvents == [id : SystemEvents, att : 0 .. MaxCalls]

LinkStates == {"idle", "connecting", "associated", "up", "disconnecting"}

-----------------------------------------------------------------------------
VARIABLES
  slot,       \* [Kinds -> callback or NULL]: the three g_js*Callback globals
  locks,      \* locks this file holds on each callback (jsvLockAgainSafe/jsvUnLock)
  jsq,        \* the JS event queue
  thrown,     \* exception raised by the latest API call: "none", "arg", "busy"
  calls,      \* API calls made so far; call n passes callback n
  vq,         \* the ESP-IDF event loop queue of system events
  vStarted,   \* esp_wifi_start has succeeded
  vLink,      \* the vendor's station link
  vAtt,       \* the connect call that began the current link
  vScanning,  \* a scan started by esp_wifi_scan_start is running
  done,       \* history: times each callback was put on the JS queue
  released    \* history: callbacks dropped from a slot without being called

adapter == <<slot, locks, thrown, calls>>
vendor == <<vq, vStarted, vLink, vAtt, vScanning>>
history == <<done, released>>
vars == <<slot, locks, jsq, thrown, calls, vq, vStarted, vLink, vAtt,
          vScanning, done, released>>

-----------------------------------------------------------------------------
(* Helpers for the lock discipline of the globals.                         *)

\* jsvUnLock(g) guarded by g != NULL.
Unlock(l, c) == IF c = NULL THEN l ELSE [l EXCEPT ![c] = @ - 1]

\* jsvLockAgainSafe(c): a NULL pointer stays NULL and takes no lock.
LockAgain(l, c) == IF c = NULL THEN l ELSE [l EXCEPT ![c] = @ + 1]

\* Faulty variant (for the mutation check): the global is unlocked but the
\* pointer is not reset to NULL.
FreeCallbacksKeep(s, K) == s

\* "g = NULL" after the unlock, for the slots in K.
FreeCallbacks(s, K) == [k \in Kinds |-> IF k \in K THEN NULL ELSE s[k]]

\* The callback id call n stores: the function itself, or NULL for undefined.
Stored(cb, n) == IF cb = "fn" THEN n ELSE NULL

\* Queue callback c with argument a: jsiQueueEvents.
QueueCall(c, a) ==
  /\ jsq' = Append(jsq, Call(c, a))
  /\ done' = [done EXCEPT ![c] = @ + 1]

\* sendWifiEvent(e, details): emit on the module if e has a listener name.
sendWifiEvent(q, e) ==
  IF wifiGetEvent(e) = NoName THEN q ELSE Append(q, Emit(wifiGetEvent(e)))

\* Queue callback c, if it is not NULL, with argument a onto q.
QueueIfSet(q, c, a) == IF c = NULL THEN q ELSE Append(q, Call(c, a))
DoneIfSet(c) == IF c = NULL THEN done ELSE [done EXCEPT ![c] = @ + 1]

\* A vendor call fails only where the driver is allowed to fail.
Failures(steps) == IF VendorMayFail THEN steps \cup {"none"} ELSE {"none"}

-----------------------------------------------------------------------------
Init ==
  /\ slot = [k \in Kinds |-> NULL]
  /\ locks = [c \in CbIds |-> 0]
  /\ jsq = << >>
  /\ thrown = "none"
  /\ calls = 0
  /\ vq = << >>
  /\ vStarted = FALSE
  /\ vLink = "idle"
  /\ vAtt = NULL
  /\ vScanning = FALSE
  /\ done = [c \in CbIds |-> 0]
  /\ released = {}

-----------------------------------------------------------------------------
(* The vendor calls an API step makes, as effects on the driver.           *)

\* esp_wifi_disconnect: a link in progress or up is torn down (its
\* STA_DISCONNECTED is posted later); when the station is started but idle
\* the driver may or may not report a disconnection; before esp_wifi_start
\* it returns ESP_ERR_WIFI_NOT_STARTED and does nothing.
esp_wifi_disconnect ==
  /\ vLink' \in IF ~vStarted THEN {vLink}
                ELSE IF vLink \in {"connecting", "associated", "up"}
                     THEN {"disconnecting"}
                     ELSE {vLink, "disconnecting"}
  /\ UNCHANGED <<vq, vStarted, vAtt, vScanning>>

-----------------------------------------------------------------------------
(* Script context: the API calls.  Every call takes the next call number   *)
(* n; a callback argument "fn" is callback n.                              *)

\* jswrap_ESP32_wifi_disconnect(cb)
disconnect(cb) ==
  LET n == calls + 1
      old == slot["disc"]
  IN
  /\ calls < MaxCalls
  /\ calls' = calls + 1
  /\ released' = released \cup ({old} \ {NULL})
  /\ \/ /\ cb \in {"null", "notfn"}                  \* EXPECT_CB_EXCEPTION
        /\ slot' = FreeCallbacks(slot, {"disc"})
        /\ locks' = Unlock(locks, old)
        /\ thrown' = "arg"
        /\ UNCHANGED vendor
     \/ /\ cb \in {"undef", "fn"}
        /\ slot' = [FreeCallbacks(slot, {"disc"}) EXCEPT !["disc"] = Stored(cb, n)]
        /\ locks' = LockAgain(Unlock(locks, old), Stored(cb, n))
        /\ thrown' = "none"
        /\ esp_wifi_disconnect
  /\ UNCHANGED <<jsq, done>>

\* Shapes of the options argument of connect: absent, an object whose
\* password is a string or missing, an object whose password is not a
\* string, and something that is not an object.
ConnectOptions == {"null", "obj", "badpw", "notobj"}
ConnectSteps == {"set_mode", "set_config", "start", "connect"}

\* jswrap_ESP32_wifi_connect(ssid, options, cb); fail names the first
\* esp_wifi_* call that returns an error, "none" if all succeed.
connect(ssidOk, opt, cb, fail) ==
  LET n == calls + 1
      g == slot["gotip"]
      d == slot["disc"]
      started == fail \notin {"set_mode", "set_config", "start"}
      reg == IF started THEN Stored(cb, n) ELSE NULL
  IN
  /\ calls < MaxCalls
  /\ calls' = calls + 1
  /\ \/ /\ ~ssidOk \/ opt = "notobj"     \* "No SSID provided" / EXPECT_OPT_EXCEPTION
        /\ thrown' = "arg"
        /\ UNCHANGED <<slot, locks, released>>
        /\ UNCHANGED vendor
     \/ /\ ssidOk /\ opt # "notobj"
        /\ cb \in {"null", "notfn"}       \* gotIp slot cleared, then EXPECT_CB_EXCEPTION
        /\ slot' = FreeCallbacks(slot, {"gotip"})
        /\ locks' = Unlock(locks, g)
        /\ released' = released \cup ({g} \ {NULL})
        /\ thrown' = "arg"
        /\ UNCHANGED vendor
     \/ /\ ssidOk /\ opt = "badpw"
        /\ cb \in {"undef", "fn"}         \* both slots cleared, then password check
        /\ slot' = FreeCallbacks(slot, {"gotip", "disc"})
        /\ locks' = Unlock(Unlock(locks, g), d)
        /\ released' = released \cup ({g, d} \ {NULL})
        /\ thrown' = "arg"
        /\ UNCHANGED vendor
     \/ /\ ssidOk /\ opt \in {"null", "obj"}
        /\ cb \in {"undef", "fn"}
        \* set_mode, set_config, start; the callback is saved after start,
        \* before esp_wifi_connect
        /\ slot' = [FreeCallbacks(slot, {"gotip", "disc"}) EXCEPT !["gotip"] = reg]
        /\ locks' = LockAgain(Unlock(Unlock(locks, g), d), reg)
        /\ released' = released \cup ({g, d} \ {NULL})
        /\ thrown' = "none"
        /\ vStarted' = (vStarted \/ started)
        /\ IF started /\ fail # "connect"
              THEN vLink' = "connecting" /\ vAtt' = n
              ELSE UNCHANGED <<vLink, vAtt>>
        /\ UNCHANGED <<vq, vScanning>>
  /\ UNCHANGED <<jsq, done>>

ScanSteps == {"set_mode", "start", "scan_start"}

\* jswrap_ESP32_wifi_scan(cb): the callback is saved before the vendor
\* calls; the result of esp_wifi_scan_start is not checked.
scan(cb, fail) ==
  LET n == calls + 1
      started == fail \notin {"set_mode", "start"}
  IN
  /\ calls < MaxCalls
  /\ calls' = calls + 1
  /\ \/ /\ slot["scan"] # NULL           \* "A scan is already in progress."
        /\ thrown' = "busy"
        /\ UNCHANGED <<slot, locks>>
        /\ UNCHANGED vendor
     \/ /\ slot["scan"] = NULL
        /\ cb # "fn"                     \* EXPECT_CB_EXCEPTION
        /\ thrown' = "arg"
        /\ UNCHANGED <<slot, locks>>
        /\ UNCHANGED vendor
     \/ /\ slot["scan"] = NULL
        /\ cb = "fn"
        /\ slot' = [slot EXCEPT !["scan"] = n]
        /\ locks' = LockAgain(locks, n)
        /\ thrown' = "none"
        /\ vStarted' = (vStarted \/ started)
        /\ vScanning' = (vScanning \/ (started /\ fail # "scan_start"))
        /\ UNCHANGED <<vq, vLink, vAtt>>
  /\ UNCHANGED <<jsq, done, released>>

QueryOps == {"getDetails", "getAPDetails", "getIP", "getAPIP"}

\* getDetails, getAPDetails, getIP and getAPIP (through getIPInfo): a
\* callback that is neither null, undefined nor a function throws; a
\* function is queued once with the details object.
query(op, cb) ==
  LET n == calls + 1 IN
  /\ calls < MaxCalls
  /\ calls' = calls + 1
  /\ \/ /\ cb = "notfn"
        /\ thrown' = "arg"
        /\ UNCHANGED <<jsq, done>>
     \/ /\ cb \in {"undef", "null"}
        /\ thrown' = "none"
        /\ UNCHANGED <<jsq, done>>
     \/ /\ cb = "fn"
        /\ Len(jsq) < JsQueueCap
        /\ QueueCall(n, "details")
        /\ thrown' = "none"
  /\ UNCHANGED <<slot, locks, released>>
  /\ UNCHANGED vendor

\* jswrap_ESP32_wifi_getStatus(cb): reads mode and power save; the
\* callback argument is unused.
getStatus(cb) ==
  /\ calls < MaxCalls
  /\ calls' = calls + 1
  /\ thrown' = "none"
  /\ UNCHANGED <<slot, locks, jsq, done, released>>
  /\ UNCHANGED vendor

\* A function that only logs "Not implemented" and returns: nothing changes
\* but the exception state of the call.
NotImplemented ==
  /\ thrown' = "none"
  /\ UNCHANGED <<slot, locks, jsq, calls, done, released>>
  /\ UNCHANGED vendor

stopAP == NotImplemented         \* jswrap_ESP32_wifi_stopAP(cb)
startAP == NotImplemented        \* jswrap_ESP32_wifi_startAP(ssid, opts, cb)
setConfig == NotImplemented      \* jswrap_ESP32_wifi_setConfig(settings)
save == NotImplemented           \* jswrap_ESP32_wifi_save(what)
restore == NotImplemented        \* jswrap_ESP32_wifi_restore()
getHostByName == NotImplemented  \* jswrap_ESP32_wifi_getHostByName(h, cb)
getHostname == NotImplemented    \* jswrap_ESP32_wifi_getHostname(cb)
setHostname == NotImplemented    \* jswrap_ESP32_wifi_setHostname(h)
ping == NotImplemented           \* jswrap_ESP32_ping(ip, cb)

\* The nine operations the file declares but does not implement.
placeholder ==
  \/ stopAP \/ startAP \/ setConfig \/ save \/ restore
  \/ getHostByName \/ getHostname \/ setHostname \/ ping

-----------------------------------------------------------------------------
(* Vendor context: event_handler, called by the ESP-IDF event loop task    *)
(* with the system event at the head of its queue.  Each branch of the     *)
(* handler is an action.                                                   *)

\* The event loop takes the next event; the JS queue must have room for
\* the (at most two) entries one event adds.
TakeEvent(e) ==
  /\ vq # << >>
  /\ Head(vq).id = e
  /\ Len(jsq) + 2 <= JsQueueCap
  /\ vq' = Tail(vq)

\* Faulty variants (for the mutation check): the callback is queued and
\* unlocked but g_jsDisconnectCallback is not reset; the callback is
\* queued and neither unlocked nor reset.
handleStaDisconnectedNoReset ==
  LET c == slot["disc"] IN
  /\ TakeEvent("STA_DISCONNECTED")
  /\ locks' = Unlock(locks, c)
  /\ jsq' = sendWifiEvent(QueueIfSet(jsq, c, "noarg"), "STA_DISCONNECTED")
  /\ done' = DoneIfSet(c)
  /\ UNCHANGED <<slot, thrown, calls, released, vStarted, vLink, vAtt, vScanning>>

handleStaDisconnectedKeep ==
  LET c == slot["disc"] IN
  /\ TakeEvent("STA_DISCONNECTED")
  /\ jsq' = sendWifiEvent(QueueIfSet(jsq, c, "noarg"), "STA_DISCONNECTED")
  /\ done' = DoneIfSet(c)
  /\ UNCHANGED <<slot, locks, thrown, calls, released, vStarted, vLink, vAtt, vScanning>>

\* SYSTEM_EVENT_STA_DISCONNECTED: queue the disconnect callback with no
\* arguments and clear it, then emit "disconnected".
handleStaDisconnected ==
  LET c == slot["disc"] IN
  /\ TakeEvent("STA_DISCONNECTED")
  /\ slot' = [slot EXCEPT !["disc"] = NULL]
  /\ locks' = Unlock(locks, c)
  /\ jsq' = sendWifiEvent(QueueIfSet(jsq, c, "noarg"), "STA_DISCONNECTED")
  /\ done' = DoneIfSet(c)
  /\ UNCHANGED <<thrown, calls, released, vStarted, vLink, vAtt, vScanning>>

\* SYSTEM_EVENT_STA_GOT_IP: sendWifiCompletionCB(&g_jsGotIpCallback, NULL),
\* then emit "connected".
handleStaGotIp ==
  LET c == slot["gotip"] IN
  /\ TakeEvent("STA_GOT_IP")
  /\ slot' = [slot EXCEPT !["gotip"] = NULL]
  /\ locks' = Unlock(locks, c)
  /\ jsq' = sendWifiEvent(QueueIfSet(jsq, c, "null"), "STA_GOT_IP")
  /\ done' = DoneIfSet(c)
  /\ UNCHANGED <<thrown, calls, released, vStarted, vLink, vAtt, vScanning>>

\* SYSTEM_EVENT_STA_CONNECTED, AP_STACONNECTED, AP_STADISCONNECTED: build
\* the details record and emit it.
handlePublish ==
  \E e \in {"STA_CONNECTED", "AP_STACONNECTED", "AP_STADISCONNECTED"} :
    /\ TakeEvent(e)
    /\ jsq' = sendWifiEvent(jsq, e)
    /\ UNCHANGED <<slot, locks, thrown, calls, released, done>>
    /\ UNCHANGED <<vStarted, vLink, vAtt, vScanning>>

\* Faulty variants of scanCB (for the mutation check): the scan callback is
\* not unlocked; it is not reset; the NULL test is inverted.
handleScanDoneLeak ==
  LET c == slot["scan"] IN
  /\ TakeEvent("SCAN_DONE")
  /\ \/ c = NULL /\ UNCHANGED <<slot, locks, jsq, done>>
     \/ c # NULL /\ QueueCall(c, "list") /\ slot' = [slot EXCEPT !["scan"] = NULL]
                 /\ UNCHANGED locks
  /\ UNCHANGED <<thrown, calls, released, vStarted, vLink, vAtt, vScanning>>

handleScanDoneKeep ==
  LET c == slot["scan"] IN
  /\ TakeEvent("SCAN_DONE")
  /\ \/ c = NULL /\ UNCHANGED <<slot, locks, jsq, done>>
     \/ c # NULL /\ QueueCall(c, "list") /\ locks' = Unlock(locks, c)
                 /\ UNCHANGED slot
  /\ UNCHANGED <<thrown, calls, released, vStarted, vLink, vAtt, vScanning>>

handleScanDoneInverted ==
  /\ TakeEvent("SCAN_DONE")
  /\ UNCHANGED <<slot, locks, jsq, done>>
  /\ UNCHANGED <<thrown, calls, released, vStarted, vLink, vAtt, vScanning>>

\* SYSTEM_EVENT_SCAN_DONE -> scanCB: nothing without a scan callback;
\* otherwise the records are fetched, the callback queued with the list,
\* unlocked and cleared.
handleScanDone ==
  LET c == slot["scan"] IN
  /\ TakeEvent("SCAN_DONE")
  /\ \/ /\ c = NULL
        /\ UNCHANGED <<slot, locks, jsq, done>>
     \/ /\ c # NULL
        /\ QueueCall(c, "list")
        /\ slot' = [slot EXCEPT !["scan"] = NULL]
        /\ locks' = Unlock(locks, c)
  /\ UNCHANGED <<thrown, calls, released, vStarted, vLink, vAtt, vScanning>>

\* scanCB when esp_wifi_scan_get_ap_num or _get_ap_records fails:
\* ESP_ERROR_CHECK aborts and the chip restarts; nothing of this file, of
\* the JS queue or of the driver survives.  Pending callbacks are lost.
scanAbort ==
  /\ VendorMayFail
  /\ TakeEvent("SCAN_DONE")
  /\ slot["scan"] # NULL
  /\ slot' = [k \in Kinds |-> NULL]
  /\ locks' = [c \in CbIds |-> 0]
  /\ released' = released \cup ({slot[k] : k \in Kinds} \ {NULL})
  /\ jsq' = << >>
  /\ thrown' = "none"
  /\ vq' = << >>
  /\ vStarted' = FALSE
  /\ vLink' = "idle"
  /\ vAtt' = NULL
  /\ vScanning' = FALSE
  /\ UNCHANGED <<calls, done>>

\* Any other event (auth mode change, start/stop, probe request, ...):
\* event_handler falls through and returns ESP_OK.
handleOther ==
  \E e \in SystemEvents \ {"STA_DISCONNECTED", "STA_CONNECTED", "STA_GOT_IP",
                           "AP_STACONNECTED", "AP_STADISCONNECTED", "SCAN_DONE"} :
    /\ TakeEvent(e)
    /\ UNCHANGED <<slot, locks, jsq, thrown, calls, released, done>>
    /\ UNCHANGED <<vStarted, vLink, vAtt, vScanning>>

event_handler ==
  \/ handleStaDisconnected
  \/ handleStaGotIp
  \/ handlePublish
  \/ handleScanDone
  \/ scanAbort
  \/ handleOther

\* The script's event loop runs the oldest queued callback or event.
runQueued ==
  /\ jsq # << >>
  /\ jsq' = Tail(jsq)
  /\ UNCHANGED <<slot, locks, thrown, calls, done, released>>
  /\ UNCHANGED vendor

-----------------------------------------------------------------------------
(* Environment: the vendor driver posts system events as the radio moves.  *)

Post(e) ==
  /\ Len(vq) < VendorQueueCap
  /\ vq' = Append(vq, VEvent(e, vAtt))

VendorAssociate ==
  /\ vLink = "connecting"
  /\ Post("STA_CONNECTED")
  /\ vLink' = "associated"
  /\ UNCHANGED <<vStarted, vAtt, vScanning>>

VendorGotIp ==
  /\ vLink = "associated"
  /\ Post("STA_GOT_IP")
  /\ vLink' = "up"
  /\ UNCHANGED <<vStarted, vAtt, vScanning>>

\* A connection attempt fails or an established link is lost.
VendorLinkLost ==
  /\ vLink \in {"connecting", "associated", "up"}
  /\ Post("STA_DISCONNECTED")
  /\ vLink' = "idle"
  /\ UNCHANGED <<vStarted, vAtt, vScanning>>

\* A disconnection requested by esp_wifi_disconnect completes.
VendorDisconnected ==
  /\ vLink = "disconnecting"
  /\ Post("STA_DISCONNECTED")
  /\ vLink' = "idle"
  /\ UNCHANGED <<vStarted, vAtt, vScanning>>

VendorAuthChange ==
  /\ vLink \in {"associated", "up"}
  /\ Post("STA_AUTHMODE_CHANGE")
  /\ UNCHANGED <<vStarted, vLink, vAtt, vScanning>>

VendorScanDone ==
  /\ vScanning
  /\ Post("SCAN_DONE")
  /\ vScanning' = FALSE
  /\ UNCHANGED <<vStarted, vLink, vAtt>>

Vendor ==
  /\ \/ VendorAssociate \/ VendorGotIp \/ VendorLinkLost
     \/ VendorDisconnected \/ VendorAuthChange \/ VendorScanDone
  /\ UNCHANGED <<slot, locks, jsq, thrown, calls, done, released>>

-----------------------------------------------------------------------------
Script ==
  \/ \E cb \in CbArgs : disconnect(cb)
  \/ \E ok \in BOOLEAN, opt \in ConnectOptions, cb \in CbArgs,
        f \in Failures(ConnectSteps) : connect(ok, opt, cb, f)
  \/ \E cb \in CbArgs, f \in Failures(ScanSteps) : scan(cb, f)
  \/ \E op \in QueryOps, cb \in CbArgs : query(op, cb)
  \/ \E cb \in CbArgs : getStatus(cb)
  \/ placeholder
  \/ runQueued

Next == Script \/ event_handler \/ Vendor

\* The event loop task runs whenever an event is queued, the script's idle
\* loop runs queued callbacks, and the driver finishes a scan and a
\* requested disconnection.  The last two are strong: only the bound on
\* the event queue, filled by other events, can disable them, and the
\* driver posts its completion whatever else it reports.  Association and
\* DHCP are not assumed to succeed.
Fairness ==
  /\ WF_vars(event_handler)
  /\ WF_vars(runQueued)
  /\ SF_vars(VendorScanDone /\ UNCHANGED <<slot, locks, jsq, thrown, calls, done, released>>)
  /\ SF_vars(VendorDisconnected /\ UNCHANGED <<slot, locks, jsq, thrown, calls, done, released>>)

Spec == Init /\ [][Next]_vars /\ Fairness

-----------------------------------------------------------------------------
(* Properties.                                                             *)

TypeOK ==
  /\ slot \in [Kinds -> {NULL} \cup CbIds]
  /\ locks \in [CbIds -> Nat]
  /\ jsq \in Seq(JsEntries)
  /\ thrown \in {"none", "arg", "busy"}
  /\ calls \in 0 .. MaxCalls
  /\ vq \in Seq(VendorEvents)
  /\ vStarted \in BOOLEAN
  /\ vLink \in LinkStates
  /\ vAtt \in {NULL} \cup CbIds
  /\ vScanning \in BOOLEAN
  /\ done \in [CbIds -> Nat]
  /\ released \in SUBSET CbIds

\* Every callback the script hands to disconnect, connect, scan or a query
\* is put on the JS queue at most once: a slot is consumed when its event
\* is handled, so a repeated STA_DISCONNECTED, STA_GOT_IP or SCAN_DONE
\* calls nobody twice (event_handler, scanCB, sendWifiCompletionCB).
NoDoubleCompletion == \A c \in CbIds : done[c] <= 1

\* A callback is put on the JS queue only by consuming the slot holding it:
\* no handler branch queues a pending callback and leaves it in its slot
\* for a repeated event to find again, and no API call queues a callback
\* that a slot still holds (event_handler, scanCB,
\* sendWifiCompletionCB, the queries' fresh callbacks).
QueueConsumesSlot ==
  [][\A k \in Kinds :
       slot[k] # NULL /\ done'[slot[k]] > done[slot[k]] => slot'[k] = NULL]_vars

\* A callback dropped from its slot without being called (superseded by a
\* new disconnect or connect, cleared by an argument error, lost in an
\* abort) is never called afterwards.
ReleasedNeverCalled == \A c \in released : done[c] = 0

\* The locks this file holds on a callback are exactly the slots holding
\* it: no callback is leaked when a slot is overwritten or cleared, and
\* none is unlocked twice (jsvLockAgainSafe / jsvUnLock pairs).
LocksMatchSlots ==
  \A c \in CbIds : locks[c] = Cardinality({k \in Kinds : slot[k] = c})

\* A pending scan callback is backed by a scan the driver is running or by
\* its SCAN_DONE waiting in the event loop; otherwise no event will ever
\* clear g_jsScanCallback and every later scan() fails with "A scan is
\* already in progress."  (Spec: the callback is registered only after
\* all vendor calls succeed.)
ScanSlotBacked ==
  slot["scan"] # NULL =>
    \/ vScanning
    \/ \E i \in 1 .. Len(vq) : vq[i].id = "SCAN_DONE"

\* A scan callback, once registered, is eventually called with the list.
ScanEventuallyCompletes ==
  \A c \in CbIds : (slot["scan"] = c) ~> (done[c] > 0)

\* The connect callback is called with success only for the link its own
\* connect call began: the STA_GOT_IP that resolves g_jsGotIpCallback is
\* the one of the connect that saved it, not a stale one from an earlier
\* connection still in the event loop's queue.
ConnectCallbackOwnLink ==
  [][\A c \in CbIds :
       (slot["gotip"] = c /\ done'[c] > done[c]) => Head(vq).att = c]_vars

\* Every event that wifiGetEvent maps to a listener name is emitted on
\* that name when event_handler handles it (auth_change, probe_recv,
\* associated, ... are documented events of the Wifi module).
MappedEventsEmitted ==
  [][(vq # << >> /\ vq' = Tail(vq) /\ wifiGetEvent(Head(vq).id) # NoName)
       => /\ Len(jsq') > 0
          /\ jsq'[Len(jsq')] = Emit(wifiGetEvent(Head(vq).id))]_vars

\* disconnect(cb) eventually calls cb or drops it for a newer call:
\* "It is OK to call disconnect ... even if no connection exists".
DisconnectEventuallyCompletes ==
  \A c \in CbIds : (slot["disc"] = c) ~> (slot["disc"] # c)
=============================================================================
