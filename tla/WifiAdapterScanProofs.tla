------------------------ MODULE WifiAdapterScanProofs ------------------------
(***************************************************************************)
(* Proof, for every value of MaxCalls and of the queue bounds, that a      *)
(* pending scan callback is always backed by a running scan or by its      *)
(* SCAN_DONE in the event loop's queue (ScanSlotBacked, checked by the     *)
(* run WifiAdapter_reliable), when the driver calls do not fail.           *)
(*                                                                         *)
(* The hypothesis ~VendorMayFail is the whole point: with it, scan()       *)
(* reaches esp_wifi_scan_start every time it stores g_jsScanCallback, so   *)
(* the driver is scanning.  The run WifiAdapter_scanwedge shows the        *)
(* property false without it (a failed esp_wifi_start leaves the slot set  *)
(* with nothing to clear it).                                              *)
(*                                                                         *)
(* ScanSlotBacked is inductive given the type invariant, which             *)
(* WifiAdapterProofs proves: the only steps that take the backing away     *)
(* are the driver finishing the scan, which posts SCAN_DONE, and           *)
(* event_handler taking SCAN_DONE off the queue, which clears the slot     *)
(* (scanCB).  Every other event taken off the queue is not SCAN_DONE, so   *)
(* a SCAN_DONE behind it stays in the queue.                               *)
(***************************************************************************)
EXTENDS WifiAdapterProofs, SequenceTheorems

\* A SCAN_DONE event waits in the event loop's queue.
ScanDoneQueued(q) == \E i \in 1 .. Len(q) : q[i].id = "SCAN_DONE"

-----------------------------------------------------------------------------
(* Lemmas on the event loop's queue.                                       *)

\* Taking an event other than SCAN_DONE off the queue keeps a queued
\* SCAN_DONE in it.
LEMMA TailKeepsScanDone ==
  ASSUME NEW q \in Seq(VendorEvents), q # << >>,
         Head(q).id # "SCAN_DONE", ScanDoneQueued(q)
  PROVE  ScanDoneQueued(Tail(q))
<1>1. PICK i \in 1 .. Len(q) : q[i].id = "SCAN_DONE"
  BY DEF ScanDoneQueued
<1>2. i # 1
  BY <1>1
<1>3. /\ Len(Tail(q)) = Len(q) - 1
      /\ \A j \in 1 .. Len(Tail(q)) : Tail(q)[j] = q[j + 1]
  BY HeadTailProperties
<1>4. i - 1 \in 1 .. Len(Tail(q)) /\ Tail(q)[i - 1] = q[i]
  BY <1>1, <1>2, <1>3
<1>. QED  BY <1>1, <1>4 DEF ScanDoneQueued

\* Posting an event keeps a queued SCAN_DONE, and posting SCAN_DONE
\* queues one.
LEMMA AppendScanDone ==
  ASSUME NEW q \in Seq(VendorEvents), NEW ev \in VendorEvents
  PROVE  /\ ScanDoneQueued(q) => ScanDoneQueued(Append(q, ev))
         /\ ev.id = "SCAN_DONE" => ScanDoneQueued(Append(q, ev))
<1>1. /\ Len(Append(q, ev)) = Len(q) + 1
      /\ \A j \in 1 .. Len(q) : Append(q, ev)[j] = q[j]
      /\ Append(q, ev)[Len(q) + 1] = ev
  BY AppendProperties
<1>. QED  BY <1>1 DEF ScanDoneQueued

-----------------------------------------------------------------------------
(* One lemma per kind of step.                                             *)

\* A step that leaves the scan slot, the scan and the event queue alone.
LEMMA QuietBacked ==
  ASSUME ScanSlotBacked, slot'["scan"] = slot["scan"],
         vScanning' = vScanning, vq' = vq
  PROVE  ScanSlotBacked'
BY DEF ScanSlotBacked

\* An event other than SCAN_DONE taken off the queue by a branch of
\* event_handler that leaves the scan slot and the scan alone.
LEMMA OtherEventBacked ==
  ASSUME TypeOK, ScanSlotBacked, NEW e, e # "SCAN_DONE", TakeEvent(e),
         slot'["scan"] = slot["scan"], vScanning' = vScanning
  PROVE  ScanSlotBacked'
<1>1. vq # << >> /\ Head(vq).id = e /\ vq' = Tail(vq)
  BY DEF TakeEvent
<1>2. vq \in Seq(VendorEvents)
  BY DEF TypeOK
<1>3. ScanDoneQueued(vq) => ScanDoneQueued(vq')
  BY <1>1, <1>2, TailKeepsScanDone
<1>. QED  BY <1>3 DEF ScanSlotBacked, ScanDoneQueued

\* disconnect rewrites the disc slot only, and leaves the driver's scan and
\* event queue alone.
LEMMA DisconnectBacked ==
  ASSUME TypeOK, ScanSlotBacked, NEW cb \in CbArgs, disconnect(cb)
  PROVE  ScanSlotBacked'
<1>1. slot \in [Kinds -> {NULL} \cup CbIds]
  BY DEF TypeOK
<1>2. slot'["scan"] = slot["scan"]
  BY <1>1 DEF disconnect, FreeCallbacks, Kinds
<1>3. vScanning' = vScanning /\ vq' = vq
  BY DEF disconnect, vendor, esp_wifi_disconnect
<1>. QED  BY <1>2, <1>3, QuietBacked

\* connect rewrites the disc and gotip slots only, and starts no scan.
LEMMA ConnectBacked ==
  ASSUME TypeOK, ScanSlotBacked, NEW ok, NEW opt, NEW cb, NEW f,
         connect(ok, opt, cb, f)
  PROVE  ScanSlotBacked'
<1>1. slot \in [Kinds -> {NULL} \cup CbIds]
  BY DEF TypeOK
<1>2. slot'["scan"] = slot["scan"]
  BY <1>1 DEF connect, FreeCallbacks, Kinds
<1>3. vScanning' = vScanning /\ vq' = vq
  BY DEF connect, vendor
<1>. QED  BY <1>2, <1>3, QuietBacked

\* scan() stores its callback only together with a scan the driver runs,
\* because no vendor call fails.
LEMMA ScanBacked ==
  ASSUME ~VendorMayFail, TypeOK, ScanSlotBacked,
         NEW cb, NEW f \in Failures(ScanSteps), scan(cb, f)
  PROVE  ScanSlotBacked'
<1>1. f = "none"
  BY DEF Failures
<1>2. CASE slot["scan"] # NULL \/ cb # "fn"
  <2>1. slot' = slot /\ vScanning' = vScanning /\ vq' = vq
    BY <1>2 DEF scan, vendor
  <2>. QED  BY <2>1, QuietBacked
<1>3. CASE slot["scan"] = NULL /\ cb = "fn"
  <2>1. vScanning' = TRUE
    BY <1>1, <1>3 DEF scan
  <2>. QED  BY <2>1 DEF ScanSlotBacked
<1>. QED  BY <1>2, <1>3

\* scanCB: with a callback pending it is queued and the slot cleared;
\* without one nothing changes.
LEMMA ScanDoneBacked ==
  ASSUME TypeOK, ScanSlotBacked, handleScanDone
  PROVE  ScanSlotBacked'
<1>1. slot \in [Kinds -> {NULL} \cup CbIds]
  BY DEF TypeOK
<1>2. CASE slot["scan"] = NULL
  <2>1. slot' = slot
    BY <1>2 DEF handleScanDone
  <2>. QED  BY <1>2, <2>1 DEF ScanSlotBacked
<1>3. CASE slot["scan"] # NULL
  <2>1. slot' = [slot EXCEPT !["scan"] = NULL]
    BY <1>3 DEF handleScanDone
  <2>2. slot'["scan"] = NULL
    BY <1>1, <2>1 DEF Kinds
  <2>. QED  BY <2>2 DEF ScanSlotBacked
<1>. QED  BY <1>2, <1>3

\* The driver posting events: finishing a scan posts its SCAN_DONE, any
\* other post only lengthens the queue.
LEMMA VendorBacked ==
  ASSUME TypeOK, ScanSlotBacked, Vendor
  PROVE  ScanSlotBacked'
<1>1. slot' = slot
  BY DEF Vendor
<1>2. vq \in Seq(VendorEvents) /\ vAtt \in 0 .. MaxCalls
  BY ConstantsAssumption DEF TypeOK, NULL, CbIds
<1>3. CASE VendorScanDone
  <2>1. vq' = Append(vq, VEvent("SCAN_DONE", vAtt))
    BY <1>3 DEF VendorScanDone, Post
  <2>2. VEvent("SCAN_DONE", vAtt) \in VendorEvents
    BY <1>2 DEF VEvent, VendorEvents, SystemEvents
  <2>3. VEvent("SCAN_DONE", vAtt).id = "SCAN_DONE"
    BY DEF VEvent
  <2>4. ScanDoneQueued(vq')
    BY <1>2, <2>1, <2>2, <2>3, AppendScanDone
  <2>. QED  BY <2>4 DEF ScanSlotBacked, ScanDoneQueued
<1>4. CASE ~VendorScanDone
  <2>1. vScanning' = vScanning
    BY <1>4 DEF Vendor, VendorAssociate, VendorGotIp, VendorLinkLost,
       VendorDisconnected, VendorAuthChange
  <2>2. PICK e \in SystemEvents : vq' = Append(vq, VEvent(e, vAtt))
    BY DEF Vendor, VendorAssociate, VendorGotIp, VendorLinkLost,
       VendorDisconnected, VendorAuthChange, VendorScanDone, Post, SystemEvents
  <2>3. VEvent(e, vAtt) \in VendorEvents
    BY <1>2 DEF VEvent, VendorEvents
  <2>4. ScanDoneQueued(vq) => ScanDoneQueued(vq')
    BY <1>2, <2>2, <2>3, AppendScanDone
  <2>. QED  BY <1>1, <2>1, <2>4 DEF ScanSlotBacked, ScanDoneQueued
<1>. QED  BY <1>3, <1>4

\* Every step keeps ScanSlotBacked when no driver call fails: one case per
\* API call, per branch of event_handler and for the driver.
LEMMA StepBacked ==
  ASSUME ~VendorMayFail, TypeOK, ScanSlotBacked, [Next]_vars
  PROVE  ScanSlotBacked'
<1>1. CASE \E cb \in CbArgs : disconnect(cb)
  BY <1>1, DisconnectBacked
<1>2. CASE \E ok \in BOOLEAN, opt \in ConnectOptions, cb \in CbArgs,
             f \in Failures(ConnectSteps) : connect(ok, opt, cb, f)
  BY <1>2, ConnectBacked
<1>3. CASE \E cb \in CbArgs, f \in Failures(ScanSteps) : scan(cb, f)
  BY <1>3, ScanBacked
<1>4. CASE \/ \E op \in QueryOps, cb \in CbArgs : query(op, cb)
           \/ \E cb \in CbArgs : getStatus(cb)
           \/ placeholder
           \/ runQueued
  <2>1. slot' = slot /\ vScanning' = vScanning /\ vq' = vq
    BY <1>4 DEF query, getStatus, placeholder,
       stopAP, startAP, setConfig, save, restore, getHostByName, getHostname,
       setHostname, ping, NotImplemented, runQueued, vendor
  <2>. QED  BY <2>1, QuietBacked
<1>5. CASE handleStaDisconnected
  <2>1. slot \in [Kinds -> {NULL} \cup CbIds]
    BY DEF TypeOK
  <2>2. slot'["scan"] = slot["scan"] /\ vScanning' = vScanning
    BY <1>5, <2>1 DEF handleStaDisconnected, Kinds
  <2>. QED  BY <1>5, <2>2, OtherEventBacked DEF handleStaDisconnected
<1>6. CASE handleStaGotIp
  <2>1. slot \in [Kinds -> {NULL} \cup CbIds]
    BY DEF TypeOK
  <2>2. slot'["scan"] = slot["scan"] /\ vScanning' = vScanning
    BY <1>6, <2>1 DEF handleStaGotIp, Kinds
  <2>. QED  BY <1>6, <2>2, OtherEventBacked DEF handleStaGotIp
<1>7. CASE handlePublish \/ handleOther
  <2>1. PICK e : /\ e # "SCAN_DONE"
                 /\ TakeEvent(e)
                 /\ slot' = slot /\ vScanning' = vScanning
    BY <1>7 DEF handlePublish, handleOther
  <2>. QED  BY <2>1, OtherEventBacked
<1>8. CASE handleScanDone
  BY <1>8, ScanDoneBacked
<1>9. CASE scanAbort
  BY <1>9 DEF scanAbort
<1>10. CASE Vendor
  BY <1>10, VendorBacked
<1>11. CASE UNCHANGED vars
  BY <1>11, QuietBacked DEF vars
<1>. QED
  BY <1>1, <1>2, <1>3, <1>4, <1>5, <1>6, <1>7, <1>8, <1>9, <1>10, <1>11
  DEF Next, Script, event_handler

-----------------------------------------------------------------------------
(* The theorem.                                                            *)

\* When the driver calls do not fail, g_jsScanCallback is set only while a
\* scan runs or its SCAN_DONE waits in the event loop's queue, so scanCB
\* will find and clear it and a later scan() is not refused with "A scan
\* is already in progress" for ever.
THEOREM ScanSlotBackedHolds ==
  ASSUME ~VendorMayFail
  PROVE  Spec => []ScanSlotBacked
<1>1. Init => ScanSlotBacked
  BY DEF Init, ScanSlotBacked, Kinds
<1>2. TypeOK /\ ScanSlotBacked /\ [Next]_vars => ScanSlotBacked'
  BY StepBacked
<1>. QED  BY <1>1, <1>2, TypeCorrect, PTL DEF Spec

=============================================================================
