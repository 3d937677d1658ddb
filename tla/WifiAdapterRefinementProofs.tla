--------------------- MODULE WifiAdapterRefinementProofs ---------------------
(***************************************************************************)
(* Proof that WifiAdapter implements PendingCallbacks under the refinement *)
(* mapping of WifiAdapterRefinement, for every value of the constants.     *)
(*                                                                         *)
(* The initial states map to the abstract initial state.  Each step maps   *)
(* to one abstract step or to a stutter:                                   *)
(*   - every API call that counts as a call is an abstract Call, with the  *)
(*     kinds it clears and the kind it registers in (or "now" for a query  *)
(*     that queues its callback);                                          *)
(*   - a resolving branch of event_handler with its slot set is Resolve,   *)
(*     and with its slot empty it is a stutter;                            *)
(*   - the scanCB abort is Abandon;                                        *)
(*   - the placeholders, runQueued, the publishing branches and the driver *)
(*     leave the mapped state alone.                                       *)
(* Only the type of the slots is needed from the inductive invariant of    *)
(* WifiAdapterProofs.                                                      *)
(***************************************************************************)
EXTENDS WifiAdapterRefinement, WifiAdapterProofs

\* The mapped state of PendingCallbacks.
absvars == <<slot, done, released, calls>>

\* The slots are a function on the kinds: what the mapping needs of Inv.
SlotFn == slot \in [Kinds -> {NULL} \cup CbIds]

\* A step of the binding that leaves the mapped state alone.
LEMMA Quiet ==
  ASSUME UNCHANGED absvars
  PROVE  [PC!Next]_PC!vars
BY DEF absvars, PC!vars

\* Abstract Call(K, reg) read through the mapping, when the new slots are
\* given pointwise.
LEMMA CallMapped ==
  ASSUME SlotFn, NEW K \in SUBSET Kinds, NEW reg \in Kinds \cup {"now", "none"},
         calls < MaxCalls, calls' = calls + 1,
         reg \in Kinds => reg \in K \/ slot[reg] = NULL,
         released' = released \cup ({slot[k] : k \in K} \ {NULL}),
         slot' = [k \in Kinds |-> IF k = reg THEN calls + 1
                                  ELSE IF k \in K THEN NULL ELSE slot[k]],
         done' = IF reg = "now" THEN [done EXCEPT ![calls + 1] = @ + 1] ELSE done
  PROVE  PC!Next
<1>1. PC!Call(K, reg)
  BY DEF PC!Call, PC!PendingIn, PC!Kinds, PC!NULL, Kinds, NULL
<1>. QED  BY <1>1 DEF PC!Next, PC!Kinds, Kinds

\* The same for a call that keeps no callback (reg = "none").
LEMMA CallNoneMapped ==
  ASSUME SlotFn, NEW K \in SUBSET Kinds,
         calls < MaxCalls, calls' = calls + 1,
         released' = released \cup ({slot[k] : k \in K} \ {NULL}),
         slot' = [k \in Kinds |-> IF k \in K THEN NULL ELSE slot[k]],
         done' = done
  PROVE  PC!Next
<1>1. PC!Call(K, "none")
  BY DEF PC!Call, PC!PendingIn, PC!Kinds, PC!NULL, Kinds, NULL
<1>. QED  BY <1>1 DEF PC!Next, PC!Kinds, Kinds

\* A call that clears nothing and keeps nothing: Call({}, "none").
LEMMA CallQuietMapped ==
  ASSUME SlotFn, calls < MaxCalls, calls' = calls + 1,
         UNCHANGED <<slot, done, released>>
  PROVE  PC!Next
<1>1. PC!Call({}, "none")
  BY DEF PC!Call, PC!PendingIn, PC!Kinds, PC!NULL, Kinds, NULL, SlotFn
<1>. QED  BY <1>1 DEF PC!Next, PC!Kinds

-----------------------------------------------------------------------------
(* One lemma per action of the binding.                                    *)

\* disconnect: clears the disconnect slot and stores its callback there.
LEMMA DisconnectRefines ==
  ASSUME SlotFn, NEW cb \in CbArgs, disconnect(cb)
  PROVE  PC!Next
<1>1. /\ calls < MaxCalls /\ calls' = calls + 1 /\ done' = done
      /\ released' = released \cup ({slot[k] : k \in {"disc"}} \ {NULL})
  BY DEF disconnect
<1>2. CASE cb \in {"null", "notfn"}
  <2>1. slot' = [k \in Kinds |-> IF k \in {"disc"} THEN NULL ELSE slot[k]]
    BY <1>2 DEF disconnect, FreeCallbacks
  <2>. QED  BY <1>1, <2>1, CallNoneMapped, Zenon DEF Kinds
<1>3. CASE cb = "undef"
  <2>1. slot' = [k \in Kinds |-> IF k \in {"disc"} THEN NULL ELSE slot[k]]
    BY <1>3 DEF disconnect, FreeCallbacks, Stored, Kinds
  <2>. QED  BY <1>1, <2>1, CallNoneMapped, Zenon DEF Kinds
<1>4. CASE cb = "fn"
  <2>1. slot' = [k \in Kinds |-> IF k = "disc" THEN calls + 1
                                 ELSE IF k \in {"disc"} THEN NULL ELSE slot[k]]
    <3>1. slot' = [FreeCallbacks(slot, {"disc"}) EXCEPT !["disc"] = calls + 1]
      BY <1>4 DEF disconnect, Stored
    <3>. QED  BY <3>1 DEF FreeCallbacks, Kinds
  <2>. QED  BY <1>1, <2>1, CallMapped, Zenon DEF Kinds
<1>. QED  BY <1>2, <1>3, <1>4 DEF CbArgs
\* connect: an argument error before the slots keeps nothing; a bad
\* callback clears the got-IP slot; a bad password clears both slots; the
\* vendor path clears both and registers the callback once esp_wifi_start
\* has succeeded.
LEMMA ConnectRefines ==
  ASSUME SlotFn, NEW ok \in BOOLEAN, NEW opt \in ConnectOptions,
         NEW cb \in CbArgs, NEW f \in ConnectSteps \cup {"none"},
         connect(ok, opt, cb, f)
  PROVE  PC!Next
<1>1. /\ calls < MaxCalls /\ calls' = calls + 1 /\ done' = done
  BY DEF connect
<1>2. CASE ~ok \/ opt = "notobj"
  <2>1. UNCHANGED <<slot, released>>
    BY <1>2 DEF connect
  <2>. QED  BY <1>1, <2>1, CallQuietMapped
<1>3. CASE ok /\ opt # "notobj" /\ cb \in {"null", "notfn"}
  <2>1. /\ slot' = [k \in Kinds |-> IF k \in {"gotip"} THEN NULL ELSE slot[k]]
        /\ released' = released \cup ({slot[k] : k \in {"gotip"}} \ {NULL})
    BY <1>3 DEF connect, FreeCallbacks
  <2>. QED  BY <1>1, <2>1, CallNoneMapped, Zenon DEF Kinds
<1>4. CASE ok /\ opt = "badpw" /\ cb \in {"undef", "fn"}
  <2>1. /\ slot' = [k \in Kinds |-> IF k \in {"gotip", "disc"} THEN NULL ELSE slot[k]]
        /\ released' = released \cup ({slot[k] : k \in {"gotip", "disc"}} \ {NULL})
    BY <1>4 DEF connect, FreeCallbacks
  <2>. QED  BY <1>1, <2>1, CallNoneMapped, Zenon DEF Kinds
<1>5. CASE ok /\ opt \in {"null", "obj"} /\ cb \in {"undef", "fn"}
  <2>. DEFINE started == f \notin {"set_mode", "set_config", "start"}
              reg == IF started THEN Stored(cb, calls + 1) ELSE NULL
  <2>1. /\ slot' = [FreeCallbacks(slot, {"gotip", "disc"}) EXCEPT !["gotip"] = reg]
        /\ released' = released \cup ({slot[k] : k \in {"gotip", "disc"}} \ {NULL})
    BY <1>5 DEF connect
  <2>2. CASE reg = NULL
    <3>1. slot' = [k \in Kinds |-> IF k \in {"gotip", "disc"} THEN NULL ELSE slot[k]]
      BY <2>1, <2>2 DEF FreeCallbacks, Kinds
    <3>. QED  BY <1>1, <2>1, <3>1, CallNoneMapped, Zenon DEF Kinds
  <2>3. CASE reg # NULL
    <3>1. reg = calls + 1
      BY <2>3 DEF Stored
    <3>2. slot' = [k \in Kinds |-> IF k = "gotip" THEN calls + 1
                                   ELSE IF k \in {"gotip", "disc"} THEN NULL ELSE slot[k]]
      BY <2>1, <3>1 DEF FreeCallbacks, Kinds
    <3>. QED  BY <1>1, <2>1, <3>2, CallMapped, Zenon DEF Kinds
  <2>. QED  BY <2>2, <2>3
<1>. QED  BY <1>2, <1>3, <1>4, <1>5 DEF ConnectOptions, CbArgs

\* scan: "already in progress" and a bad callback keep nothing; otherwise
\* the callback is registered in the free scan slot.
LEMMA ScanRefines ==
  ASSUME SlotFn, NEW cb \in CbArgs, NEW f \in ScanSteps \cup {"none"},
         scan(cb, f)
  PROVE  PC!Next
<1>1. /\ calls < MaxCalls /\ calls' = calls + 1 /\ done' = done
      /\ released' = released
  BY DEF scan
<1>2. CASE slot["scan"] # NULL \/ cb # "fn"
  <2>1. slot' = slot
    BY <1>2 DEF scan
  <2>. QED  BY <1>1, <2>1, CallQuietMapped
<1>3. CASE slot["scan"] = NULL /\ cb = "fn"
  <2>1. slot' = [k \in Kinds |-> IF k = "scan" THEN calls + 1
                                 ELSE IF k \in {} THEN NULL ELSE slot[k]]
    BY <1>3 DEF scan, SlotFn
  <2>2. released' = released \cup ({slot[k] : k \in {}} \ {NULL})
    BY <1>1
  <2>. QED  BY <1>1, <1>3, <2>1, <2>2, CallMapped, Zenon DEF Kinds
<1>. QED  BY <1>2, <1>3

\* A query keeps no callback; a function is queued at once.
LEMMA QueryRefines ==
  ASSUME SlotFn, NEW op \in QueryOps, NEW cb \in CbArgs, query(op, cb)
  PROVE  PC!Next
<1>1. /\ calls < MaxCalls /\ calls' = calls + 1
      /\ released' = released /\ slot' = slot
  BY DEF query
<1>2. CASE cb # "fn"
  <2>1. done' = done
    BY <1>2 DEF query
  <2>. QED  BY <1>1, <2>1, CallQuietMapped
<1>3. CASE cb = "fn"
  <2>1. done' = [done EXCEPT ![calls + 1] = @ + 1]
    BY <1>3 DEF query, QueueCall
  <2>2. /\ slot' = [k \in Kinds |-> IF k = "now" THEN calls + 1
                                    ELSE IF k \in {} THEN NULL ELSE slot[k]]
        /\ released' = released \cup ({slot[k] : k \in {}} \ {NULL})
    BY <1>1 DEF Kinds, SlotFn
  <2>. QED  BY <1>1, <2>1, <2>2, CallMapped, Zenon DEF Kinds
<1>. QED  BY <1>2, <1>3

\* getStatus counts as a call and keeps nothing.
LEMMA GetStatusRefines ==
  ASSUME SlotFn, NEW cb \in CbArgs, getStatus(cb)
  PROVE  PC!Next
<1>1. /\ calls < MaxCalls /\ calls' = calls + 1
      /\ UNCHANGED <<slot, done, released>>
  BY DEF getStatus
<1>. QED  BY <1>1, CallQuietMapped

\* A branch of event_handler that queues, unlocks and clears the slot of
\* kind k: Resolve(k), or a stutter when the slot is empty.
LEMMA ResolveMapped ==
  ASSUME SlotFn, NEW k \in Kinds,
         slot' = [slot EXCEPT ![k] = NULL],
         done' = DoneIfSet(slot[k]),
         UNCHANGED <<released, calls>>
  PROVE  [PC!Next]_PC!vars
<1>1. CASE slot[k] = NULL
  <2>1. slot' = slot /\ done' = done
    BY <1>1 DEF SlotFn, DoneIfSet
  <2>. QED  BY <2>1, Quiet DEF absvars
<1>2. CASE slot[k] # NULL
  <2>1. PC!Resolve(k)
    BY <1>2 DEF PC!Resolve, PC!NULL, NULL, DoneIfSet
  <2>. QED  BY <2>1 DEF PC!Next, PC!Kinds, Kinds
<1>. QED  BY <1>1, <1>2

\* The scanCB abort drops every pending callback.
LEMMA ScanAbortRefines ==
  ASSUME scanAbort
  PROVE  PC!Next
<1>1. PC!Abandon
  BY DEF scanAbort, PC!Abandon, PC!PendingIn, PC!Kinds, PC!NULL, Kinds, NULL
<1>. QED  BY <1>1 DEF PC!Next

\* Every step of the binding is an abstract step or a stutter.
LEMMA StepRefines ==
  ASSUME Inv, [Next]_vars
  PROVE  [PC!Next]_PC!vars
<1>0. SlotFn
  BY DEF Inv, SlotInv, SlotTypes, SlotFn
<1>1. CASE \E cb \in CbArgs : disconnect(cb)
  BY <1>0, <1>1, DisconnectRefines
<1>2. CASE \E ok \in BOOLEAN, opt \in ConnectOptions, cb \in CbArgs,
             f \in Failures(ConnectSteps) : connect(ok, opt, cb, f)
  <2>1. Failures(ConnectSteps) \subseteq ConnectSteps \cup {"none"}
    BY DEF Failures
  <2>. QED  BY <1>0, <1>2, <2>1, ConnectRefines
<1>3. CASE \E cb \in CbArgs, f \in Failures(ScanSteps) : scan(cb, f)
  <2>1. Failures(ScanSteps) \subseteq ScanSteps \cup {"none"}
    BY DEF Failures
  <2>. QED  BY <1>0, <1>3, <2>1, ScanRefines
<1>4. CASE \E op \in QueryOps, cb \in CbArgs : query(op, cb)
  BY <1>0, <1>4, QueryRefines
<1>5. CASE \E cb \in CbArgs : getStatus(cb)
  BY <1>0, <1>5, GetStatusRefines
<1>6. CASE placeholder \/ runQueued \/ handlePublish \/ handleOther \/ Vendor
  <2>1. UNCHANGED absvars
    BY <1>6 DEF placeholder,
       stopAP, startAP, setConfig, save, restore, getHostByName, getHostname,
       setHostname, ping, NotImplemented, runQueued, handlePublish, handleOther, Vendor, absvars
  <2>. QED  BY <2>1, Quiet
<1>7. CASE handleStaDisconnected
  <2>1. "disc" \in Kinds
    BY DEF Kinds
  <2>. QED  BY <1>0, <1>7, <2>1, ResolveMapped DEF handleStaDisconnected
<1>8. CASE handleStaGotIp
  <2>1. "gotip" \in Kinds
    BY DEF Kinds
  <2>. QED  BY <1>0, <1>8, <2>1, ResolveMapped DEF handleStaGotIp
<1>9. CASE handleScanDone
  <2>1. "scan" \in Kinds
    BY DEF Kinds
  <2>2. CASE slot["scan"] = NULL
    <3>1. UNCHANGED absvars
      BY <1>9, <2>2 DEF handleScanDone, absvars
    <3>. QED  BY <3>1, Quiet
  <2>3. CASE slot["scan"] # NULL
    <3>1. /\ slot' = [slot EXCEPT !["scan"] = NULL]
          /\ done' = DoneIfSet(slot["scan"])
          /\ UNCHANGED <<released, calls>>
      BY <1>9, <2>3 DEF handleScanDone, QueueCall, DoneIfSet
    <3>. QED  BY <1>0, <2>1, <3>1, ResolveMapped
  <2>. QED  BY <2>2, <2>3
<1>10. CASE scanAbort
  BY <1>10, ScanAbortRefines
<1>11. CASE UNCHANGED vars
  BY <1>11, Quiet DEF vars, absvars
<1>. QED
  BY <1>1, <1>2, <1>3, <1>4, <1>5, <1>6, <1>7, <1>8, <1>9, <1>10, <1>11
  DEF Next, Script, event_handler

-----------------------------------------------------------------------------
\* The binding implements the abstract pending-callback registers: every
\* behaviour of disconnect, connect, scan, the queries and event_handler
\* (the scanCB abort included) is a behaviour of PendingCallbacks, so each
\* slot holds at most one pending callback, each callback resolves by one
\* call or one release.  This is the property the run
\* WifiAdapterRefinement_safety checks with TLC.
THEOREM Refinement == Spec => PCSpec
<1>1. Init => PC!Init
  BY DEF Init, PC!Init, PC!Kinds, PC!NULL, PC!CbIds, Kinds, NULL, CbIds
<1>2. Inv /\ [Next]_vars => [PC!Next]_PC!vars
  BY StepRefines
<1>. QED  BY <1>1, <1>2, InvHolds, PTL DEF Spec, PCSpec, PC!Spec
=============================================================================
