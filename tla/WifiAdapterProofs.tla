-------------------------- MODULE WifiAdapterProofs --------------------------
(***************************************************************************)
(* Proofs, for every value of the constants, of the safety invariants of   *)
(* WifiAdapter that the run WifiAdapter_safety checks on a small instance: *)
(* the type invariant, that no callback is queued twice, that a dropped    *)
(* callback is never called, and that the locks held on callbacks match    *)
(* the slots holding them.                                                 *)
(*                                                                         *)
(* None of them is inductive alone.  The strengthening Inv adds what the   *)
(* code keeps true between calls:                                          *)
(*   - a callback in a slot belongs to an earlier call, has not been       *)
(*     queued and has not been dropped;                                    *)
(*   - a callback not yet handed to any call has not been queued or        *)
(*     dropped (so the fresh callback of call n starts clean);             *)
(*   - no callback sits in two slots (so resolving one slot cannot leave   *)
(*     an already-called callback in another);                             *)
(*   - each callback holds one lock per slot holding it, stated without    *)
(*     Cardinality as "1 if some slot holds it, else 0".                   *)
(***************************************************************************)
EXTENDS WifiAdapter, TLAPS, FiniteSetTheorems

-----------------------------------------------------------------------------
(* The inductive invariant.                                                *)

\* The type of the adapter's own state and of the history.
SlotTypes ==
  /\ slot \in [Kinds -> {NULL} \cup CbIds]
  /\ locks \in [CbIds -> Nat]
  /\ calls \in 0 .. MaxCalls
  /\ done \in [CbIds -> Nat]
  /\ released \in SUBSET CbIds

\* The type of the queues, the exception and the driver.
EnvTypes ==
  /\ jsq \in Seq(JsEntries)
  /\ thrown \in {"none", "arg", "busy"}
  /\ vq \in Seq(VendorEvents)
  /\ vStarted \in BOOLEAN
  /\ vLink \in LinkStates
  /\ vAtt \in {NULL} \cup CbIds
  /\ vScanning \in BOOLEAN

\* A callback held in some slot.
Held(c) == slot["disc"] = c \/ slot["gotip"] = c \/ slot["scan"] = c

\* A callback in a slot was passed by an earlier call, has not been
\* queued and has not been dropped.
SlotsFresh ==
  \A k \in Kinds : slot[k] # NULL =>
    /\ slot[k] <= calls
    /\ done[slot[k]] = 0
    /\ slot[k] \notin released

\* No callback sits in two slots.
SlotsDistinct ==
  /\ slot["disc"] # NULL => slot["disc"] \notin {slot["gotip"], slot["scan"]}
  /\ slot["gotip"] # NULL => slot["gotip"] # slot["scan"]

\* The callback of a call not yet made is neither queued nor dropped.
FutureClean == \A c \in CbIds : c > calls => done[c] = 0 /\ c \notin released

\* One lock per slot holding the callback.
LocksHeld == \A c \in CbIds : locks[c] = IF Held(c) THEN 1 ELSE 0

\* The part of the invariant about the slots, the locks and the history.
SlotInv ==
  /\ SlotTypes
  /\ SlotsFresh
  /\ SlotsDistinct
  /\ FutureClean
  /\ LocksHeld
  /\ NoDoubleCompletion
  /\ ReleasedNeverCalled

Inv == SlotInv /\ EnvTypes

-----------------------------------------------------------------------------
(* Lemmas on the operators the model is built from.                        *)

\* TypeOK is the conjunction of the two type predicates.
LEMMA TypeSplit == TypeOK <=> SlotTypes /\ EnvTypes
BY DEF TypeOK, SlotTypes, EnvTypes

\* The listener name of a mapped event is one of the module's event names,
\* so sendWifiEvent keeps the JS queue well formed.
LEMMA SendWifiEventType ==
  ASSUME NEW q \in Seq(JsEntries), NEW e \in SystemEvents
  PROVE  sendWifiEvent(q, e) \in Seq(JsEntries)
<1>1. wifiGetEvent(e) # NoName => wifiGetEvent(e) \in EventNames
  BY DEF EventNames
<1>2. wifiGetEvent(e) # NoName => Emit(wifiGetEvent(e)) \in JsEntries
  BY <1>1 DEF Emit, JsEntries, NULL
<1>. QED  BY <1>2 DEF sendWifiEvent

\* Queueing a callback that is NULL or a valid id keeps the queue well formed.
LEMMA QueueIfSetType ==
  ASSUME NEW q \in Seq(JsEntries), NEW c \in {NULL} \cup CbIds,
         NEW a \in CallArgs
  PROVE  QueueIfSet(q, c, a) \in Seq(JsEntries)
BY DEF QueueIfSet, Call, JsEntries

\* jsvUnLock of a callback that holds a lock: one lock fewer, on it only.
LEMMA UnlockValue ==
  ASSUME NEW l \in [CbIds -> Nat], NEW c \in {NULL} \cup CbIds,
         c # NULL => l[c] >= 1
  PROVE  /\ Unlock(l, c) \in [CbIds -> Nat]
         /\ \A x \in CbIds : Unlock(l, c)[x] = IF x = c THEN l[x] - 1 ELSE l[x]
BY DEF Unlock, NULL, CbIds

\* jsvLockAgainSafe: one lock more on a callback, none on NULL.
LEMMA LockAgainValue ==
  ASSUME NEW l \in [CbIds -> Nat], NEW c \in {NULL} \cup CbIds
  PROVE  /\ LockAgain(l, c) \in [CbIds -> Nat]
         /\ \A x \in CbIds : LockAgain(l, c)[x] = IF x = c THEN l[x] + 1 ELSE l[x]
BY DEF LockAgain, NULL, CbIds

\* A step that leaves the slots, the locks and the history alone, and at
\* most takes one more call number, keeps SlotInv.
LEMMA SlotsStable ==
  ASSUME SlotInv, slot' = slot, locks' = locks, done' = done,
         released' = released, calls' \in {calls, calls + 1},
         calls' <= MaxCalls
  PROVE  SlotInv'
<1>1. calls' \in 0 .. MaxCalls /\ calls <= calls'
  BY DEF SlotInv, SlotTypes
<1>2. SlotTypes'
  BY <1>1 DEF SlotInv, SlotTypes
<1>3. SlotsFresh'
  BY <1>1 DEF SlotInv, SlotTypes, SlotsFresh, Kinds, NULL, CbIds
<1>6. SlotsDistinct' /\ LocksHeld'
  BY DEF SlotInv, SlotsDistinct, LocksHeld, Held
<1>4. FutureClean'
  BY <1>1 DEF SlotInv, SlotTypes, FutureClean, CbIds
<1>5. NoDoubleCompletion' /\ ReleasedNeverCalled'
  BY DEF SlotInv, NoDoubleCompletion, ReleasedNeverCalled
<1>. QED  BY <1>2, <1>3, <1>4, <1>5, <1>6 DEF SlotInv

\* event_handler resolving slot k (STA_DISCONNECTED, STA_GOT_IP, SCAN_DONE
\* with a callback set): the callback is queued once, unlocked and cleared.
LEMMA SlotResolved ==
  ASSUME SlotInv, NEW k \in Kinds, slot[k] # NULL,
         slot' = [slot EXCEPT ![k] = NULL],
         locks' = Unlock(locks, slot[k]),
         done' = [done EXCEPT ![slot[k]] = @ + 1],
         released' = released, calls' = calls
  PROVE  SlotInv'
<1>. DEFINE c == slot[k]
<1>1. /\ c \in CbIds /\ c <= calls /\ done[c] = 0 /\ c \notin released
      /\ locks[c] = 1
  BY DEF SlotInv, SlotTypes, SlotsFresh, LocksHeld, Held, Kinds, NULL
<1>2. \A j \in Kinds : j # k => slot[j] # c
  BY DEF SlotInv, SlotsDistinct, Kinds, NULL
<1>3. /\ slot' \in [Kinds -> {NULL} \cup CbIds]
      /\ \A j \in Kinds : slot'[j] = IF j = k THEN NULL ELSE slot[j]
  BY DEF SlotInv, SlotTypes
<1>4. /\ locks' \in [CbIds -> Nat]
      /\ \A x \in CbIds : locks'[x] = IF x = c THEN 0 ELSE locks[x]
  BY <1>1, UnlockValue DEF SlotInv, SlotTypes
<1>5. /\ done' \in [CbIds -> Nat]
      /\ \A x \in CbIds : done'[x] = IF x = c THEN 1 ELSE done[x]
  BY <1>1 DEF SlotInv, SlotTypes
<1>6. SlotTypes'
  BY <1>3, <1>4, <1>5 DEF SlotInv, SlotTypes
<1>7. SlotsFresh'
  BY <1>1, <1>2, <1>3, <1>5 DEF SlotInv, SlotTypes, SlotsFresh, Kinds, NULL, CbIds
<1>8. SlotsDistinct'
  BY <1>3 DEF SlotInv, SlotsDistinct, Kinds, NULL
<1>9. FutureClean'
  BY <1>1, <1>5 DEF SlotInv, SlotTypes, FutureClean, CbIds
<1>10. LocksHeld'
  <2>1. \A x \in CbIds : Held(x)' <=> Held(x) /\ x # c
    BY <1>1, <1>2, <1>3 DEF Held, Kinds, NULL, CbIds
  <2>. QED  BY <1>1, <1>4, <2>1 DEF SlotInv, LocksHeld
<1>11. NoDoubleCompletion' /\ ReleasedNeverCalled'
  BY <1>1, <1>5 DEF SlotInv, SlotTypes, NoDoubleCompletion, ReleasedNeverCalled
<1>. QED  BY <1>6, <1>7, <1>8, <1>9, <1>10, <1>11 DEF SlotInv

\* The callbacks that clearing the slots in K drops.
Freed(K) == {slot[k] : k \in K} \ {NULL}

\* disconnect, connect and scan: the slots in K are unlocked and cleared,
\* then slot j (one of them) receives r, the NULL pointer or the fresh
\* callback of this call, with one lock on it.
LEMMA SlotsRebound ==
  ASSUME SlotInv, NEW K \in SUBSET Kinds, NEW j \in K,
         NEW r \in {NULL, calls + 1}, calls < MaxCalls,
         slot' \in [Kinds -> {NULL} \cup CbIds],
         \A k \in Kinds : slot'[k] = IF k = j THEN r
                                     ELSE IF k \in K THEN NULL ELSE slot[k],
         locks' \in [CbIds -> Nat],
         \A x \in CbIds : locks'[x] = IF x = r THEN 1
                                      ELSE IF x \in Freed(K) THEN 0 ELSE locks[x],
         done' = done, released' = released \cup Freed(K), calls' = calls + 1
  PROVE  SlotInv'
<1>1. r # NULL => /\ r \in CbIds /\ r > calls /\ done[r] = 0
                  /\ r \notin released /\ ~Held(r)
  BY DEF SlotInv, SlotTypes, FutureClean, SlotsFresh, Held, Kinds, NULL, CbIds
<1>2. \A x \in Freed(K) : /\ x \in CbIds /\ x <= calls /\ done[x] = 0
                          /\ x \notin released
  BY DEF Freed, SlotInv, SlotTypes, SlotsFresh, Kinds, NULL
<1>3. \A k \in Kinds : k \notin K /\ slot[k] # NULL => slot[k] \notin Freed(K)
  BY DEF Freed, SlotInv, SlotsDistinct, Kinds, NULL
<1>4. SlotTypes'
  <2>1. \A x \in released' : x \in CbIds
    BY <1>2 DEF SlotInv, SlotTypes
  <2>3. released' \in SUBSET CbIds
    BY <2>1
  <2>2. calls' \in 0 .. MaxCalls
    BY ConstantsAssumption DEF SlotInv, SlotTypes
  <2>. QED  BY <2>2, <2>3 DEF SlotInv, SlotTypes
<1>5. SlotsFresh'
  BY <1>1, <1>2, <1>3 DEF SlotInv, SlotTypes, SlotsFresh, Kinds, NULL, CbIds
<1>6. SlotsDistinct'
  BY <1>1 DEF SlotInv, SlotTypes, SlotsFresh, SlotsDistinct, Kinds, NULL, CbIds
<1>7. FutureClean'
  BY <1>2 DEF SlotInv, SlotTypes, FutureClean, CbIds
<1>8. LocksHeld'
  <2>1. ASSUME NEW x \in CbIds
        PROVE  Held(x)' <=> \/ x = r
                            \/ Held(x) /\ x \notin Freed(K)
    <3>1. x # NULL
      BY DEF NULL, CbIds
    <3>2. Held(x)' <=> \E k \in Kinds : slot'[k] = x
      BY DEF Held, Kinds
    <3>3. Held(x) <=> \E k \in Kinds : slot[k] = x
      BY DEF Held, Kinds
    <3>4. (\E k \in Kinds : slot'[k] = x) <=>
            x = r \/ \E k \in Kinds \ K : slot[k] = x
      BY <3>1
    <3>5. x \in Freed(K) <=> \E k \in K : slot[k] = x
      BY <3>1 DEF Freed
    <3>6. (\E k \in Kinds \ K : slot[k] = x) <=>
            (\E k \in Kinds : slot[k] = x) /\ ~\E k \in K : slot[k] = x
      BY <1>3, <3>1, <3>5
    <3>. QED  BY <3>2, <3>3, <3>4, <3>5, <3>6, Zenon
  <2>2. \A x \in Freed(K) : x # r
    BY <1>1, <1>2 DEF SlotInv, SlotTypes, NULL, CbIds
  <2>3. \A x \in Freed(K) : Held(x)
    BY DEF Freed, Held, Kinds
  <2>. QED  BY <1>1, <2>1, <2>2, <2>3 DEF SlotInv, LocksHeld, NULL, CbIds
<1>9. NoDoubleCompletion' /\ ReleasedNeverCalled'
  BY <1>2 DEF SlotInv, NoDoubleCompletion, ReleasedNeverCalled
<1>. QED  BY <1>4, <1>5, <1>6, <1>7, <1>8, <1>9 DEF SlotInv

\* Unlocking the callback of one more slot k, after the slots in K: the
\* locks are those of the invariant with every freed callback at zero.
LEMMA UnlockSlot ==
  ASSUME SlotInv, NEW K \in SUBSET Kinds, NEW k \in Kinds \ K,
         NEW u \in [CbIds -> Nat],
         \A x \in CbIds : u[x] = IF x \in Freed(K) THEN 0 ELSE locks[x]
  PROVE  /\ Unlock(u, slot[k]) \in [CbIds -> Nat]
         /\ \A x \in CbIds : Unlock(u, slot[k])[x] =
                               IF x \in Freed(K \cup {k}) THEN 0 ELSE locks[x]
<1>1. slot[k] \in {NULL} \cup CbIds
  BY DEF SlotInv, SlotTypes
<1>2. slot[k] # NULL => slot[k] \notin Freed(K) /\ locks[slot[k]] = 1
  <2>1. \A j \in K : slot[j] # NULL => slot[j] # slot[k]
    BY DEF SlotInv, SlotsDistinct, Kinds
  <2>2. slot[k] \notin Freed(K)
    BY <2>1 DEF Freed
  <2>3. slot[k] # NULL => locks[slot[k]] = 1
    <3>1. Held(slot[k])
      BY DEF Held, Kinds
    <3>. QED  BY <1>1, <3>1 DEF SlotInv, LocksHeld
  <2>. QED  BY <2>2, <2>3
<1>3. \A x \in CbIds : x \in Freed(K \cup {k}) <=> x \in Freed(K) \/ x = slot[k]
  BY DEF Freed, NULL, CbIds
<1>4. CASE slot[k] = NULL
  <2>1. Unlock(u, slot[k]) = u
    BY <1>4 DEF Unlock
  <2>2. \A x \in CbIds : x # slot[k]
    BY <1>4 DEF NULL, CbIds
  <2>. QED  BY <1>3, <2>1, <2>2
<1>5. CASE slot[k] # NULL
  <2>1. slot[k] \in CbIds /\ u[slot[k]] = 1
    BY <1>1, <1>2, <1>5
  <2>2. Unlock(u, slot[k]) = [u EXCEPT ![slot[k]] = 0]
    BY <1>5, <2>1 DEF Unlock
  <2>. QED  BY <1>3, <2>1, <2>2
<1>. QED  BY <1>4, <1>5

\* jsvLockAgainSafe on the callback of this call (or NULL) after the slots
\* in K were freed.
LEMMA LockFresh ==
  ASSUME SlotInv, NEW K \in SUBSET Kinds, calls < MaxCalls,
         NEW r \in {NULL, calls + 1},
         NEW u \in [CbIds -> Nat],
         \A x \in CbIds : u[x] = IF x \in Freed(K) THEN 0 ELSE locks[x]
  PROVE  /\ LockAgain(u, r) \in [CbIds -> Nat]
         /\ \A x \in CbIds : LockAgain(u, r)[x] =
                   IF x = r THEN 1 ELSE IF x \in Freed(K) THEN 0 ELSE locks[x]
<1>1. CASE r = NULL
  BY <1>1 DEF LockAgain, NULL, CbIds
<1>2. CASE r # NULL
  <2>0. r = calls + 1 /\ calls \in 0..MaxCalls
    BY <1>2 DEF SlotInv, SlotTypes, NULL
  <2>1. r \in CbIds /\ ~Held(r)
    <3>1. r \in CbIds
      BY <2>0, ConstantsAssumption DEF CbIds
    <3>2. ~Held(r)
      BY <2>0 DEF SlotInv, SlotTypes, SlotsFresh, Held, Kinds, NULL, CbIds
    <3>. QED  BY <3>1, <3>2
  <2>2. locks[r] = 0 /\ r \notin Freed(K)
    BY <2>1 DEF SlotInv, LocksHeld, Freed, Held, Kinds
  <2>. QED  BY <1>2, <2>1, <2>2 DEF LockAgain
<1>. QED  BY <1>1, <1>2

\* jsvUnLock of one slot's callback from the invariant's locks.
LEMMA UnlockOne ==
  ASSUME SlotInv, NEW k \in Kinds
  PROVE  /\ Unlock(locks, slot[k]) \in [CbIds -> Nat]
         /\ \A x \in CbIds : Unlock(locks, slot[k])[x] =
                               IF x \in Freed({k}) THEN 0 ELSE locks[x]
<1>1. /\ locks \in [CbIds -> Nat]
      /\ \A x \in CbIds : locks[x] = IF x \in Freed({}) THEN 0 ELSE locks[x]
  BY DEF SlotInv, SlotTypes, Freed
<1>2. {} \cup {k} = {k}
  OBVIOUS
<1>. QED  BY <1>1, <1>2, UnlockSlot

\* connect's two unlocks, of g_jsGotIpCallback and g_jsDisconnectCallback.
LEMMA UnlockGotipDisc ==
  ASSUME SlotInv
  PROVE  /\ Unlock(Unlock(locks, slot["gotip"]), slot["disc"]) \in [CbIds -> Nat]
         /\ \A x \in CbIds :
              Unlock(Unlock(locks, slot["gotip"]), slot["disc"])[x] =
                IF x \in Freed({"gotip", "disc"}) THEN 0 ELSE locks[x]
<1>1. "disc" \in Kinds \ {"gotip"} /\ {"gotip"} \in SUBSET Kinds
  BY DEF Kinds
<1>2. {"gotip"} \cup {"disc"} = {"gotip", "disc"}
  OBVIOUS
<1>. QED  BY <1>1, <1>2, UnlockOne, UnlockSlot DEF Kinds

\* The common shape of disconnect, connect and scan: the slots in K are
\* unlocked and cleared (FreeCallbacks), slot j gets r, and r is locked.
LEMMA Rebind ==
  ASSUME SlotInv, NEW K \in SUBSET Kinds, NEW j \in K,
         NEW r \in {NULL, calls + 1}, calls < MaxCalls,
         NEW u \in [CbIds -> Nat],
         \A x \in CbIds : u[x] = IF x \in Freed(K) THEN 0 ELSE locks[x],
         slot' = [FreeCallbacks(slot, K) EXCEPT ![j] = r],
         locks' = LockAgain(u, r),
         done' = done, released' = released \cup Freed(K), calls' = calls + 1
  PROVE  SlotInv'
<1>1. r \in {NULL} \cup CbIds
  BY ConstantsAssumption DEF SlotInv, SlotTypes, NULL, CbIds
<1>2. /\ slot' \in [Kinds -> {NULL} \cup CbIds]
      /\ \A k \in Kinds : slot'[k] = IF k = j THEN r
                                     ELSE IF k \in K THEN NULL ELSE slot[k]
  BY <1>1 DEF FreeCallbacks, SlotInv, SlotTypes, Kinds
<1>3. /\ locks' \in [CbIds -> Nat]
      /\ \A x \in CbIds : locks'[x] = IF x = r THEN 1
                                      ELSE IF x \in Freed(K) THEN 0 ELSE locks[x]
  BY LockFresh
<1>. QED  BY <1>2, <1>3, SlotsRebound

-----------------------------------------------------------------------------
(* Each action keeps the invariant.                                        *)

\* jswrap_ESP32_wifi_disconnect: the old disconnect callback is unlocked
\* and dropped, the new one (or NULL) is stored with one lock.
LEMMA DisconnectInv ==
  ASSUME Inv, NEW cb \in CbArgs, disconnect(cb)
  PROVE  Inv'
<1>. DEFINE n == calls + 1
            old == slot["disc"]
            r == Stored(cb, n)
<1>1. /\ calls < MaxCalls /\ calls' = n
      /\ released' = released \cup ({old} \ {NULL})
      /\ jsq' = jsq /\ done' = done
      /\ thrown' \in {"none", "arg"}
      /\ vq' = vq /\ vStarted' = vStarted /\ vAtt' = vAtt /\ vScanning' = vScanning
      /\ vLink' \in LinkStates
  BY DEF disconnect, vendor, esp_wifi_disconnect, Inv, EnvTypes, LinkStates
<1>2. /\ slot' = [FreeCallbacks(slot, {"disc"}) EXCEPT !["disc"] = r]
      /\ locks' = LockAgain(Unlock(locks, old), r)
  <2>1. CASE cb \in {"null", "notfn"}
    <3>1. slot \in [Kinds -> {NULL} \cup CbIds]
      BY DEF Inv, SlotInv, SlotTypes
    <3>2. FreeCallbacks(slot, {"disc"})["disc"] = NULL
      BY DEF FreeCallbacks, Kinds
    <3>. QED  BY <2>1, <3>1, <3>2 DEF disconnect, Stored, LockAgain, FreeCallbacks
  <2>2. CASE cb \in {"undef", "fn"}
    BY <2>2 DEF disconnect
  <2>. QED  BY <2>1, <2>2 DEF CbArgs
<1>3. /\ r \in {NULL, n} /\ n \in CbIds
      /\ old \in {NULL} \cup CbIds
      /\ old # NULL => locks[old] = 1
      /\ r # NULL => locks[r] = 0 /\ r # old
  <2>1. n \in CbIds /\ r \in {NULL, n}
    BY <1>1, ConstantsAssumption DEF Inv, SlotInv, SlotTypes, CbIds, Stored
  <2>2. ~Held(n)
    BY <1>1 DEF Inv, SlotInv, SlotTypes, SlotsFresh, Held, Kinds, NULL, CbIds
  <2>3. old \in {NULL} \cup CbIds /\ (old # NULL => Held(old) /\ old <= calls)
    BY DEF Inv, SlotInv, SlotTypes, SlotsFresh, Held, Kinds, NULL
  <2>. QED  BY <2>1, <2>2, <2>3 DEF Inv, SlotInv, SlotTypes, LocksHeld, NULL, CbIds
<1>4. SlotInv'
  <2>1. slot' \in [Kinds -> {NULL} \cup CbIds]
        /\ \A k \in Kinds : slot'[k] = IF k = "disc" THEN r
                                       ELSE IF k \in {"disc"} THEN NULL ELSE slot[k]
    BY <1>2, <1>3 DEF FreeCallbacks, Inv, SlotInv, SlotTypes, Kinds
  <2>2. /\ Unlock(locks, old) \in [CbIds -> Nat]
        /\ \A x \in CbIds : Unlock(locks, old)[x] = IF x = old THEN 0 ELSE locks[x]
    BY <1>3 DEF Inv, SlotInv, SlotTypes, Unlock, NULL, CbIds
  <2>3. /\ locks' \in [CbIds -> Nat]
        /\ \A x \in CbIds : locks'[x] = IF x = r THEN 1
                                  ELSE IF x \in Freed({"disc"}) THEN 0 ELSE locks[x]
    <3>1. r \in {NULL} \cup CbIds
      BY <1>3
    <3>2. \A x \in CbIds : x \in Freed({"disc"}) <=> x = old
      BY DEF Freed, NULL, CbIds
    <3>3. CASE r = NULL
      <4>1. locks' = Unlock(locks, old)
        BY <1>2, <3>3 DEF LockAgain
      <4>. QED  BY <4>1, <2>2, <3>2, <3>3 DEF NULL, CbIds
    <3>4. CASE r # NULL
      <4>. DEFINE u == Unlock(locks, old)
      <4>1. locks' = [u EXCEPT ![r] = u[r] + 1]
        BY <1>2, <3>4 DEF LockAgain
      <4>2. r \in CbIds /\ r # old /\ locks[r] = 0
        BY <1>3, <3>4 DEF NULL
      <4>. QED  BY <4>1, <4>2, <2>2, <3>2
    <3>. QED  BY <3>3, <3>4
  <2>4. released' = released \cup Freed({"disc"})
    BY <1>1 DEF Freed
  <2>. QED
    BY <1>1, <1>3, <2>1, <2>3, <2>4, SlotsRebound DEF Inv, Kinds
<1>5. EnvTypes'
  BY <1>1 DEF Inv, EnvTypes
<1>. QED  BY <1>4, <1>5 DEF Inv


\* connect(ssid, options, cb) keeps the invariant on each of its paths: an
\* argument error before any slot is touched, a bad callback after the
\* gotIp slot is cleared, a bad password after both slots are cleared, and
\* the vendor calls with the callback saved after esp_wifi_start.
LEMMA ConnectInv ==
  ASSUME Inv, NEW ok \in BOOLEAN, NEW opt \in ConnectOptions,
         NEW cb \in CbArgs, NEW f \in ConnectSteps \cup {"none"},
         connect(ok, opt, cb, f)
  PROVE  Inv'
<1>. DEFINE n == calls + 1
            g == slot["gotip"]
            d == slot["disc"]
            started == f \notin {"set_mode", "set_config", "start"}
            reg == IF started THEN Stored(cb, n) ELSE NULL
            GD == {"gotip", "disc"}
<1>0. /\ SlotInv /\ EnvTypes /\ calls < MaxCalls /\ calls' = n
      /\ jsq' = jsq /\ done' = done
      /\ n \in CbIds /\ reg \in {NULL, n}
      /\ GD \in SUBSET Kinds /\ "gotip" \in GD
      /\ {"gotip"} \in SUBSET Kinds
  BY ConstantsAssumption DEF Inv, connect, SlotInv, SlotTypes, CbIds, Stored, Kinds
<1>1. CASE /\ ~ok \/ opt = "notobj"
           /\ thrown' = "arg"
           /\ UNCHANGED <<slot, locks, released>>
           /\ UNCHANGED vendor
  <2>0. /\ slot' = slot /\ locks' = locks /\ released' = released
        /\ calls' \in {calls, calls + 1} /\ calls' <= MaxCalls
    <3>1. slot' = slot /\ locks' = locks /\ released' = released
      BY <1>1
    <3>2. calls \in Nat /\ calls < MaxCalls /\ calls' = calls + 1
      BY <1>0, ConstantsAssumption DEF SlotInv, SlotTypes
    <3>3. calls' \in {calls, calls + 1} /\ calls' <= MaxCalls
      BY <3>2, ConstantsAssumption
    <3>. QED  BY <3>1, <3>3, Zenon
  <2>1. SlotInv'
    BY <1>0, <2>0, SlotsStable
  <2>2. EnvTypes'
    BY <1>0, <1>1 DEF EnvTypes, vendor
  <2>. QED  BY <2>1, <2>2 DEF Inv
<1>2. CASE /\ ok /\ opt # "notobj"
           /\ cb \in {"null", "notfn"}
           /\ slot' = FreeCallbacks(slot, {"gotip"})
           /\ locks' = Unlock(locks, g)
           /\ released' = released \cup ({g} \ {NULL})
           /\ thrown' = "arg"
           /\ UNCHANGED vendor
  <2>1. slot' = [FreeCallbacks(slot, {"gotip"}) EXCEPT !["gotip"] = NULL]
    BY <1>2 DEF FreeCallbacks, Kinds
  <2>2. locks' = LockAgain(Unlock(locks, g), NULL)
    BY <1>2 DEF LockAgain
  <2>3. released' = released \cup Freed({"gotip"})
    BY <1>2 DEF Freed
  <2>4. SlotInv'
    BY <1>0, <2>1, <2>2, <2>3, UnlockOne, Rebind DEF Kinds, NULL
  <2>5. EnvTypes'
    BY <1>0, <1>2 DEF EnvTypes, vendor
  <2>. QED  BY <2>4, <2>5 DEF Inv
<1>3. CASE /\ ok /\ opt = "badpw"
           /\ cb \in {"undef", "fn"}
           /\ slot' = FreeCallbacks(slot, GD)
           /\ locks' = Unlock(Unlock(locks, g), d)
           /\ released' = released \cup ({g, d} \ {NULL})
           /\ thrown' = "arg"
           /\ UNCHANGED vendor
  <2>1. slot' = [FreeCallbacks(slot, GD) EXCEPT !["gotip"] = NULL]
    BY <1>3 DEF FreeCallbacks, Kinds
  <2>2. locks' = LockAgain(Unlock(Unlock(locks, g), d), NULL)
    BY <1>3 DEF LockAgain
  <2>3. released' = released \cup Freed(GD)
    BY <1>3 DEF Freed
  <2>4. SlotInv'
    BY <1>0, <2>1, <2>2, <2>3, UnlockGotipDisc, Rebind DEF NULL
  <2>5. EnvTypes'
    BY <1>0, <1>3 DEF EnvTypes, vendor
  <2>. QED  BY <2>4, <2>5 DEF Inv
<1>4. CASE /\ ok /\ opt \in {"null", "obj"}
           /\ cb \in {"undef", "fn"}
           /\ slot' = [FreeCallbacks(slot, GD) EXCEPT !["gotip"] = reg]
           /\ locks' = LockAgain(Unlock(Unlock(locks, g), d), reg)
           /\ released' = released \cup ({g, d} \ {NULL})
           /\ thrown' = "none"
           /\ vStarted' = (vStarted \/ started)
           /\ IF started /\ f # "connect"
                 THEN vLink' = "connecting" /\ vAtt' = n
                 ELSE UNCHANGED <<vLink, vAtt>>
           /\ UNCHANGED <<vq, vScanning>>
  <2>3. released' = released \cup Freed(GD)
    BY <1>4 DEF Freed
  <2>4. SlotInv'
    BY <1>0, <1>4, <2>3, UnlockGotipDisc, Rebind
  <2>5. vLink' \in LinkStates /\ vAtt' \in {NULL} \cup CbIds
    BY <1>0, <1>4 DEF EnvTypes, LinkStates
  <2>6. EnvTypes'
    BY <1>0, <1>4, <2>5 DEF EnvTypes
  <2>. QED  BY <2>4, <2>6 DEF Inv
<1>. QED  BY <1>1, <1>2, <1>3, <1>4 DEF connect


\* An API call takes the next call number, which stays within MaxCalls.
LEMMA CallsStep ==
  ASSUME SlotInv, calls < MaxCalls, calls' = calls + 1
  PROVE  calls' \in {calls, calls + 1} /\ calls' <= MaxCalls
BY ConstantsAssumption DEF SlotInv, SlotTypes

\* scan(cb) keeps the invariant: a busy slot or a bad callback throws and
\* changes nothing; otherwise the fresh callback is saved and locked before
\* the vendor calls, whatever they return.
LEMMA ScanInv ==
  ASSUME Inv, NEW cb \in CbArgs, NEW f \in ScanSteps \cup {"none"},
         scan(cb, f)
  PROVE  Inv'
<1>. DEFINE n == calls + 1
<1>0. /\ SlotInv /\ EnvTypes /\ calls < MaxCalls /\ calls' = n
      /\ jsq' = jsq /\ done' = done /\ released' = released
  BY DEF Inv, scan
<1>1. CASE /\ thrown' \in {"busy", "arg"}
           /\ UNCHANGED <<slot, locks>>
           /\ UNCHANGED vendor
  <2>1. slot' = slot /\ locks' = locks
    BY <1>1
  <2>2. SlotInv'
    BY <1>0, <2>1, CallsStep, SlotsStable
  <2>3. EnvTypes'
    BY <1>0, <1>1 DEF EnvTypes, vendor
  <2>. QED  BY <2>2, <2>3 DEF Inv
<1>2. CASE /\ slot["scan"] = NULL
           /\ slot' = [slot EXCEPT !["scan"] = n]
           /\ locks' = LockAgain(locks, n)
           /\ thrown' = "none"
           /\ vStarted' = (vStarted \/ (f \notin {"set_mode", "start"}))
           /\ vScanning' = (vScanning \/ (f \notin {"set_mode", "start"}
                                          /\ f # "scan_start"))
           /\ UNCHANGED <<vq, vLink, vAtt>>
  <2>1. Freed({"scan"}) = {} /\ {"scan"} \in SUBSET Kinds
    BY <1>2 DEF Freed, Kinds
  <2>2. /\ locks \in [CbIds -> Nat]
        /\ \A x \in CbIds : locks[x] = IF x \in Freed({"scan"}) THEN 0 ELSE locks[x]
    BY <1>0, <2>1 DEF SlotInv, SlotTypes
  <2>3. slot' = [FreeCallbacks(slot, {"scan"}) EXCEPT !["scan"] = n]
    BY <1>0, <1>2 DEF FreeCallbacks, SlotInv, SlotTypes, Kinds
  <2>4. released' = released \cup Freed({"scan"})
    BY <1>0, <2>1
  <2>5. SlotInv'
    BY <1>0, <1>2, <2>1, <2>2, <2>3, <2>4, Rebind
  <2>6. EnvTypes'
    BY <1>0, <1>2 DEF EnvTypes
  <2>. QED  BY <2>5, <2>6 DEF Inv
<1>. QED  BY <1>0, <1>1, <1>2 DEF scan


\* A query queues the fresh callback of its own call: no slot holds it and
\* it was never queued or dropped, so it is queued exactly once.
LEMMA FreshQueued ==
  ASSUME SlotInv, calls < MaxCalls, calls' = calls + 1,
         slot' = slot, locks' = locks, released' = released,
         done' = [done EXCEPT ![calls + 1] = @ + 1]
  PROVE  SlotInv'
<1>. DEFINE n == calls + 1
<1>1. /\ n \in CbIds /\ done[n] = 0 /\ n \notin released /\ ~Held(n)
      /\ calls' \in 0 .. MaxCalls
  BY ConstantsAssumption
  DEF SlotInv, SlotTypes, FutureClean, SlotsFresh, Held, Kinds, NULL, CbIds
<1>2. /\ done' \in [CbIds -> Nat]
      /\ \A x \in CbIds : done'[x] = IF x = n THEN 1 ELSE done[x]
  BY <1>1 DEF SlotInv, SlotTypes
<1>3. \A k \in Kinds : slot[k] # NULL => slot[k] # n
  BY <1>1 DEF Held, Kinds
<1>4. SlotTypes'
  BY <1>1, <1>2 DEF SlotInv, SlotTypes
<1>5. SlotsFresh'
  BY <1>1, <1>2, <1>3 DEF SlotInv, SlotTypes, SlotsFresh, Kinds, NULL, CbIds
<1>6. SlotsDistinct' /\ LocksHeld'
  BY DEF SlotInv, SlotsDistinct, LocksHeld, Held
<1>7. FutureClean'
  BY <1>1, <1>2 DEF SlotInv, SlotTypes, FutureClean, CbIds
<1>8. NoDoubleCompletion' /\ ReleasedNeverCalled'
  BY <1>1, <1>2 DEF SlotInv, SlotTypes, NoDoubleCompletion, ReleasedNeverCalled
<1>. QED  BY <1>4, <1>5, <1>6, <1>7, <1>8 DEF SlotInv

\* getDetails, getAPDetails, getIP and getAPIP keep the invariant: a bad
\* callback throws, a missing one is ignored, a function is queued once.
LEMMA QueryInv ==
  ASSUME Inv, NEW op \in QueryOps, NEW cb \in CbArgs, query(op, cb)
  PROVE  Inv'
<1>. DEFINE n == calls + 1
<1>0. /\ SlotInv /\ EnvTypes /\ calls < MaxCalls /\ calls' = n
      /\ slot' = slot /\ locks' = locks /\ released' = released
      /\ UNCHANGED vendor /\ thrown' \in {"none", "arg"}
  BY DEF Inv, query
<1>1. CASE UNCHANGED <<jsq, done>>
  <2>1. SlotInv'
    BY <1>0, <1>1, CallsStep, SlotsStable
  <2>2. EnvTypes'
    BY <1>0, <1>1 DEF EnvTypes, vendor
  <2>. QED  BY <2>1, <2>2 DEF Inv
<1>2. CASE QueueCall(n, "details")
  <2>1. SlotInv'
    BY <1>0, <1>2, FreshQueued DEF QueueCall
  <2>2. n \in CbIds
    BY <1>0, ConstantsAssumption DEF SlotInv, SlotTypes, CbIds
  <2>3. jsq' \in Seq(JsEntries)
    BY <1>0, <1>2, <2>2 DEF QueueCall, Call, JsEntries, CallArgs, EnvTypes
  <2>4. EnvTypes'
    BY <1>0, <2>3 DEF EnvTypes, vendor
  <2>. QED  BY <2>1, <2>4 DEF Inv
<1>. QED  BY <1>1, <1>2 DEF query

\* A step that touches neither the slots, the locks nor the history keeps
\* SlotInv; used for getStatus, the placeholders, runQueued, the handler
\* branches that only publish, and the driver.
LEMMA QuietInv ==
  ASSUME Inv, UNCHANGED <<slot, locks, done, released>>,
         \/ calls' = calls
         \/ calls < MaxCalls /\ calls' = calls + 1
  PROVE  SlotInv'
<1>1. SlotInv
  BY DEF Inv
<1>2. calls' \in {calls, calls + 1} /\ calls' <= MaxCalls
  BY <1>1, CallsStep DEF SlotInv, SlotTypes
<1>. QED  BY <1>1, <1>2, SlotsStable


\* getStatus ignores its callback, and the not-implemented operations only
\* log: neither changes anything but the call count and the exception.
LEMMA GetStatusPlaceholderInv ==
  ASSUME Inv, \/ \E cb \in CbArgs : getStatus(cb)
              \/ placeholder
  PROVE  Inv'
<1>1. /\ UNCHANGED <<slot, locks, done, released, jsq>> /\ UNCHANGED vendor
      /\ thrown' = "none"
      /\ \/ calls' = calls
         \/ calls < MaxCalls /\ calls' = calls + 1
  BY DEF getStatus, placeholder,
       stopAP, startAP, setConfig, save, restore, getHostByName, getHostname,
       setHostname, ping, NotImplemented
<1>2. SlotInv'
  BY <1>1, QuietInv
<1>3. EnvTypes'
  BY <1>1 DEF Inv, EnvTypes, vendor
<1>. QED  BY <1>2, <1>3 DEF Inv

\* The interpreter running the oldest queued entry.
LEMMA RunQueuedInv ==
  ASSUME Inv, runQueued
  PROVE  Inv'
<1>1. /\ UNCHANGED <<slot, locks, done, released, calls, thrown>>
      /\ UNCHANGED vendor
      /\ jsq # << >> /\ jsq' = Tail(jsq)
  BY DEF runQueued
<1>2. SlotInv'
  BY <1>1, QuietInv
<1>3. jsq' \in Seq(JsEntries)
  BY <1>1 DEF Inv, EnvTypes
<1>4. EnvTypes'
  BY <1>1, <1>3 DEF Inv, EnvTypes, vendor
<1>. QED  BY <1>2, <1>4 DEF Inv

\* event_handler taking the head event off the event loop's queue.
LEMMA TakeEventType ==
  ASSUME NEW e, vq \in Seq(VendorEvents), TakeEvent(e)
  PROVE  vq' \in Seq(VendorEvents) /\ e \in SystemEvents
<1>1. vq # << >> /\ Head(vq).id = e /\ vq' = Tail(vq)
  BY DEF TakeEvent
<1>2. Head(vq) \in VendorEvents
  BY <1>1
<1>3. e \in SystemEvents
  BY <1>1, <1>2 DEF VendorEvents
<1>. QED  BY <1>1, <1>3

\* The handler branches that publish an event or fall through touch no slot.
LEMMA PublishOtherInv ==
  ASSUME Inv, handlePublish \/ handleOther
  PROVE  Inv'
<1>1. PICK e : /\ TakeEvent(e)
               /\ jsq' \in {jsq, sendWifiEvent(jsq, e)}
               /\ UNCHANGED <<slot, locks, thrown, calls, released, done>>
               /\ UNCHANGED <<vStarted, vLink, vAtt, vScanning>>
  BY DEF handlePublish, handleOther
<1>2. vq' \in Seq(VendorEvents) /\ e \in SystemEvents
  BY <1>1, TakeEventType DEF Inv, EnvTypes
<1>3. jsq' \in Seq(JsEntries)
  BY <1>1, <1>2, SendWifiEventType DEF Inv, EnvTypes
<1>4. SlotInv'
  BY <1>1, QuietInv
<1>5. EnvTypes'
  BY <1>1, <1>2, <1>3 DEF Inv, EnvTypes
<1>. QED  BY <1>4, <1>5 DEF Inv

\* The driver posting a system event, tagged with the current link.
LEMMA VendorInv ==
  ASSUME Inv, Vendor
  PROVE  Inv'
<1>1. /\ UNCHANGED <<slot, locks, jsq, thrown, calls, done, released>>
      /\ \E e \in SystemEvents : vq' = Append(vq, VEvent(e, vAtt))
      /\ vStarted' = vStarted /\ vAtt' = vAtt
      /\ vLink' \in LinkStates /\ vScanning' \in BOOLEAN
  BY DEF Vendor, VendorAssociate, VendorGotIp, VendorLinkLost,
         VendorDisconnected, VendorAuthChange, VendorScanDone, Post,
         SystemEvents, LinkStates, Inv, EnvTypes
<1>2. vq' \in Seq(VendorEvents)
  <2>1. PICK e \in SystemEvents : vq' = Append(vq, VEvent(e, vAtt))
    BY <1>1
  <2>2. vAtt \in 0 .. MaxCalls
    BY ConstantsAssumption DEF Inv, EnvTypes, NULL, CbIds
  <2>3. VEvent(e, vAtt) \in VendorEvents
    BY <2>2 DEF VEvent, VendorEvents
  <2>. QED  BY <2>1, <2>3 DEF Inv, EnvTypes
<1>3. SlotInv'
  BY <1>1, QuietInv
<1>4. EnvTypes'
  BY <1>1, <1>2 DEF Inv, EnvTypes
<1>. QED  BY <1>3, <1>4 DEF Inv


\* The STA_DISCONNECTED and STA_GOT_IP branches: the slot's callback, if
\* any, is queued, unlocked and cleared, then the event is published.
LEMMA ResolveInv ==
  ASSUME Inv, NEW k \in Kinds, NEW e, NEW a \in CallArgs,
         TakeEvent(e),
         slot' = [slot EXCEPT ![k] = NULL],
         locks' = Unlock(locks, slot[k]),
         jsq' = sendWifiEvent(QueueIfSet(jsq, slot[k], a), e),
         done' = DoneIfSet(slot[k]),
         UNCHANGED <<thrown, calls, released, vStarted, vLink, vAtt, vScanning>>
  PROVE  Inv'
<1>0. SlotInv /\ EnvTypes /\ slot[k] \in {NULL} \cup CbIds
  BY DEF Inv, SlotInv, SlotTypes
<1>1. SlotInv'
  <2>1. CASE slot[k] # NULL
    <3>1. done' = [done EXCEPT ![slot[k]] = @ + 1]
      BY <2>1 DEF DoneIfSet
    <3>. QED  BY <1>0, <2>1, <3>1, SlotResolved
  <2>2. CASE slot[k] = NULL
    <3>1. slot' = slot
      BY <1>0, <2>2 DEF SlotInv, SlotTypes
    <3>2. locks' = locks /\ done' = done
      BY <2>2 DEF Unlock, DoneIfSet
    <3>. QED  BY <3>1, <3>2, QuietInv
  <2>. QED  BY <2>1, <2>2
<1>2. vq' \in Seq(VendorEvents) /\ e \in SystemEvents
  BY <1>0, TakeEventType DEF EnvTypes
<1>3. jsq' \in Seq(JsEntries)
  BY <1>0, <1>2, QueueIfSetType, SendWifiEventType DEF EnvTypes
<1>4. EnvTypes'
  BY <1>0, <1>2, <1>3 DEF EnvTypes
<1>. QED  BY <1>1, <1>4 DEF Inv

\* SCAN_DONE with a scan callback: queued with the list, unlocked, cleared;
\* without one, nothing changes.
LEMMA ScanDoneInv ==
  ASSUME Inv, handleScanDone
  PROVE  Inv'
<1>. DEFINE c == slot["scan"]
<1>0. /\ SlotInv /\ EnvTypes /\ c \in {NULL} \cup CbIds
      /\ TakeEvent("SCAN_DONE")
      /\ UNCHANGED <<thrown, calls, released, vStarted, vLink, vAtt, vScanning>>
  BY DEF Inv, SlotInv, SlotTypes, Kinds, handleScanDone
<1>1. vq' \in Seq(VendorEvents)
  BY <1>0, TakeEventType DEF EnvTypes
<1>2. CASE c = NULL /\ UNCHANGED <<slot, locks, jsq, done>>
  <2>1. SlotInv'
    BY <1>0, <1>2, QuietInv
  <2>2. EnvTypes'
    BY <1>0, <1>1, <1>2 DEF EnvTypes
  <2>. QED  BY <2>1, <2>2 DEF Inv
<1>3. CASE /\ c # NULL
           /\ QueueCall(c, "list")
           /\ slot' = [slot EXCEPT !["scan"] = NULL]
           /\ locks' = Unlock(locks, c)
  <2>1. SlotInv'
    BY <1>0, <1>3, SlotResolved DEF QueueCall, Kinds
  <2>2. jsq' \in Seq(JsEntries)
    BY <1>0, <1>3 DEF QueueCall, Call, JsEntries, CallArgs, EnvTypes, NULL
  <2>3. EnvTypes'
    BY <1>0, <1>1, <2>2 DEF EnvTypes
  <2>. QED  BY <2>1, <2>3 DEF Inv
<1>. QED  BY <1>2, <1>3 DEF handleScanDone

\* The abort in scanCB: every slot is gone with the chip, the callbacks
\* they held count as dropped, and no lock survives.
LEMMA ScanAbortInv ==
  ASSUME Inv, scanAbort
  PROVE  Inv'
<1>0. /\ SlotInv /\ EnvTypes
      /\ slot' = [k \in Kinds |-> NULL] /\ locks' = [c \in CbIds |-> 0]
      /\ released' = released \cup Freed(Kinds)
      /\ UNCHANGED <<calls, done>>
      /\ jsq' = << >> /\ vq' = << >> /\ thrown' = "none"
      /\ vStarted' = FALSE /\ vLink' = "idle" /\ vAtt' = NULL
      /\ vScanning' = FALSE
  BY DEF Inv, scanAbort, Freed
<1>1. \A x \in Freed(Kinds) : x \in CbIds /\ done[x] = 0 /\ x <= calls
  BY <1>0 DEF Freed, SlotInv, SlotTypes, SlotsFresh
<1>2. SlotTypes'
  BY <1>0, <1>1 DEF SlotInv, SlotTypes
<1>3. SlotsFresh' /\ SlotsDistinct'
  BY <1>0 DEF SlotsFresh, SlotsDistinct, Kinds
<1>4. LocksHeld'
  BY <1>0 DEF LocksHeld, Held, Kinds, NULL, CbIds
<1>5. FutureClean'
  BY <1>0, <1>1 DEF SlotInv, SlotTypes, FutureClean, CbIds
<1>6. NoDoubleCompletion' /\ ReleasedNeverCalled'
  BY <1>0, <1>1 DEF SlotInv, NoDoubleCompletion, ReleasedNeverCalled
<1>7. EnvTypes'
  <2>1. jsq' \in Seq(JsEntries) /\ vq' \in Seq(VendorEvents)
    BY <1>0
  <2>2. vLink' \in LinkStates /\ vAtt' \in {NULL} \cup CbIds
    BY <1>0 DEF LinkStates
  <2>. QED  BY <1>0, <2>1, <2>2 DEF EnvTypes
<1>. QED  BY <1>2, <1>3, <1>4, <1>5, <1>6, <1>7 DEF Inv, SlotInv


-----------------------------------------------------------------------------
(* The invariant holds initially and is kept by every step.                *)

\* All globals start NULL, nothing is locked, queued or dropped.
LEMMA InitInv ==
  ASSUME Init
  PROVE  Inv
<1>1. SlotInv
  BY ConstantsAssumption
  DEF Init, SlotInv, SlotTypes, SlotsFresh, SlotsDistinct, FutureClean,
      LocksHeld, Held, NoDoubleCompletion, ReleasedNeverCalled, Kinds, NULL,
      CbIds
<1>2. EnvTypes
  <2>1. jsq \in Seq(JsEntries) /\ vq \in Seq(VendorEvents)
    BY DEF Init
  <2>2. vLink \in LinkStates /\ vAtt \in {NULL} \cup CbIds
    BY DEF Init, LinkStates
  <2>. QED  BY <2>1, <2>2 DEF Init, EnvTypes
<1>. QED  BY <1>1, <1>2 DEF Inv

\* Every step of the specification keeps Inv: one case per API call, per
\* branch of event_handler and for the driver.
LEMMA NextInv ==
  ASSUME Inv, [Next]_vars
  PROVE  Inv'
<1>1. CASE \E cb \in CbArgs : disconnect(cb)
  BY <1>1, DisconnectInv
<1>2. CASE \E ok \in BOOLEAN, opt \in ConnectOptions, cb \in CbArgs,
             f \in Failures(ConnectSteps) : connect(ok, opt, cb, f)
  <2>1. Failures(ConnectSteps) \subseteq ConnectSteps \cup {"none"}
    BY DEF Failures
  <2>. QED  BY <1>2, <2>1, ConnectInv
<1>3. CASE \E cb \in CbArgs, f \in Failures(ScanSteps) : scan(cb, f)
  <2>1. Failures(ScanSteps) \subseteq ScanSteps \cup {"none"}
    BY DEF Failures
  <2>. QED  BY <1>3, <2>1, ScanInv
<1>4. CASE \E op \in QueryOps, cb \in CbArgs : query(op, cb)
  BY <1>4, QueryInv
<1>5. CASE (\E cb \in CbArgs : getStatus(cb)) \/ placeholder
  BY <1>5, GetStatusPlaceholderInv
<1>6. CASE runQueued
  BY <1>6, RunQueuedInv
<1>7. CASE handleStaDisconnected
  <2>1. "disc" \in Kinds /\ "noarg" \in CallArgs
    BY DEF Kinds, CallArgs
  <2>. QED  BY <1>7, <2>1, ResolveInv DEF handleStaDisconnected
<1>8. CASE handleStaGotIp
  <2>1. "gotip" \in Kinds /\ "null" \in CallArgs
    BY DEF Kinds, CallArgs
  <2>. QED  BY <1>8, <2>1, ResolveInv DEF handleStaGotIp
<1>9. CASE handlePublish \/ handleOther
  BY <1>9, PublishOtherInv
<1>10. CASE handleScanDone
  BY <1>10, ScanDoneInv
<1>11. CASE scanAbort
  BY <1>11, ScanAbortInv
<1>12. CASE Vendor
  BY <1>12, VendorInv
<1>13. CASE UNCHANGED vars
  BY <1>13 DEF vars, Inv, SlotInv, SlotTypes, EnvTypes, SlotsFresh,
     SlotsDistinct, FutureClean, LocksHeld, Held, NoDoubleCompletion,
     ReleasedNeverCalled
<1>. QED
  BY <1>1, <1>2, <1>3, <1>4, <1>5, <1>6, <1>7, <1>8, <1>9, <1>10, <1>11,
     <1>12, <1>13 DEF Next, Script, event_handler


\* The slots holding a callback are none or one, so the Cardinality in
\* LocksMatchSlots is the 0 or 1 of LocksHeld.
LEMMA LocksMatchFromInv ==
  ASSUME Inv
  PROVE  LocksMatchSlots
<1>1. SUFFICES ASSUME NEW c \in CbIds
               PROVE  locks[c] = Cardinality({k \in Kinds : slot[k] = c})
  BY DEF LocksMatchSlots
<1>. DEFINE S == {k \in Kinds : slot[k] = c}
<1>2. c # NULL
  BY DEF NULL, CbIds
<1>3. CASE Held(c)
  <2>1. PICK k0 \in Kinds : slot[k0] = c
    BY <1>3 DEF Held, Kinds
  <2>2. S = {k0}
    BY <1>2, <2>1 DEF Inv, SlotInv, SlotsDistinct, Kinds
  <2>3. locks[c] = 1
    BY <1>3 DEF Inv, SlotInv, LocksHeld
  <2>. QED  BY <2>2, <2>3, FS_Singleton
<1>4. CASE ~Held(c)
  <2>1. S = {}
    BY <1>4 DEF Held, Kinds
  <2>2. locks[c] = 0
    BY <1>4 DEF Inv, SlotInv, LocksHeld
  <2>. QED  BY <2>1, <2>2, FS_EmptySet
<1>. QED  BY <1>3, <1>4


-----------------------------------------------------------------------------
(* The action property QueueConsumesSlot.                                  *)

\* The condition QueueConsumesSlot puts on one step.
ConsumeStep ==
  \A k \in Kinds :
    slot[k] # NULL /\ done'[slot[k]] > done[slot[k]] => slot'[k] = NULL

\* A step that queues nobody satisfies it vacuously.
LEMMA NoQueueConsume ==
  ASSUME Inv, done' = done
  PROVE  ConsumeStep
<1>. SUFFICES ASSUME NEW k \in Kinds, slot[k] # NULL
              PROVE  ~(done'[slot[k]] > done[slot[k]])
  BY DEF ConsumeStep
<1>1. slot[k] \in CbIds /\ done \in [CbIds -> Nat]
  BY DEF Inv, SlotInv, SlotTypes
<1>. QED  BY <1>1

\* Two different slots never hold the same callback.
LEMMA OtherSlotDiffers ==
  ASSUME Inv, NEW j \in Kinds, NEW k \in Kinds, j # k, slot[k] # NULL
  PROVE  slot[k] # slot[j]
BY DEF Inv, SlotInv, SlotsDistinct, Kinds

\* A handler branch that queues the callback of slot j (if any) clears j;
\* the callbacks of the other slots are not queued.
LEMMA ResolveConsume ==
  ASSUME Inv, NEW j \in Kinds,
         slot' = [slot EXCEPT ![j] = NULL], done' = DoneIfSet(slot[j])
  PROVE  ConsumeStep
<1>. SUFFICES ASSUME NEW k \in Kinds, slot[k] # NULL,
                     done'[slot[k]] > done[slot[k]]
              PROVE  slot'[k] = NULL
  BY DEF ConsumeStep
<1>1. slot \in [Kinds -> {NULL} \cup CbIds] /\ done \in [CbIds -> Nat]
  BY DEF Inv, SlotInv, SlotTypes
<1>2. CASE k = j
  BY <1>1, <1>2
<1>3. CASE k # j
  <2>1. slot[k] # slot[j] /\ slot[k] \in CbIds
    BY <1>1, <1>3, OtherSlotDiffers
  <2>2. done'[slot[k]] = done[slot[k]]
    BY <1>1, <2>1 DEF DoneIfSet
  <2>. QED  BY <1>1, <2>1, <2>2
<1>. QED  BY <1>2, <1>3

\* A query queues the fresh callback of its own call, which no slot holds.
LEMMA QueryConsume ==
  ASSUME Inv, NEW op, NEW cb, query(op, cb)
  PROVE  ConsumeStep
<1>1. CASE done' = done
  BY <1>1, NoQueueConsume
<1>2. CASE done' = [done EXCEPT ![calls + 1] = @ + 1]
  <2>. SUFFICES ASSUME NEW k \in Kinds, slot[k] # NULL,
                       done'[slot[k]] > done[slot[k]]
                PROVE  slot'[k] = NULL
    BY DEF ConsumeStep
  <2>1. /\ slot[k] \in CbIds /\ slot[k] <= calls /\ done \in [CbIds -> Nat]
        /\ calls \in 0 .. MaxCalls
    BY DEF Inv, SlotInv, SlotTypes, SlotsFresh
  <2>2. slot[k] # calls + 1
    BY <2>1 DEF CbIds
  <2>3. done'[slot[k]] = done[slot[k]]
    BY <1>2, <2>1, <2>2
  <2>. QED  BY <2>1, <2>3
<1>. QED  BY <1>1, <1>2 DEF query, QueueCall

\* Every step of the specification satisfies ConsumeStep.
LEMMA NextConsume ==
  ASSUME Inv, [Next]_vars
  PROVE  ConsumeStep
<1>1. CASE \/ \E cb \in CbArgs : disconnect(cb)
           \/ \E ok \in BOOLEAN, opt \in ConnectOptions, cb \in CbArgs,
                 f \in Failures(ConnectSteps) : connect(ok, opt, cb, f)
           \/ \E cb \in CbArgs, f \in Failures(ScanSteps) : scan(cb, f)
           \/ \E cb \in CbArgs : getStatus(cb)
           \/ placeholder \/ runQueued
           \/ handlePublish \/ handleOther \/ Vendor \/ UNCHANGED vars
  <2>1. done' = done
    BY <1>1 DEF disconnect, connect, scan, getStatus, placeholder,
       stopAP, startAP, setConfig, save, restore, getHostByName, getHostname,
       setHostname, ping, NotImplemented, runQueued,
       handlePublish, handleOther, Vendor, vars
  <2>. QED  BY <2>1, NoQueueConsume
<1>2. CASE \E op \in QueryOps, cb \in CbArgs : query(op, cb)
  BY <1>2, QueryConsume
<1>3. CASE handleStaDisconnected
  <2>1. "disc" \in Kinds
    BY DEF Kinds
  <2>. QED  BY <1>3, <2>1, ResolveConsume DEF handleStaDisconnected
<1>4. CASE handleStaGotIp
  <2>1. "gotip" \in Kinds
    BY DEF Kinds
  <2>. QED  BY <1>4, <2>1, ResolveConsume DEF handleStaGotIp
<1>5. CASE handleScanDone
  <2>1. CASE slot["scan"] = NULL
    <3>1. done' = done
      BY <1>5, <2>1 DEF handleScanDone
    <3>. QED  BY <3>1, NoQueueConsume
  <2>2. CASE slot["scan"] # NULL
    <3>1. "scan" \in Kinds
      BY DEF Kinds
    <3>2. slot' = [slot EXCEPT !["scan"] = NULL]
          /\ done' = DoneIfSet(slot["scan"])
      BY <1>5, <2>2 DEF handleScanDone, QueueCall, DoneIfSet
    <3>. QED  BY <3>1, <3>2, ResolveConsume
  <2>. QED  BY <2>1, <2>2
<1>6. CASE scanAbort
  BY <1>6 DEF scanAbort, ConsumeStep
<1>. QED
  BY <1>1, <1>2, <1>3, <1>4, <1>5, <1>6 DEF Next, Script, event_handler

-----------------------------------------------------------------------------
(* The theorems.                                                           *)

\* Inv holds in every reachable state of WifiAdapter.
THEOREM InvHolds == Spec => []Inv
<1>1. Init => Inv
  BY InitInv
<1>2. Inv /\ [Next]_vars => Inv'
  BY NextInv
<1>. QED  BY <1>1, <1>2, PTL DEF Spec

\* Type correctness of the binding: the slots hold NULL or a callback, the
\* lock counts never go below zero (no jsvUnLock without a matching lock),
\* and the queues and driver state stay well formed.
THEOREM TypeCorrect == Spec => []TypeOK
<1>1. Inv => TypeOK
  BY TypeSplit DEF Inv, SlotInv
<1>. QED  BY <1>1, InvHolds, PTL

\* No callback passed to disconnect, connect, scan or a query is queued
\* twice, whatever the order of events (event_handler, scanCB).
THEOREM NoDoubleCompletionHolds == Spec => []NoDoubleCompletion
<1>1. Inv => NoDoubleCompletion
  BY DEF Inv, SlotInv
<1>. QED  BY <1>1, InvHolds, PTL

\* A callback dropped from its slot without being called (superseded,
\* cleared by an argument error, lost in the abort of scanCB) is never
\* called afterwards.
THEOREM ReleasedNeverCalledHolds == Spec => []ReleasedNeverCalled
<1>1. Inv => ReleasedNeverCalled
  BY DEF Inv, SlotInv
<1>. QED  BY <1>1, InvHolds, PTL

\* The locks held on each callback are exactly the slots holding it: the
\* jsvLockAgainSafe / jsvUnLock pairs of disconnect, connect, scan and
\* event_handler neither leak a callback nor unlock one twice.
THEOREM LocksMatchSlotsHolds == Spec => []LocksMatchSlots
<1>1. Inv => LocksMatchSlots
  BY LocksMatchFromInv
<1>. QED  BY <1>1, InvHolds, PTL

\* A callback is queued only by the step that clears the slot holding it
\* (event_handler, scanCB), and a query never queues a callback a slot
\* still holds: no pending callback is ever both called and kept.
THEOREM QueueConsumesSlotHolds == Spec => QueueConsumesSlot
<1>1. Inv /\ [Next]_vars => [ConsumeStep]_vars
  BY NextConsume
<1>2. [][ConsumeStep]_vars => QueueConsumesSlot
  BY DEF ConsumeStep, QueueConsumesSlot
<1>. QED  BY <1>1, <1>2, InvHolds, PTL DEF Spec

==============================================================================
