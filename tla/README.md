# Verification of the ESP32 Wi-Fi binding

This directory holds TLA+ models of `src/libs/network/esp32/jswrap_esp32_network.c`,
the binding between Espruino's JavaScript `Wifi` module and the ESP-IDF Wi-Fi
driver. It also holds the TLC configurations that model-check the models, and
TLAPS proofs of their main safety invariants.

## The system

The file has three kinds of parts.

- **The API calls** are run by the JavaScript interpreter task:
  - `disconnect`, `connect` and `scan` take a callback. They store it in one of
    three process-wide slots: `g_jsDisconnectCallback`, `g_jsGotIpCallback`
    and `g_jsScanCallback`. Each slot holds a lock on the function
    (`jsvLockAgainSafe` / `jsvUnLock`). The calls then start the vendor
    operation with `esp_wifi_*`.
  - The queries (`getDetails`, `getAPDetails`, `getIP`, `getAPIP` through
    `getIPInfo`) queue their callback at once. `getStatus` ignores its
    callback.
  - The remaining operations (`startAP`, `stopAP`, `setConfig`, `save`,
    `restore`, `getHostByName`, `getHostname`, `setHostname`, `ping`) only
    log "Not implemented".
- **`event_handler`** is run by the ESP-IDF event-loop task, once for each
  system event. Three branches resolve a slot:
  - `STA_DISCONNECTED` queues the disconnect callback, then clears and unlocks it.
  - `STA_GOT_IP` does the same for the connect callback, through
    `sendWifiCompletionCB`.
  - `SCAN_DONE` goes to `scanCB`, which fetches the AP records, queues the scan
    callback with the list, and clears it. A failed fetch hits
    `ESP_ERROR_CHECK`, which aborts the chip.

  The handler publishes the events that `wifiGetEvent` names on the module's
  `#on…` listeners, through `sendWifiEvent`.
- **The vendor driver and the event loop** are not in the repository. They are
  modelled as the environment: the radio is started or not, the station link
  is in some state, a scan is running or not, and system events wait in a
  bounded queue.

## Components and modules

| Component | Module | Status |
|---|---|---|
| Callback slots and `disconnect` / `connect` / `scan` | `WifiAdapter` | modelled |
| `event_handler`, `sendWifiEvent`, `sendWifiCompletionCB`, `scanCB` | `WifiAdapter` | modelled |
| Queries (`getDetails`, `getAPDetails`, `getIP`, `getAPIP`, `getStatus`) | `WifiAdapter`, `WifiPayload`, `WifiCodec` | partly: callbacks, object lifetime and the SSID/password fields; not the IP, MAC or mode values |
| Not-implemented operations | `WifiAdapter` (`stopAP`, `startAP`, `setConfig`, `save`, `restore`, `getHostByName`, `getHostname`, `setHostname`, `ping`) | modelled: each a step with no effect |
| Initialisation | `WifiAdapter` (`Init`) | partly: the globals start NULL, and driver set-up is the environment |
| Two tasks on `g_jsDisconnectCallback` | `WifiSlotRace` | modelled |
| What the slots promise | `PendingCallbacks`, refined by `WifiAdapter` in `WifiAdapterRefinement` | modelled |
| JsVar ownership of payloads | `WifiPayload` | partly: the containers, not their fields |
| SSID / password copies | `WifiCodec` | partly: not `authModeToString` or the MAC/IP formatting |
| Vendor driver and event loop | `WifiAdapter` (the `Vendor*` actions) | the environment |

### `WifiAdapter.tla`

**State**

- `slot` holds the three globals, with 0 standing for NULL.
- `locks` counts the locks this file holds on each callback.
- `jsq` is the JavaScript event queue.
- `thrown` is the exception raised by the latest API call.
- `calls` counts the API calls made so far. Call `n` passes callback `n`, so
  every registration can be told apart.
- `vq`, `vStarted`, `vLink`, `vAtt` and `vScanning` are the driver. `vAtt`
  records which connect call began the current link.
- `done` and `released` are history variables. `done` counts how often each
  callback was queued. `released` holds the callbacks dropped without being
  called.

**Actions**

- There is one action per API function: `disconnect`, `connect`, `scan`,
  `query`, `getStatus`, and one for each of the nine functions that only log
  "Not implemented" (`stopAP`, `startAP`, ..., `ping`, grouped as
  `placeholder`).
  - Every argument check, early return and failing `esp_wifi_*` call is a
    disjunct or an input. A failing call is the input `fail`, which names the
    first call that fails.
  - The order of the code is kept: the slots are cleared before the argument
    checks. The scan callback is stored before the vendor calls, and the
    connect callback after `esp_wifi_start`.
- There is one action per branch of `event_handler`: `handleStaDisconnected`,
  `handleStaGotIp`, `handlePublish`, `handleScanDone`, `scanAbort` (the abort
  in `scanCB`) and `handleOther`.
- `runQueued` is the interpreter running a queued callback.
- The `Vendor*` actions are the driver posting events.

Each API call and each run of `event_handler` is one atomic step. This is the
serialisation that the spec of the binding assumes. The real code does not
lock the slots. `WifiSlotRace` models the race this leaves open.

**Fairness**

The model assumes weak fairness of:

- `event_handler`: the event-loop task always runs while events are queued;
- `runQueued`: the interpreter's idle loop drains its queue.

It assumes strong fairness of the driver finishing a scan it started and a
disconnection it was asked for. Weak fairness is not enough here. The only
thing that disables these steps is the model's bound on the event queue. A
driver that keeps posting other events (for example repeated
`STA_AUTHMODE_CHANGE`) fills that queue every other step, and TLC then finds
a behaviour in which the scan never finishes. The real driver posts its
completion whatever else it reports.

Association and DHCP are not assumed to succeed, because an access point can
refuse forever.

### `WifiSlotRace.tla`

This module covers `g_jsDisconnectCallback` alone, shared by two tasks:

- the JavaScript task runs `disconnect` and the part of `connect` that clears
  the slot: `Enter`, `ScriptUnlock`, `ScriptClear`, `ScriptStore`;
- the event-loop task runs the `STA_DISCONNECTED` branch: `EvTest`, `EvQueue`,
  `EvUnlock`, `EvClear`.

Each statement that reads or writes the global is a step, with a program
counter per task (`pcS`, `pcE`). The global is not `volatile`, so after its
test the event task may read it again or use the value it kept (`ReadG`).
The tasks interleave freely: nothing in the code serialises them. The
atomic steps of `WifiAdapter` are the serialisation the spec of the binding
assumes; this module shows what the code guarantees without it.

### `PendingCallbacks.tla` and `WifiAdapterRefinement.tla`

`PendingCallbacks` is the contract of the slots without locks, queues or
driver. For each kind (`disc`, `gotip`, `scan`) there is at most one pending
callback. It has three actions:

- `Call(K, reg)` drops the callbacks pending in the kinds `K` and registers
  the new one, calls it at once, or keeps none;
- `Resolve(k)` calls the pending callback of `k`;
- `Abandon` loses all pending callbacks (a restart).

`WifiAdapterRefinement` instantiates it with `pending <- slot`,
`fired <- done`, `dropped <- released` and `issued <- calls`. It states that
`WifiAdapter` implements the contract (`PCSpec`).

### `WifiPayload.tla`

This module tracks the JsVars the binding builds as payloads. Its state is:

- the allocated objects `heap`;
- the locks C code holds on them (`locks`);
- the payload of each entry of the JS queue (`jsq`).

Each handler is a composition of state transformers: `Alloc` (jsvNewObject,
NULL when the store is full), `sendWifiEvent` / `Queue`, and `Unlock` (which
frees an object with no lock and no queued reference). `runQueued` runs the
oldest entry and frees its payload when nothing else holds it. The fields
inside a payload are created and unlocked in the same call
(`jsvObjectSetChildAndUnLock`), so only the container is tracked.

### `WifiCodec.tla`

Strings are byte sequences over a small alphabet, with `NUL = 0`. The field
widths `SsidW` (32) and `PwW` (64) are constants.

- `Init` is the station config `esp_wifi_init` loads from NVS (line 497),
  before `esp_wifi_set_storage(WIFI_STORAGE_RAM)` at line 498: any bytes,
  terminated or not, since an earlier firmware may have saved them.
- `connect` copies the JS strings with Espruino's `jsvGetString(v, buf, n)`,
  which writes at most `n - 1` bytes and a NUL and returns `n` when the
  string did not fit (`GetStringCopy`, `GetStringLen`; the function is not in
  this repository). `SsidBuf` and `PasswordBuf` are `ssid[33]` and
  `password[65]` after the copy and `buf[len] = '\0'`; `connect` `memcpy`s
  the first 32 and 64 bytes into the config. The bytes after the SSID's
  terminator are stack junk and are chosen nondeterministically.
- `FieldString` is the reference reading of a fixed-width field, written
  independently of the code's `strncpy` and `CStr`: the bytes before the
  first NUL, or the whole field when it has none.
- `getDetails` decodes the SSID with `strncpy` plus a forced terminator
  (`DecodeSsid`, which is also `scanCB`'s decode). It reads the password
  with `jsvNewFromString(config.password)` (`CStr`), which does not stop at
  the field's end.
- `after` is the byte of the driver's config that follows the password. The
  layout of that struct is not in this repository, so the byte is any value.

## Runs

All runs use `VendorQueueCap = 2` and `JsQueueCap = 3`. With these bounds, an
event can wait behind a second one, which is what the stale `GOT_IP` case
needs. A handler step can also queue both a callback and an event.
`MaxCalls = 3` gives a superseding call, a call that fails an argument check
and a successful call in the same behaviour. (4 calls give 630 000 states
and take over five minutes with `PCSpec`.)

| Run | Expect | Properties | Shows |
|---|---|---|---|
| `safety` (`WifiAdapterRefinement`, MaxCalls 3, vendor may fail) | pass | `TypeOK`, `NoDoubleCompletion`, `ReleasedNeverCalled`, `LocksMatchSlots`, `PCSpec`, `QueueConsumesSlot` | No callback is queued twice, even with repeated events, failures and aborts. A superseded callback is never called. The locks always match the slots. A step that queues a pending callback clears its slot in the same step. Every behaviour is one of the abstract contract. |
| `reliable` (vendor calls succeed) | pass | `ScanSlotBacked`, `ScanEventuallyCompletes` | With a working driver, a pending scan is backed by a running scan and its callback is eventually called. |
| `scanwedge` | violation | `ScanSlotBacked` | A failing `esp_wifi_set_mode`, `esp_wifi_start` or `esp_wifi_scan_start` leaves `g_jsScanCallback` set forever. Every later `scan` then throws "already in progress". |
| `stalegotip` | violation | `ConnectCallbackOwnLink` | A queued `STA_GOT_IP` of the previous link resolves the callback of a newer `connect`. |
| `discidle` | violation | `DisconnectEventuallyCompletes` | `disconnect(cb)` before the station starts never calls `cb`. |
| `race_interleaved` (MaxCalls 3, MaxEvents 2) | pass | `TypeOK`, `QueuedAtMostOnce` | With the tasks interleaving and the event task reloading the global or using its register copy, the slot holds only saved callbacks and no disconnect callback is queued twice. |
| `race_unserialised` | violation | `DisconnectSlotSound` | With the tasks interleaving, `disconnect`'s unlock between the event task's test and its unlock unlocks one callback twice. The event task's clear can also overwrite a freshly stored callback, leaking its lock and losing it. |
| `payload_safety` (4 objects, queue 4, symmetry) | pass | `TypeOK`, `QueuedAlive` | No queued callback refers to a freed object, whatever the order of unlocks and runs. |
| `payload_leak` (3 objects) | violation | `NoLeakedPayload` | The `jsDetails` object of a published event keeps the lock `jsvNewObject` gave it when the handler returns; the trace is an event with no listener, where nothing refers to the object any more. |
| `codec_roundtrip` (widths 2, strings up to 3) | pass | `TypeOK`, `SsidWithinField` | `getDetails` returns the SSID field as the spec decodes it (spec, SSID decoding), whatever NVS or `connect`'s stack junk left in it, a full field without NUL included. |
| `codec_overread` | violation | `PasswordWithinField` | A 64-byte password loaded from NVS has no NUL in its field and comes back with the following byte of the config. |
| `codec_ssid31` | violation | `ConnectStoresSsid` | `connect` stores a 32-byte SSID as 31 bytes: `sizeof(ssid)-1` is passed to `jsvGetString`, which already keeps a byte for the NUL. |

Bounds of the newer runs:

- `WifiSlotRace` uses 3 calls and 2 events. That is enough for a second
  `disconnect` to land inside the event task's four steps.
- `WifiPayload` uses 4 objects for `payload_safety` and 3 for
  `payload_leak`. Four fill the store, so the NULL-allocation path occurs.
- `WifiCodec` uses widths of 2 and strings of up to 3 bytes. That covers
  strings that are empty, shorter than the copy bound, exactly at the field
  width (the truncated case) and longer, and every initial field of two
  bytes, with and without a NUL.

Every property of a passing run has a mutant in `PROJECT.json`. Each mutant
makes a plausible bug in the mapped code, for example a missing reset to NULL,
a missing unlock, or an inverted NULL test. TLC finds each mutant's property
violated.

## Proofs (`WifiAdapterProofs.tla`)

TLAPS proves the following for every value of the constants, assuming only
`ConstantsAssumption`:

- `TypeCorrect`: `Spec => []TypeOK`;
- `NoDoubleCompletionHolds`: `Spec => []NoDoubleCompletion`;
- `ReleasedNeverCalledHolds`: `Spec => []ReleasedNeverCalled`;
- `LocksMatchSlotsHolds`: `Spec => []LocksMatchSlots`;
- `QueueConsumesSlotHolds`: `Spec => QueueConsumesSlot`, the action
  property that a step queuing a callback held in a slot clears that slot.

None of these properties is inductive on its own. The proof uses the
inductive invariant `Inv`, which adds four conjuncts:

- `SlotsFresh`: a callback in a slot comes from an earlier call and has been
  neither queued nor dropped.
- `FutureClean`: the callback of a call not yet made has been neither queued
  nor dropped. This is what makes a query's fresh callback safe to queue.
- `SlotsDistinct`: no callback is in two slots. Without it, resolving one slot
  could leave a callback that was already called in another.
- `LocksHeld`: a callback holds exactly one lock if a slot holds it, and none
  otherwise. This keeps `jsvUnLock` from going below zero, which `TypeOK`
  needs.

TLC checked `Inv` as an invariant before it was proved (`MaxCalls = 3`,
failing driver, about 50,000 states).

`Inv` is split into `SlotInv` (slots, locks, call count, history) and
`EnvTypes` (queues, exception, driver). The steps of the binding come in
three shapes, and each shape is proved once as a lemma:

- `SlotsStable`: a step that leaves the slots, locks and history alone
  (`getStatus`, the placeholders, `runQueued`, the publishing branches, the
  driver, an argument error before any slot is touched).
- `SlotResolved`: `event_handler` queuing, unlocking and clearing one slot.
- `Rebind` (through `SlotsRebound`, `UnlockSlot` and `LockFresh`):
  `disconnect`, `connect` and `scan` clearing a set of slots and storing the
  fresh callback of the call, or NULL, in one of them.

`FreshQueued` covers a query queuing its own callback, and `ScanAbortInv` the
abort. One lemma per action (`DisconnectInv`, `ConnectInv`, `ScanInv`,
`QueryInv`, `ResolveInv`, `ScanDoneInv`, ...) applies them to each disjunct
of the code. `NextInv` then has one case per action, and `InvHolds`
(`Spec => []Inv`) follows by `PTL`.

`LocksMatchSlots` follows from `LocksHeld` and `SlotsDistinct`: the set of
slots that hold `c` is empty or a singleton (`FS_EmptySet`, `FS_Singleton`).
tlapm checks the whole module in a few minutes.

`QueueConsumesSlotHolds` is proved from `Inv` step by step (`NextConsume`):
steps that queue nobody satisfy it vacuously; a resolving branch clears the
slot it queues, and by `SlotsDistinct` no other slot holds that callback
(`ResolveConsume`); a query queues callback `calls + 1`, which by
`SlotsFresh` no slot holds (`QueryConsume`). The temporal step combines
`[](Inv /\ [Next]_vars)` with `PTL`.

## Proof of the scan bookkeeping (`WifiAdapterScanProofs.tla`)

`ScanSlotBackedHolds` proves `Spec => []ScanSlotBacked` for every bound,
under the hypothesis `~VendorMayFail`. The hypothesis is the one of the
`reliable` run, and the `scanwedge` run shows it is needed: with a failing
driver the property is false. Given `TypeOK` (from `TypeCorrect`), the
property is inductive as it stands:

- `scan` stores its callback only together with `vScanning' = TRUE`, since
  no vendor call fails (`ScanBacked`);
- `VendorScanDone` ends the scan but appends `SCAN_DONE` (`AppendScanDone`);
- `scanCB` takes `SCAN_DONE` and clears the slot (`ScanDoneBacked`);
- any other event taken off the queue is not `SCAN_DONE`, so a queued
  `SCAN_DONE` behind it stays (`TailKeepsScanDone`);
- `scanAbort` is disabled without failures; nothing else touches the scan
  slot, the scan or the event queue.

## Proofs of the slot race (`WifiSlotRaceProofs.tla`)

The model has no serialisation: the two tasks interleave at every statement,
and the event task may reload the global or use the value it tested.
`RaceTypeOK` and `RaceQueuedAtMostOnce` prove the two invariants of the
`race_interleaved` run for every bound on calls and events. The inductive
invariant `IInv` adds:

- `SavedCalls`: saved callbacks and the current argument belong to calls
  already made;
- `ArgFresh`: inside `disconnect`/`connect`, the call's own callback is not
  yet saved, so a store never puts back a callback that was queued;
- `StoreArg`: `disconnect` reaches its store only with a callback or
  undefined, never the bad value;
- `FromSaved`: the global, the tested value and every queued callback were
  saved by `disconnect`;
- `OnceQueued`: a queued callback is in the global only while the pass of
  the branch that queued it has still to clear it, and it is neither the
  global nor the tested value when the event task is about to queue.

TLC checked `IInv` on the `race_interleaved` instance before the proof. There
is one lemma per statement of each task. The other half of the slot
discipline (no double unlock, no leaked lock, no lost callback) is false
under this interleaving (`race_unserialised`) and is not proved.

## Proofs of the payload lifetimes (`WifiPayloadProofs.tla`)

`PayloadTypeOK` and `PayloadQueuedAlive` prove `TypeOK` and `QueuedAlive` for
every size of the store and of the queue. Each handler is a composition of
the helpers `Alloc`, `Queue`, `sendWifiEvent` and `Unlock`. The proof shows
that each helper keeps a state `Good`, meaning well typed with every queued
object allocated (`AllocGood`, `QueueGood`, `SendGood`, `UnlockGood`).
`UnlockGood` needs the object to hold a lock, and every handler guarantees
this by unlocking only an object it has just allocated. `RunQueuedInv` uses
`RangeTail`: an object referenced by the rest of the queue is still
referenced, so it is not freed. `Unlock` is written without a nested `@`
inside the record `EXCEPT`, which tlapm 1.4.5 expands wrongly. TLC gives the
same state space either way.

## Proofs of the codec (`WifiCodecProofs.tla`)

`CodecTypeOK` and `CodecSsidWithinField` prove `TypeOK` and `SsidWithinField`
for every field width, alphabet and string bound. The `codec_roundtrip` run
only checks widths of 2. Since the config starts as anything NVS held, the
proofs are about every byte array, and `TypeOK /\ SsidWithinField` is
inductive as it stands.

- `FirstNul`: an array holding a NUL has a first one. This is the least
  element of the NUL positions, from the well-foundedness of `<` on `Nat`
  (`WFMin`, `NatLessThanWellFounded` of the library), cited with sets, not
  operator parameters.
- `CStrAt`, `CStrNone` and `FieldStringAt` say where `CStr` and the
  reference `FieldString` stop; `CStrField` combines them: on a finite
  array, the read up to the first NUL is the field-bounded string, made of
  JS bytes.
- `DecodeField` shows that `strncpy(buf, raw, 32)` and `buf[32] = 0` give
  that string for the SSID field, including a full field with no NUL
  (`StrncpyShort`, `PaddedPrefix`, `CStrPrefix`).
- `SsidBufType` and `PasswordBufType` show that `connect` fills both fields
  to their width, from `GetStringCopyProps`: the copy is at most `n - 1`
  bytes.

Nothing is proved about the password read, which is false
(`codec_overread`), or about what `connect` stores, which loses a byte
(`codec_ssid31`).

## What stays with TLC

- **Liveness.** This covers `ScanEventuallyCompletes` and
  `DisconnectEventuallyCompletes`. TLAPS cannot reason about liveness under
  fairness or about `ENABLED`.
- **Violated properties.** The properties of the violation runs state what
  the spec says and the code does not do, so there is nothing to prove.
- **`NoLeakedPayload`.** It only holds with `PublishOn = FALSE`, and no run
  keeps that case.

## Proofs of the refinement (`PendingCallbacksProofs.tla`, `WifiAdapterRefinementProofs.tla`)

**`AbsCalledAtMostOnce`** proves, for every positive `MaxCalls`, that the
contract calls no callback twice and no dropped callback at all. The
invariant is not inductive alone. It is strengthened to `AbsInv` with three
more conjuncts:

- `PendingFresh`: a pending callback was issued and is neither called nor
  dropped;
- `FutureUntouched`: callbacks of calls not yet made are untouched;
- `PendingDistinct`: no callback is pending in two kinds.

With these, the fresh callback `issued + 1` cannot collide with anything.
There is one lemma per action (`AbsCall`, `AbsResolve`, `AbsAbandon`).

**`Refinement`** proves `Spec => PCSpec` for every value of the constants.
`Init` maps to `PC!Init`. Under `Inv` from `WifiAdapterProofs`, every step of
`WifiAdapter` maps to a step of the contract or a stutter (`StepRefines`):

- the API calls map to `Call`, through the lemmas `CallMapped` and
  `CallQuietMapped`;
- the resolving event branches map to `Resolve`;
- the `scanCB` abort maps to `Abandon` (`ScanAbortRefines`);
- vendor, interpreter and other event steps leave the mapped variables
  unchanged (`Quiet`).

`Inv` is needed because a resolving step must know that the slot holds a
valid callback id and that `done` counts only callbacks that were issued.

## Not modelled

- **Formatting.** This covers `authModeToString`, `MAC2STR`, and the IP and
  number strings. They are pure functions with no state. The hazards they
  carry (`MAC2STR(&mac)` at line 449) are listed in `PROJECT.json` with a
  note.
- **The C heap.** `malloc` of the AP list in `scanCB` is not checked for
  NULL.
- **The AP configuration.** It is never written by this file, since `startAP`
  is a placeholder. `getAPDetails` has the same password over-read as
  `getDetails` (line 1063).
- **The ignored `getStatus` callback.** It has no run. The spec and the code
  agree that `getStatus` returns its object, and no statement about the
  callback can be checked.
- **The `getDetails` buffer.** `esp_wifi_get_config` writes a
  `wifi_config_t` into a `wifi_sta_config_t` on the stack. Whether this
  overflows depends on the vendor's struct sizes, which are not in the
  repository.

Divergences seen while modelling, with no run kept for them:

- `wifiGetEvent` names `auth_change` and `probe_recv`, but `event_handler` has
  no branch that emits them (line 485). `MappedEventsEmitted` in
  `WifiAdapter` states it.
- A bad argument drops pending callbacks: `disconnect` unlocks and clears
  its slot (lines 574-575), and `connect` the got-IP slot (660-661) and the
  disconnect slot, before the check that throws. The spec says argument
  errors are raised before any state changes. One call shows it, so no run
  is kept.
- `connect("")` is accepted (line 643), although the spec calls an empty
  network name an argument error. A unit test reaches this directly.
- Without published events, `scanCB` and the queries free all their objects.
  This holds for `NoLeakedPayload` with `PublishOn = FALSE`, which no run
  keeps.

## Further work

- The race on `g_jsGotIpCallback` (`connect` against the `GOT_IP` branch) has
  the same shape as `WifiSlotRace` and could be added to it.
- A serialised variant of `WifiSlotRace` refining the disconnect slot of
  `WifiAdapter`, to relate the two models.
