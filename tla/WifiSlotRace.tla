---------------------------- MODULE WifiSlotRace ----------------------------
(***************************************************************************)
(* The global g_jsDisconnectCallback shared, with no lock, by two tasks:   *)
(*   - the JavaScript task, inside jswrap_ESP32_wifi_disconnect and the    *)
(*     part of jswrap_ESP32_wifi_connect that clears the slot;             *)
(*   - the ESP-IDF event-loop task, inside the STA_DISCONNECTED branch of  *)
(*     event_handler.                                                      *)
(* Each statement that reads or writes the global is a step of its own,    *)
(* so the two tasks interleave between them.  The event task tests the     *)
(* global once and then names it three more times; the global is not       *)
(* volatile, so a build may reload it at every use or keep the value it    *)
(* tested in a register.  Both outcomes are allowed (ReadG).               *)
(***************************************************************************)
EXTENDS Integers

CONSTANTS
  MaxCalls,   \* bound on the API calls the script makes
  MaxEvents   \* bound on the STA_DISCONNECTED events waiting in the event loop

ASSUME RaceAssumption ==
  /\ MaxCalls \in Nat \ {0}
  /\ MaxEvents \in Nat \ {0}

NULL == 0
CbIds == 1 .. MaxCalls
Bad == -1        \* a JsVar that is neither undefined nor a function

VARIABLES
  g,         \* g_jsDisconnectCallback
  locks,     \* locks this file holds on each callback
  done,      \* history: times each callback was queued for the script
  released,  \* history: callbacks the script task unlocked and dropped
  saved,     \* history: callbacks disconnect saved in the global
  calls,     \* API calls made so far; call n passes callback n
  pcS,       \* the JavaScript task's place in disconnect / connect
  op,        \* the API function the JavaScript task is in
  arg,       \* its callback argument: NULL, Bad or its callback id
  pcE,       \* the event task's place in the STA_DISCONNECTED branch
  cached,    \* the value of the global the event task tested
  events     \* STA_DISCONNECTED events waiting in the event loop

vars == <<g, locks, done, released, saved, calls, pcS, op, arg, pcE, cached, events>>

\* The callback value a use of the global yields in the event task: the
\* global reloaded, or the register holding the tested value.
ReadG == {g, cached}

Init ==
  /\ g = NULL
  /\ locks = [c \in CbIds |-> 0]
  /\ done = [c \in CbIds |-> 0]
  /\ released = {}
  /\ saved = {}
  /\ calls = 0
  /\ pcS = "idle" /\ op = "none" /\ arg = NULL
  /\ pcE = "idle" /\ cached = NULL
  /\ events = 0

-----------------------------------------------------------------------------
(* The JavaScript task.                                                    *)

\* Entry of disconnect(cb), or of connect(ssid, opts, cb) once the ssid,
\* options and callback checks before the disconnect slot have passed.
Enter(o, cb) ==
  LET n == calls + 1 IN
  /\ pcS = "idle"
  /\ calls < MaxCalls
  /\ calls' = n
  /\ op' = o
  /\ arg' = CASE cb = "fn" -> n [] cb = "undef" -> NULL [] cb = "bad" -> Bad
  /\ pcS' = "unlock"
  /\ UNCHANGED <<g, locks, done, released, saved, pcE, cached, events>>

\* if (g_jsDisconnectCallback != NULL) jsvUnLock(g_jsDisconnectCallback);
ScriptUnlock ==
  /\ pcS = "unlock"
  /\ IF g # NULL
        THEN /\ locks' = [locks EXCEPT ![g] = @ - 1]
             /\ released' = released \cup {g}
        ELSE UNCHANGED <<locks, released>>
  /\ pcS' = "clear"
  /\ UNCHANGED <<g, done, saved, calls, op, arg, pcE, cached, events>>

\* Faulty variant (for the mutation check): the return after
\* EXPECT_CB_EXCEPTION is missing and the bad value is saved.
ScriptClearNoReturn ==
  /\ pcS = "clear"
  /\ g' = NULL
  /\ pcS' = IF op = "disconnect" THEN "store" ELSE "idle"
  /\ UNCHANGED <<locks, done, released, saved, calls, op, arg, pcE, cached, events>>

\* g_jsDisconnectCallback = NULL; then disconnect throws on a bad callback,
\* and connect goes on with the password and the vendor calls, which do
\* not touch this slot.
ScriptClear ==
  /\ pcS = "clear"
  /\ g' = NULL
  /\ pcS' = IF op = "disconnect" /\ arg # Bad THEN "store" ELSE "idle"
  /\ UNCHANGED <<locks, done, released, saved, calls, op, arg, pcE, cached, events>>

\* g_jsDisconnectCallback = jsvLockAgainSafe(jsCallback); then
\* esp_wifi_disconnect, whose STA_DISCONNECTED the driver posts later.
ScriptStore ==
  /\ pcS = "store"
  /\ g' = arg
  /\ locks' = IF arg \in CbIds THEN [locks EXCEPT ![arg] = @ + 1] ELSE locks
  /\ saved' = IF arg \in CbIds THEN saved \cup {arg} ELSE saved
  /\ pcS' = "idle"
  /\ UNCHANGED <<done, released, calls, op, arg, pcE, cached, events>>

-----------------------------------------------------------------------------
(* The event task: the STA_DISCONNECTED branch of event_handler.           *)

\* The event loop takes a STA_DISCONNECTED event:
\* if (jsvIsFunction(g_jsDisconnectCallback)) { ...
EvTest ==
  /\ pcE = "idle"
  /\ events > 0
  /\ events' = events - 1
  /\ cached' = g
  /\ pcE' = IF g \in CbIds THEN "queue" ELSE "idle"
  /\ UNCHANGED <<g, locks, done, released, saved, calls, pcS, op, arg>>

\* jsiQueueEvents(NULL, g_jsDisconnectCallback, NULL, 0);
EvQueue ==
  /\ pcE = "queue"
  /\ \E v \in ReadG :
       done' = IF v \in CbIds THEN [done EXCEPT ![v] = @ + 1] ELSE done
  /\ pcE' = "unlock"
  /\ UNCHANGED <<g, locks, released, saved, calls, pcS, op, arg, cached, events>>

\* jsvUnLock(g_jsDisconnectCallback);
EvUnlock ==
  /\ pcE = "unlock"
  /\ \E v \in ReadG :
       locks' = IF v \in CbIds THEN [locks EXCEPT ![v] = @ - 1] ELSE locks
  /\ pcE' = "clear"
  /\ UNCHANGED <<g, done, released, saved, calls, pcS, op, arg, cached, events>>

\* Faulty variant (for the mutation check): the global is not reset.
EvClearKeep ==
  /\ pcE = "clear"
  /\ pcE' = "idle"
  /\ UNCHANGED <<g, locks, done, released, saved, calls, pcS, op, arg, cached, events>>

\* g_jsDisconnectCallback = NULL;  (the details object and sendWifiEvent
\* that follow do not touch the slot)
EvClear ==
  /\ pcE = "clear"
  /\ g' = NULL
  /\ pcE' = "idle"
  /\ UNCHANGED <<locks, done, released, saved, calls, pcS, op, arg, cached, events>>

\* The driver posts STA_DISCONNECTED: the disconnection asked for, or a
\* lost link, at any time.
Post ==
  /\ events < MaxEvents
  /\ events' = events + 1
  /\ UNCHANGED <<g, locks, done, released, saved, calls, pcS, op, arg, pcE, cached>>

Next ==
  \/ \E o \in {"disconnect", "connect"}, cb \in {"fn", "undef", "bad"} :
       /\ o = "connect" => cb # "bad"
       /\ Enter(o, cb)
  \/ ScriptUnlock \/ ScriptClear \/ ScriptStore
  \/ EvTest \/ EvQueue \/ EvUnlock \/ EvClear
  \/ Post

Spec == Init /\ [][Next]_vars

-----------------------------------------------------------------------------
(* Properties.                                                             *)

TypeOK ==
  /\ g \in {NULL} \cup CbIds
  /\ locks \in [CbIds -> Int]
  /\ done \in [CbIds -> Nat]
  /\ released \in SUBSET CbIds
  /\ saved \in SUBSET CbIds
  /\ calls \in 0 .. MaxCalls
  /\ pcS \in {"idle", "unlock", "clear", "store"}
  /\ arg \in {NULL, Bad} \cup CbIds
  /\ pcE \in {"idle", "queue", "unlock", "clear"}
  /\ cached \in {NULL} \cup CbIds
  /\ events \in 0 .. MaxEvents

\* jsvUnLock is only called on a callback this file holds a lock on: the
\* script's unlock of the superseded callback and the event task's unlock
\* of the one it queued never both release the same lock.
UnlockOnlyLocked == \A c \in CbIds : locks[c] >= 0

\* Every lock this file holds on a callback is reachable from the global,
\* so some later statement unlocks it: the event task's clear does not
\* overwrite a callback the script has just saved.
NoLeakedLock == \A c \in CbIds : locks[c] > 0 => g = c

\* A callback disconnect saved is, once it has left the global, either
\* queued for the script or dropped by a later API call: it is not lost.
SavedCallbackResolved ==
  \A c \in CbIds :
    (c \in saved /\ g # c /\ pcE = "idle") => done[c] > 0 \/ c \in released

\* A STA_DISCONNECTED event calls the disconnect callback at most once, the
\* duplicated events of a flapping link and the value the event task kept
\* in a register included: jsiQueueEvents never queues a callback twice.
QueuedAtMostOnce == \A c \in CbIds : done[c] <= 1

\* The discipline of the disconnect slot as a whole: no double unlock, no
\* leaked lock, no lost callback, whichever task runs the statements of
\* disconnect, connect and the STA_DISCONNECTED branch.
DisconnectSlotSound == UnlockOnlyLocked /\ NoLeakedLock /\ SavedCallbackResolved
=============================================================================
