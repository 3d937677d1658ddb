-------------------------- MODULE WifiSlotRaceProofs --------------------------
(***************************************************************************)
(* With the JavaScript task and the event-loop task interleaving on        *)
(* g_jsDisconnectCallback statement by statement, and with the event task  *)
(* free to use the value it tested or to reload the global, a callback is  *)
(* queued for the script at most once, for every bound on calls and       *)
(* events.                                                                 *)
(*                                                                         *)
(* QueuedAtMostOnce is not inductive alone.  The argument: the event task  *)
(* queues only a value that is, or was, in the global; a callback enters   *)
(* the global once, by the store of the call that created it (its id is   *)
(* fresh, ArgFresh); once queued it is in the global only until the same   *)
(* pass of the branch clears it, and the task never enters the queue      *)
(* statement holding it (OnceQueued).                                      *)
(***************************************************************************)
EXTENDS WifiSlotRace, TLAPS

USE RaceAssumption

\* The callbacks saved so far are those of calls already made, and the
\* callback argument is that of a call already made.
SavedCalls == saved \subseteq 1 .. calls /\ (arg \in CbIds => arg <= calls)

\* Inside disconnect / connect, the call's own callback has not been saved.
ArgFresh == pcS # "idle" /\ arg \in CbIds => arg \notin saved

\* disconnect reaches its store only with a callback or undefined.
StoreArg == pcS = "store" => arg # Bad

\* The global, the tested value and every queued callback are callbacks
\* disconnect saved.
FromSaved ==
  /\ g \in CbIds => g \in saved
  /\ cached \in CbIds => cached \in saved
  /\ \A c \in CbIds : done[c] > 0 => c \in saved

\* A queued callback is in the global only while the branch that queued it
\* has still to clear it, and it is neither the global nor the tested value
\* when the event task is about to queue.
OnceQueued ==
  \A c \in CbIds :
    /\ done[c] <= 1
    /\ done[c] = 1 => /\ g = c => pcE \in {"unlock", "clear"}
                      /\ pcE = "queue" => g # c /\ cached # c

IInv == TypeOK /\ SavedCalls /\ ArgFresh /\ StoreArg /\ FromSaved /\ OnceQueued

-----------------------------------------------------------------------------
(* One lemma per statement of either task.                                 *)

\* Initially nothing is saved, queued or tested.
LEMMA InitIInv == Init => IInv
BY DEF Init, IInv, TypeOK, SavedCalls, ArgFresh, StoreArg, FromSaved,
       OnceQueued, NULL, CbIds

\* Entering disconnect / connect takes the next call's fresh callback id.
LEMMA EnterIInv ==
  ASSUME IInv, NEW o \in {"disconnect", "connect"},
         NEW cb \in {"fn", "undef", "bad"}, Enter(o, cb)
  PROVE  IInv'
<1>1. calls + 1 \in CbIds /\ calls' = calls + 1
  BY DEF Enter, IInv, TypeOK, CbIds
<1>2. arg' \in {NULL, Bad, calls + 1}
  BY DEF Enter
<1>3. /\ g' = g /\ locks' = locks /\ done' = done /\ released' = released
      /\ saved' = saved /\ pcE' = pcE /\ cached' = cached /\ events' = events
      /\ pcS' = "unlock"
  BY DEF Enter
<1>4. TypeOK'
  <2>1. calls' \in 0 .. MaxCalls /\ arg' \in {NULL, Bad} \cup CbIds
    BY <1>1, <1>2 DEF IInv, TypeOK, CbIds
  <2>. QED  BY <1>3, <2>1 DEF IInv, TypeOK
<1>5. SavedCalls' /\ ArgFresh'
  BY <1>1, <1>2, <1>3 DEF IInv, TypeOK, SavedCalls, ArgFresh, NULL, Bad, CbIds
<1>. QED  BY <1>3, <1>4, <1>5 DEF IInv, StoreArg, FromSaved, OnceQueued

\* The script's jsvUnLock of the superseded callback touches only locks.
LEMMA ScriptUnlockIInv ==
  ASSUME IInv, ScriptUnlock
  PROVE  IInv'
<1>1. locks' \in [CbIds -> Int]
  BY DEF ScriptUnlock, IInv, TypeOK, NULL
<1>. QED  BY <1>1 DEF ScriptUnlock, IInv, TypeOK, SavedCalls, ArgFresh,
          StoreArg, FromSaved, OnceQueued

\* The script's reset of the global goes to the store only with a callback
\* or undefined.
LEMMA ScriptClearIInv ==
  ASSUME IInv, ScriptClear
  PROVE  IInv'
BY DEF ScriptClear, IInv, TypeOK, SavedCalls, ArgFresh, StoreArg, FromSaved,
       OnceQueued, NULL, CbIds

\* disconnect's store puts a fresh callback in the global: never one that
\* was queued before.
LEMMA ScriptStoreIInv ==
  ASSUME IInv, ScriptStore
  PROVE  IInv'
<1>1. pcS = "store" /\ arg \in {NULL} \cup CbIds
  BY DEF ScriptStore, IInv, TypeOK, StoreArg
<1>2. arg \in CbIds => arg \notin saved /\ done[arg] = 0
  BY <1>1 DEF IInv, ArgFresh, FromSaved, TypeOK
<1>3. TypeOK'
  BY <1>1 DEF ScriptStore, IInv, TypeOK
<1>4. /\ saved' = IF arg \in CbIds THEN saved \cup {arg} ELSE saved
      /\ g' = arg /\ pcS' = "idle"
      /\ UNCHANGED <<done, calls, arg, cached>>
  BY DEF ScriptStore
<1>5. SavedCalls'
  <2>1. arg \in CbIds => arg \in 1 .. calls
    BY DEF IInv, SavedCalls, TypeOK, CbIds
  <2>. QED  BY <1>4, <2>1 DEF IInv, SavedCalls
<1>6. ArgFresh' /\ StoreArg'
  BY <1>4 DEF ArgFresh, StoreArg
<1>7. FromSaved'
  BY <1>4 DEF IInv, FromSaved
<1>8. OnceQueued'
  BY <1>1, <1>2 DEF ScriptStore, IInv, TypeOK, OnceQueued, NULL, CbIds
<1>. QED  BY <1>3, <1>5, <1>6, <1>7, <1>8 DEF IInv

\* The event task's test: the global it tests is no queued callback.
LEMMA EvTestIInv ==
  ASSUME IInv, EvTest
  PROVE  IInv'
<1>1. pcE = "idle" /\ cached' = g /\ UNCHANGED <<g, done, saved>>
  BY DEF EvTest
<1>2. \A c \in CbIds : done[c] = 1 => g # c
  BY <1>1 DEF IInv, OnceQueued
<1>3. TypeOK'
  BY DEF EvTest, IInv, TypeOK
<1>4. OnceQueued'
  BY <1>1, <1>2 DEF EvTest, IInv, OnceQueued
<1>. QED  BY <1>1, <1>3, <1>4 DEF EvTest, IInv, SavedCalls, ArgFresh,
          StoreArg, FromSaved

\* jsiQueueEvents queues the global or the tested value, neither of them
\* queued before.
LEMMA EvQueueIInv ==
  ASSUME IInv, EvQueue
  PROVE  IInv'
<1>1. PICK v \in ReadG :
        done' = IF v \in CbIds THEN [done EXCEPT ![v] = @ + 1] ELSE done
  BY DEF EvQueue
<1>2. pcE = "queue" /\ pcE' = "unlock"
      /\ UNCHANGED <<g, locks, released, saved, calls, pcS, op, arg, cached, events>>
  BY DEF EvQueue
<1>3. v \in CbIds => v \in saved /\ done[v] = 0
  <2>1. v \in {g, cached}
    BY DEF ReadG
  <2>2. v \in CbIds => done[v] # 1
    BY <1>2, <2>1 DEF IInv, OnceQueued
  <2>3. v \in CbIds => done[v] <= 1 /\ done[v] \in Nat
    BY DEF IInv, OnceQueued, TypeOK
  <2>. QED  BY <2>1, <2>2, <2>3 DEF IInv, FromSaved
<1>4. done' \in [CbIds -> Nat]
  BY <1>1 DEF IInv, TypeOK
<1>5. TypeOK'
  BY <1>2, <1>4 DEF IInv, TypeOK
<1>6. FromSaved'
  BY <1>1, <1>2, <1>3 DEF IInv, TypeOK, FromSaved
<1>7. OnceQueued'
  BY <1>1, <1>2, <1>3 DEF IInv, TypeOK, OnceQueued
<1>. QED  BY <1>2, <1>5, <1>6, <1>7 DEF IInv, SavedCalls, ArgFresh, StoreArg

\* The event task's jsvUnLock touches only locks.
LEMMA EvUnlockIInv ==
  ASSUME IInv, EvUnlock
  PROVE  IInv'
<1>1. locks' \in [CbIds -> Int]
  BY DEF EvUnlock, IInv, TypeOK, ReadG
<1>. QED  BY <1>1 DEF EvUnlock, IInv, TypeOK, SavedCalls, ArgFresh,
          StoreArg, FromSaved, OnceQueued

\* The event task's reset of the global ends the branch.
LEMMA EvClearIInv ==
  ASSUME IInv, EvClear
  PROVE  IInv'
BY DEF EvClear, IInv, TypeOK, SavedCalls, ArgFresh, StoreArg, FromSaved,
       OnceQueued, NULL, CbIds

\* The driver posting an event touches only the event count.
LEMMA PostIInv ==
  ASSUME IInv, Post
  PROVE  IInv'
BY DEF Post, IInv, TypeOK, SavedCalls, ArgFresh, StoreArg, FromSaved, OnceQueued

\* Every step of either task keeps IInv.
LEMMA StepIInv ==
  ASSUME IInv, [Next]_vars
  PROVE  IInv'
<1>1. CASE \E o \in {"disconnect", "connect"}, cb \in {"fn", "undef", "bad"} :
             /\ o = "connect" => cb # "bad"
             /\ Enter(o, cb)
  BY <1>1, EnterIInv
<1>2. CASE ScriptUnlock  BY <1>2, ScriptUnlockIInv
<1>3. CASE ScriptClear   BY <1>3, ScriptClearIInv
<1>4. CASE ScriptStore   BY <1>4, ScriptStoreIInv
<1>5. CASE EvTest        BY <1>5, EvTestIInv
<1>6. CASE EvQueue       BY <1>6, EvQueueIInv
<1>7. CASE EvUnlock      BY <1>7, EvUnlockIInv
<1>8. CASE EvClear       BY <1>8, EvClearIInv
<1>9. CASE Post          BY <1>9, PostIInv
<1>10. CASE UNCHANGED vars
  BY <1>10 DEF vars, IInv, TypeOK, SavedCalls, ArgFresh, StoreArg, FromSaved,
               OnceQueued
<1>. QED  BY <1>1, <1>2, <1>3, <1>4, <1>5, <1>6, <1>7, <1>8, <1>9, <1>10 DEF Next

-----------------------------------------------------------------------------
(* The theorems.                                                           *)

\* IInv holds in every reachable state of the interleaved model.
THEOREM IInvHolds == Spec => []IInv
BY InitIInv, StepIInv, PTL DEF Spec

\* Type correctness of the slot race, with the tasks interleaving: the
\* global only ever holds NULL or a saved callback, never the bad value.
THEOREM RaceTypeOK == Spec => []TypeOK
BY IInvHolds, PTL DEF IInv

\* For every bound on calls and events, and with the tasks interleaving
\* and the event task reading the global or its register copy, the
\* STA_DISCONNECTED branch never queues a disconnect callback twice.
THEOREM RaceQueuedAtMostOnce == Spec => []QueuedAtMostOnce
<1>1. IInv => QueuedAtMostOnce
  BY DEF IInv, OnceQueued, QueuedAtMostOnce
<1>. QED  BY IInvHolds, <1>1, PTL
=============================================================================
