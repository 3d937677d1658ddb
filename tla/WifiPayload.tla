----------------------------- MODULE WifiPayload -----------------------------
(***************************************************************************)
(* Ownership of the JsVar objects the binding builds as payloads: the      *)
(* details object of each published event, the null argument of a          *)
(* completion callback, the AP array of scanCB and the result objects of   *)
(* the queries.  A JsVar lives while someone holds a lock on it or a       *)
(* queued callback refers to it; jsvUnLock of the last lock of an          *)
(* unreferenced object frees it.  The JS variable store is bounded         *)
(* (ObjIds); jsvNewObject returns NULL once it is full.                    *)
(*                                                                         *)
(* Every handler run and API call is one step, as in WifiAdapter; the     *)
(* slots are abstracted to whether a callback is set.                      *)
(***************************************************************************)
EXTENDS Naturals, Sequences, Functions, TLC

CONSTANTS
  ObjIds,       \* the JsVar blocks of the variable store
  NULL,         \* a NULL JsVar*
  JsQueueCap,   \* bound on the entries of the JS event queue
  PublishOn     \* whether the driver posts the events published with details

ASSUME PayloadAssumption ==
  /\ NULL \notin ObjIds
  /\ JsQueueCap \in Nat /\ JsQueueCap >= 2
  /\ PublishOn \in BOOLEAN

VARIABLES
  heap,    \* the allocated JsVars
  locks,   \* the locks held on each of them by C code
  jsq      \* the JS event queue: the payload object of each entry, or NULL

vars == <<heap, locks, jsq>>

(* A handler is a sequence of calls into the interpreter; each helper maps *)
(* a state [h |-> heap, l |-> locks, q |-> jsq] to the state after it.     *)

Now == [h |-> heap, l |-> locks, q |-> jsq]
Becomes(st) == heap' = st.h /\ locks' = st.l /\ jsq' = st.q

\* The blocks jsvNewObject / jsvNewNull / jsvNewArray may return: a free
\* one, or NULL when the store is full.
NewIn(st) == IF st.h = ObjIds THEN {NULL} ELSE ObjIds \ st.h

\* The new JsVar o, with one lock.
Alloc(st, o) ==
  IF o = NULL THEN st
  ELSE [st EXCEPT !.h = @ \cup {o}, !.l = [@ EXCEPT ![o] = 1]]

\* jsiQueueEvents / jsiQueueObjectCallbacks with params[0] = o.
Queue(st, o) == [st EXCEPT !.q = Append(@, o)]

\* sendWifiEvent(event, o): queues o to the module's listeners of the
\* event; nothing is queued when the Wifi module or a listener is missing
\* (listened = FALSE).  It never unlocks o.
sendWifiEvent(st, o, listened) == IF listened THEN Queue(st, o) ELSE st

\* jsvUnLock(o): the last lock of an object no queued callback refers to
\* frees it.
Unlock(st, o) ==
  IF o = NULL THEN st
  ELSE [st EXCEPT !.h = IF st.l[o] = 1 /\ o \notin Range(st.q) THEN @ \ {o} ELSE @,
                  !.l = [@ EXCEPT ![o] = st.l[o] - 1]]

\* The blocks of the store are interchangeable.
Symm == Permutations(ObjIds)

Init ==
  /\ heap = {}
  /\ locks = [o \in ObjIds |-> 0]
  /\ jsq = << >>

-----------------------------------------------------------------------------
(* event_handler, on the event-loop task.                                  *)

\* STA_DISCONNECTED, STA_CONNECTED, AP_STACONNECTED, AP_STADISCONNECTED:
\* jsDetails = jsvNewObject(); its fields are set and unlocked;
\* sendWifiEvent queues it on the module's listener; the branch returns
\* without jsvUnLock(jsDetails).  (The disconnect callback queued before
\* it takes no argument.)
publishDetails ==
  /\ PublishOn
  /\ Len(jsq) + 1 <= JsQueueCap
  /\ \E o \in NewIn(Now), listened \in BOOLEAN :
       Becomes(sendWifiEvent(Alloc(Now, o), o, listened))

\* STA_GOT_IP: sendWifiCompletionCB(&g_jsGotIpCallback, NULL) queues the
\* connect callback, when set, with jsvNewNull() and unlocks it; then the
\* details object is built and published as above, without its unlock.
handleGotIp ==
  /\ PublishOn
  /\ Len(jsq) + 2 <= JsQueueCap
  /\ \E cbSet \in BOOLEAN, p \in NewIn(Now) :
       LET st == IF cbSet THEN Unlock(Queue(Alloc(Now, p), p), p) ELSE Now
       IN \E o \in NewIn(st), listened \in BOOLEAN :
            Becomes(sendWifiEvent(Alloc(st, o), o, listened))

\* SCAN_DONE -> scanCB with the scan callback set: jsAccessPointArray is
\* built (each AP record object is pushed into it and unlocked, so it
\* lives as long as the array), queued with the callback, and unlocked.
\* Faulty variant (for the mutation check): the array is unlocked before
\* it is queued.
scanCBUnlockFirst ==
  /\ Len(jsq) + 1 <= JsQueueCap
  /\ \E a \in NewIn(Now) : Becomes(Queue(Unlock(Alloc(Now, a), a), a))

scanCB ==
  /\ Len(jsq) + 1 <= JsQueueCap
  /\ \E a \in NewIn(Now) : Becomes(Unlock(Queue(Alloc(Now, a), a), a))

-----------------------------------------------------------------------------
(* The API calls, on the JavaScript task.                                  *)

\* getDetails, getAPDetails, getIP / getAPIP (getIPInfo): the result
\* object is built, queued to a function callback, and returned; the
\* interpreter unlocks the value a native function returns.
\* Faulty variant (for the mutation check): the result is not unlocked
\* when no callback takes it.
queryKeep ==
  /\ Len(jsq) + 1 <= JsQueueCap
  /\ \E withCb \in BOOLEAN, o \in NewIn(Now) :
       LET st == Alloc(Now, o) IN
       Becomes(IF withCb THEN Unlock(Queue(st, o), o) ELSE st)

query ==
  /\ Len(jsq) + 1 <= JsQueueCap
  /\ \E withCb \in BOOLEAN, o \in NewIn(Now) :
       LET st == Alloc(Now, o) IN
       Becomes(Unlock(IF withCb THEN Queue(st, o) ELSE st, o))

\* getStatus: the status object is built and returned; its callback
\* argument is ignored.
getStatus ==
  \E o \in NewIn(Now) : Becomes(Unlock(Alloc(Now, o), o))

\* The interpreter runs the oldest queued entry and drops its reference:
\* an object with no lock and no other reference is freed.
\* Faulty variant (for the mutation check): running the entry unlocks
\* its payload as if the queue had held a lock.
runQueuedUnlock ==
  /\ jsq # << >>
  /\ LET o == Head(jsq) IN
     /\ jsq' = Tail(jsq)
     /\ heap' = heap
     /\ locks' = IF o = NULL THEN locks ELSE [locks EXCEPT ![o] = @ - 1]

runQueued ==
  /\ jsq # << >>
  /\ LET o == Head(jsq) IN
     /\ jsq' = Tail(jsq)
     /\ heap' = IF o # NULL /\ locks[o] = 0 /\ o \notin Range(Tail(jsq))
                   THEN heap \ {o} ELSE heap
     /\ UNCHANGED locks

Next ==
  \/ publishDetails \/ handleGotIp \/ scanCB
  \/ query \/ getStatus \/ runQueued

Spec == Init /\ [][Next]_vars

-----------------------------------------------------------------------------
TypeOK ==
  /\ heap \subseteq ObjIds
  /\ locks \in [ObjIds -> Nat]
  /\ jsq \in Seq(ObjIds \cup {NULL})

\* No queued callback refers to a freed object: each payload is locked or
\* referenced from the moment it is built until its callbacks have run,
\* whatever the order of the unlocks in event_handler, scanCB and the
\* queries.
QueuedAlive == Range(jsq) \ {NULL} \subseteq heap

\* Every live payload object is still needed by a queued callback.  Once
\* the callbacks have run, the objects event_handler, scanCB and the
\* queries built are back in the variable store, so a long run of Wi-Fi
\* events cannot exhaust it.
NoLeakedPayload == heap \subseteq Range(jsq)
=============================================================================
