-------------------------- MODULE WifiPayloadProofs --------------------------
(***************************************************************************)
(* No queued callback ever refers to a freed payload object, for every     *)
(* size of the variable store and of the event queue.  The argument runs   *)
(* on the states the handlers pass through: each helper (Alloc, Queue,     *)
(* sendWifiEvent, Unlock) keeps a state well formed and its queued         *)
(* objects alive, provided Unlock is only applied to an object with a      *)
(* lock, which every handler ensures by unlocking only what it has just    *)
(* allocated.                                                              *)
(***************************************************************************)
EXTENDS WifiPayload, SequenceTheorems, TLAPS

USE PayloadAssumption

\* The states a handler passes through.
St == [h : SUBSET ObjIds, l : [ObjIds -> Nat], q : Seq(ObjIds \cup {NULL})]

\* A well-formed state whose queued payloads are all allocated.
Good(st) == st \in St /\ Range(st.q) \ {NULL} \subseteq st.h

\* A state after Queue, and after Alloc or Unlock, as a record.
LEMMA ExceptQ ==
  ASSUME NEW st \in St, NEW v
  PROVE  [st EXCEPT !.q = v] = [h |-> st.h, l |-> st.l, q |-> v]
<1>1. st = [h |-> st.h, l |-> st.l, q |-> st.q]
  BY DEF St
<1>. QED  BY <1>1

\* A state after Alloc or Unlock (heap and locks changed), as a record.
LEMMA ExceptHL ==
  ASSUME NEW st \in St, NEW hv, NEW lv
  PROVE  [st EXCEPT !.h = hv, !.l = lv] = [h |-> hv, l |-> lv, q |-> st.q]
<1>1. st = [h |-> st.h, l |-> st.l, q |-> st.q]
  BY DEF St
<1>2. [st EXCEPT !.h = hv] = [h |-> hv, l |-> st.l, q |-> st.q]
  BY <1>1
<1>3. [[h |-> hv, l |-> st.l, q |-> st.q] EXCEPT !.l = lv] = [h |-> hv, l |-> lv, q |-> st.q]
  OBVIOUS
<1>. QED  BY <1>2, <1>3

\* The values of a sequence after Append and Tail.
LEMMA RangeAppend ==
  ASSUME NEW S, NEW s \in Seq(S), NEW x \in S
  PROVE  /\ Append(s, x) \in Seq(S)
         /\ Range(Append(s, x)) = Range(s) \cup {x}
<1>1. /\ Append(s, x) \in Seq(S)
      /\ Len(Append(s, x)) = Len(s) + 1
      /\ \A i \in 1 .. Len(s) : Append(s, x)[i] = s[i]
      /\ Append(s, x)[Len(s) + 1] = x
  BY AppendProperties
<1>2. DOMAIN Append(s, x) = 1 .. Len(s) + 1 /\ DOMAIN s = 1 .. Len(s)
      /\ Len(s) \in Nat
  BY <1>1, LenProperties
<1>. QED  BY <1>1, <1>2 DEF Range

\* Running the head of the queue removes at most that entry from its range.
LEMMA RangeTail ==
  ASSUME NEW S, NEW s \in Seq(S), s # << >>
  PROVE  /\ Range(s) = Range(Tail(s)) \cup {Head(s)}
         /\ Tail(s) \in Seq(S) /\ Head(s) \in S
<1>1. /\ Head(s) \in S /\ Tail(s) \in Seq(S)
      /\ Len(Tail(s)) = Len(s) - 1
      /\ \A i \in 1 .. Len(Tail(s)) : Tail(s)[i] = s[i + 1]
  BY HeadTailProperties
<1>2. /\ DOMAIN s = 1 .. Len(s) /\ Len(s) \in Nat \ {0}
      /\ DOMAIN Tail(s) = 1 .. Len(Tail(s))
      /\ Head(s) = s[1]
  BY <1>1, LenProperties, EmptySeq
<1>3. ASSUME NEW y \in Range(s) PROVE y \in Range(Tail(s)) \cup {Head(s)}
  <2>1. PICK i \in 1 .. Len(s) : y = s[i]
    BY <1>2 DEF Range
  <2>2. CASE i = 1  BY <1>2, <2>1, <2>2
  <2>3. CASE i # 1
    <3>1. i - 1 \in DOMAIN Tail(s) /\ Tail(s)[i - 1] = s[i]
      BY <1>1, <1>2, <2>3
    <3>. QED  BY <2>1, <3>1 DEF Range
  <2>. QED  BY <2>2, <2>3
<1>4. ASSUME NEW y \in Range(Tail(s)) \cup {Head(s)} PROVE y \in Range(s)
  <2>1. CASE y = Head(s)  BY <1>2, <2>1 DEF Range
  <2>2. CASE y \in Range(Tail(s))
    <3>1. PICK i \in 1 .. Len(Tail(s)) : y = Tail(s)[i]
      BY <1>2, <2>2 DEF Range
    <3>2. i + 1 \in DOMAIN s /\ y = s[i + 1]
      BY <1>1, <1>2, <3>1
    <3>. QED  BY <3>2 DEF Range
  <2>. QED  BY <2>1, <2>2
<1>. QED  BY <1>1, <1>3, <1>4

\* jsvNewObject: the new object is fresh and has one lock; NULL changes
\* nothing.
LEMMA AllocGood ==
  ASSUME NEW st, Good(st), NEW o \in NewIn(st)
  PROVE  /\ Good(Alloc(st, o))
         /\ Alloc(st, o).q = st.q
         /\ o # NULL => o \in Alloc(st, o).h /\ Alloc(st, o).l[o] = 1
<1>1. CASE o = NULL
  BY <1>1 DEF Alloc
<1>2. CASE o # NULL
  <2>1. o \in ObjIds /\ o \notin st.h
    BY <1>2 DEF NewIn
  <2>. QED  BY <1>2, <2>1 DEF Alloc, Good, St
<1>. QED  BY <1>1, <1>2

\* Queueing an allocated object (or NULL) keeps a state Good.
LEMMA QueueGood ==
  ASSUME NEW st, Good(st), NEW o \in st.h \cup {NULL}
  PROVE  /\ Good(Queue(st, o))
         /\ Queue(st, o).h = st.h /\ Queue(st, o).l = st.l
<1>1. /\ Append(st.q, o) \in Seq(ObjIds \cup {NULL})
      /\ Range(Append(st.q, o)) = Range(st.q) \cup {o}
  BY RangeAppend DEF Good, St
<1>2. Queue(st, o) = [h |-> st.h, l |-> st.l, q |-> Append(st.q, o)]
  BY ExceptQ DEF Queue, Good
<1>. QED  BY <1>1, <1>2 DEF Good, St

\* sendWifiEvent keeps a state Good whether or not the event has listeners.
LEMMA SendGood ==
  ASSUME NEW st, Good(st), NEW o \in st.h \cup {NULL}, NEW listened \in BOOLEAN
  PROVE  Good(sendWifiEvent(st, o, listened))
BY QueueGood DEF sendWifiEvent

\* jsvUnLock of an object with a lock: freeing it only when no queued
\* callback refers to it keeps every queued payload alive.
LEMMA UnlockGood ==
  ASSUME NEW st, Good(st), NEW o, o = NULL \/ (o \in ObjIds /\ st.l[o] >= 1)
  PROVE  Good(Unlock(st, o))
<1>1. CASE o = NULL
  BY <1>1 DEF Unlock
<1>2. CASE o # NULL
  <2>. DEFINE h2 == IF st.l[o] = 1 /\ o \notin Range(st.q) THEN st.h \ {o} ELSE st.h
              l2 == [st.l EXCEPT ![o] = @ - 1]
  <2>1. Unlock(st, o) = [h |-> h2, l |-> l2, q |-> st.q]
    BY <1>2, ExceptHL DEF Unlock, Good
  <2>2. l2 \in [ObjIds -> Nat]
    BY <1>2 DEF Good, St
  <2>3. h2 \subseteq ObjIds /\ Range(st.q) \ {NULL} \subseteq h2
    BY <1>2 DEF Good, St
  <2>. QED  BY <2>1, <2>2, <2>3 DEF Good, St
<1>. QED  BY <1>1, <1>2

\* A fresh object allocated, then queued, then unlocked (scanCB, the
\* completion callback of GOT_IP, a query with a callback).
LEMMA AllocQueueUnlockGood ==
  ASSUME NEW st, Good(st), NEW o \in NewIn(st)
  PROVE  Good(Unlock(Queue(Alloc(st, o), o), o))
<1>1. Good(Alloc(st, o)) /\ (o # NULL => o \in Alloc(st, o).h /\ Alloc(st, o).l[o] = 1)
  BY AllocGood
<1>2. o \in Alloc(st, o).h \cup {NULL}
  BY <1>1
<1>3. Good(Queue(Alloc(st, o), o)) /\ Queue(Alloc(st, o), o).l = Alloc(st, o).l
  BY <1>1, <1>2, QueueGood
<1>4. o = NULL \/ (o \in ObjIds /\ Queue(Alloc(st, o), o).l[o] >= 1)
  BY <1>1, <1>3 DEF Good, St
<1>. QED  BY <1>3, <1>4, UnlockGood

\* A fresh object allocated and unlocked (getStatus, a query without a
\* callback).
LEMMA AllocUnlockGood ==
  ASSUME NEW st, Good(st), NEW o \in NewIn(st)
  PROVE  Good(Unlock(Alloc(st, o), o))
<1>1. Good(Alloc(st, o)) /\ (o # NULL => o \in Alloc(st, o).h /\ Alloc(st, o).l[o] = 1)
  BY AllocGood
<1>2. o = NULL \/ (o \in ObjIds /\ Alloc(st, o).l[o] >= 1)
  BY <1>1 DEF Good, St
<1>. QED  BY <1>1, <1>2, UnlockGood

\* A fresh object allocated and handed to sendWifiEvent, without unlock.
LEMMA AllocSendGood ==
  ASSUME NEW st, Good(st), NEW o \in NewIn(st), NEW listened \in BOOLEAN
  PROVE  Good(sendWifiEvent(Alloc(st, o), o, listened))
<1>1. Good(Alloc(st, o)) /\ o \in Alloc(st, o).h \cup {NULL}
  BY AllocGood
<1>. QED  BY <1>1, SendGood

\* A handler step that ends in a Good state keeps Inv.
LEMMA BecomesGood ==
  ASSUME NEW st, Good(st), Becomes(st)
  PROVE  Good(Now)'
BY DEF Becomes, Good, St, Now

-----------------------------------------------------------------------------
(* The inductive invariant: the current state is good.                     *)

Inv == Good(Now)

\* The empty store and queue are Good.
LEMMA InitInv == Init => Inv
<1>1. Range(<< >>) = {}
  BY DEF Range
<1>. QED  BY <1>1 DEF Init, Inv, Good, St, Now

\* Publishing an event allocates its details object and queues it when
\* the event has listeners (the object is never unlocked).
LEMMA PublishInv == ASSUME Inv, publishDetails PROVE Inv'
<1>1. PICK o \in NewIn(Now), listened \in BOOLEAN :
             Becomes(sendWifiEvent(Alloc(Now, o), o, listened))
  BY DEF publishDetails
<1>. QED  BY <1>1, AllocSendGood, BecomesGood DEF Inv

\* The STA_GOT_IP branch queues the callback, if set, with a fresh null
\* it then unlocks, and publishes the details object.
LEMMA GotIpInv == ASSUME Inv, handleGotIp PROVE Inv'
<1>1. PICK cbSet \in BOOLEAN, p \in NewIn(Now) :
         LET st == IF cbSet THEN Unlock(Queue(Alloc(Now, p), p), p) ELSE Now
         IN \E o \in NewIn(st), listened \in BOOLEAN :
              Becomes(sendWifiEvent(Alloc(st, o), o, listened))
  BY DEF handleGotIp
<1>. DEFINE st == IF cbSet THEN Unlock(Queue(Alloc(Now, p), p), p) ELSE Now
<1>2. Good(st)
  BY AllocQueueUnlockGood DEF Inv
<1>3. PICK o \in NewIn(st), listened \in BOOLEAN :
             Becomes(sendWifiEvent(Alloc(st, o), o, listened))
  BY <1>1
<1>. QED  BY <1>2, <1>3, AllocSendGood, BecomesGood DEF Inv

\* scanCB allocates the list, queues the callback and unlocks the list.
LEMMA ScanCBInv == ASSUME Inv, scanCB PROVE Inv'
<1>1. PICK a \in NewIn(Now) : Becomes(Unlock(Queue(Alloc(Now, a), a), a))
  BY DEF scanCB
<1>. QED  BY <1>1, AllocQueueUnlockGood, BecomesGood DEF Inv

\* A query allocates its result, queues it to a function callback, and
\* unlocks it on return.
LEMMA QueryInv == ASSUME Inv, query PROVE Inv'
<1>1. PICK withCb \in BOOLEAN, o \in NewIn(Now) :
         Becomes(Unlock(IF withCb THEN Queue(Alloc(Now, o), o) ELSE Alloc(Now, o), o))
  BY DEF query
<1>2. CASE withCb
  BY <1>1, <1>2, AllocQueueUnlockGood, BecomesGood DEF Inv
<1>3. CASE ~withCb
  BY <1>1, <1>3, AllocUnlockGood, BecomesGood DEF Inv
<1>. QED  BY <1>2, <1>3

\* getStatus allocates its result and unlocks it.
LEMMA GetStatusInv == ASSUME Inv, getStatus PROVE Inv'
<1>1. PICK o \in NewIn(Now) : Becomes(Unlock(Alloc(Now, o), o))
  BY DEF getStatus
<1>. QED  BY <1>1, AllocUnlockGood, BecomesGood DEF Inv

\* Running the oldest entry frees its payload only when no later entry
\* refers to it.
LEMMA RunQueuedInv == ASSUME Inv, runQueued PROVE Inv'
<1>. DEFINE o == Head(jsq)
<1>1. jsq \in Seq(ObjIds \cup {NULL}) /\ jsq # << >> /\ heap \subseteq ObjIds
      /\ Range(jsq) \ {NULL} \subseteq heap /\ locks \in [ObjIds -> Nat]
  BY DEF runQueued, Inv, Good, St, Now
<1>2. Range(jsq) = Range(Tail(jsq)) \cup {o} /\ Tail(jsq) \in Seq(ObjIds \cup {NULL})
  BY <1>1, RangeTail
<1>3. /\ jsq' = Tail(jsq) /\ locks' = locks
      /\ heap' = IF o # NULL /\ locks[o] = 0 /\ o \notin Range(Tail(jsq))
                 THEN heap \ {o} ELSE heap
  BY DEF runQueued
<1>4. Range(jsq') \ {NULL} \subseteq heap' /\ heap' \subseteq ObjIds
  BY <1>1, <1>2, <1>3
<1>. QED  BY <1>1, <1>2, <1>3, <1>4 DEF Inv, Good, St, Now

\* Every step keeps Inv: one case per action.
LEMMA StepInv == ASSUME Inv, [Next]_vars PROVE Inv'
<1>1. CASE publishDetails  BY <1>1, PublishInv
<1>2. CASE handleGotIp     BY <1>2, GotIpInv
<1>3. CASE scanCB          BY <1>3, ScanCBInv
<1>4. CASE query           BY <1>4, QueryInv
<1>5. CASE getStatus       BY <1>5, GetStatusInv
<1>6. CASE runQueued       BY <1>6, RunQueuedInv
<1>7. CASE UNCHANGED vars  BY <1>7 DEF vars, Inv, Good, St, Now
<1>. QED  BY <1>1, <1>2, <1>3, <1>4, <1>5, <1>6, <1>7 DEF Next

\* Inv holds in every reachable state of WifiPayload.
LEMMA InvHolds == Spec => []Inv
BY InitInv, StepInv, PTL DEF Spec

\* For every size of the variable store and of the JS event queue, the
\* heap, the lock counts and the queue keep their types: in particular no
\* jsvUnLock in event_handler, scanCB or the queries drives a lock count
\* below zero.
THEOREM PayloadTypeOK == Spec => []TypeOK
<1>1. Inv => TypeOK
  BY DEF Inv, Good, St, Now, TypeOK
<1>. QED  BY <1>1, InvHolds, PTL

\* For every size of the variable store and of the JS event queue, no
\* queued callback refers to a JsVar that an unlock in event_handler,
\* scanCB or a query, or the run of an earlier callback, has freed.
THEOREM PayloadQueuedAlive == Spec => []QueuedAlive
<1>1. Inv => QueuedAlive
  BY DEF Inv, Good, Now, QueuedAlive
<1>. QED  BY <1>1, InvHolds, PTL
=============================================================================
