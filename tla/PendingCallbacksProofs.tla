------------------------ MODULE PendingCallbacksProofs ------------------------
(***************************************************************************)
(* The abstract registers keep their promise: a callback is called at most *)
(* once and never after it was released.  The proof is by the inductive    *)
(* invariant AbsInv of PendingCallbacks: a fresh callback n = issued + 1   *)
(* is untouched, so registering or calling it cannot collide with a        *)
(* callback that was called, dropped or is pending elsewhere.              *)
(***************************************************************************)
EXTENDS PendingCallbacks, TLAPS

\* The bound is a positive natural, as in every instance of the binding.
MaxCallsNat == MaxCalls \in Nat \ {0}

\* The contract starts with nothing issued, pending, called or dropped.
LEMMA AbsInit ==
  ASSUME MaxCallsNat, Init
  PROVE  AbsInv
BY DEF MaxCallsNat, Init, AbsInv, TypeOK, PendingFresh, FutureUntouched,
       PendingDistinct, CalledAtMostOnce, Kinds, NULL, CbIds

\* Call(K, reg): the kinds in K are freed (their callbacks dropped), and
\* the fresh callback n goes to reg or is called at once.
LEMMA AbsCall ==
  ASSUME MaxCallsNat, AbsInv, NEW K \in SUBSET Kinds,
         NEW reg \in Kinds \cup {"now", "none"}, Call(K, reg)
  PROVE  AbsInv'
<1>. DEFINE n == issued + 1
<1>1. /\ n \in CbIds /\ issued' = n
      /\ \A k \in Kinds : pending[k] # NULL => pending[k] < n
      /\ fired[n] = 0 /\ n \notin dropped
  BY DEF MaxCallsNat, AbsInv, TypeOK, Call, CbIds, PendingFresh, FutureUntouched
<1>2. /\ \A k \in Kinds : pending'[k] = IF k = reg THEN n
                                        ELSE IF k \in K THEN NULL ELSE pending[k]
      /\ pending' \in [Kinds -> {NULL} \cup CbIds]
  BY <1>1 DEF Call, AbsInv, TypeOK
<1>3. /\ dropped' = dropped \cup PendingIn(K)
      /\ PendingIn(K) \subseteq {pending[k] : k \in Kinds} \ {NULL}
  BY DEF Call, PendingIn
<1>4. \A c \in CbIds : fired'[c] = IF c = n /\ reg = "now" THEN 1 ELSE fired[c]
  BY <1>1 DEF Call, AbsInv, TypeOK
<1>5. TypeOK'
  <2>1. fired' \in [CbIds -> Nat]
    BY <1>1 DEF Call, AbsInv, TypeOK
  <2>2. PendingIn(K) \subseteq CbIds
    BY DEF PendingIn, AbsInv, TypeOK, NULL
  <2>3. issued' \in 0 .. MaxCalls
    BY <1>1 DEF Call, AbsInv, TypeOK, MaxCallsNat
  <2>. QED  BY <1>2, <1>3, <2>1, <2>2, <2>3 DEF AbsInv, TypeOK
<1>6. PendingFresh'
  <2>1. SUFFICES ASSUME NEW k \in Kinds, pending'[k] # NULL
                 PROVE  pending'[k] <= issued' /\ fired'[pending'[k]] = 0
                        /\ pending'[k] \notin dropped'
    BY DEF PendingFresh
  <2>2. CASE k = reg
    <3>1. pending'[k] = n /\ reg # "now"
      BY <1>2, <2>2 DEF Kinds
    <3>2. n \notin PendingIn(K)
      BY <1>1, <1>3
    <3>. QED  BY <1>1, <1>3, <1>4, <3>1, <3>2
  <2>3. CASE k # reg
    <3>1. k \notin K /\ pending'[k] = pending[k] /\ pending[k] # NULL
      BY <1>2, <2>1, <2>3 DEF NULL
    <3>2. pending[k] \in CbIds /\ pending[k] <= issued /\ fired[pending[k]] = 0
          /\ pending[k] \notin dropped
      BY <3>1 DEF AbsInv, TypeOK, PendingFresh, NULL
    <3>3. pending[k] \notin PendingIn(K)
      BY <3>1 DEF AbsInv, PendingDistinct, PendingIn
    <3>4. pending[k] # n
      BY <1>1, <3>1
    <3>. QED  BY <1>1, <1>3, <1>4, <3>1, <3>2, <3>3, <3>4, <1>1 DEF MaxCallsNat, CbIds
  <2>. QED  BY <2>2, <2>3
<1>7. FutureUntouched'
  <2>1. SUFFICES ASSUME NEW c \in CbIds, c > issued'
                 PROVE  fired'[c] = 0 /\ c \notin dropped'
    BY DEF FutureUntouched
  <2>2. c > issued /\ c # n
    BY <1>1, <2>1 DEF CbIds, AbsInv, TypeOK, MaxCallsNat
  <2>3. fired[c] = 0 /\ c \notin dropped
    BY <2>2 DEF AbsInv, FutureUntouched
  <2>4. c \notin PendingIn(K)
    BY <1>1, <1>3, <2>1 DEF CbIds
  <2>. QED  BY <1>3, <1>4, <2>2, <2>3, <2>4
<1>8. PendingDistinct'
  BY <1>1, <1>2 DEF AbsInv, TypeOK, PendingDistinct, NULL, CbIds
<1>9. CalledAtMostOnce'
  BY <1>1, <1>3, <1>4 DEF AbsInv, TypeOK, CalledAtMostOnce, PendingIn,
     PendingFresh, CbIds
<1>. QED  BY <1>5, <1>6, <1>7, <1>8, <1>9 DEF AbsInv

\* Resolve(k): the pending callback of k is called once and k is freed.
LEMMA AbsResolve ==
  ASSUME MaxCallsNat, AbsInv, NEW k \in Kinds, Resolve(k)
  PROVE  AbsInv'
<1>. DEFINE c == pending[k]
<1>1. /\ c \in CbIds /\ fired[c] = 0 /\ c \notin dropped /\ c <= issued
      /\ \A j \in Kinds : j # k => pending[j] # c
  BY DEF Resolve, AbsInv, TypeOK, PendingFresh, PendingDistinct, NULL
<1>2. /\ \A x \in CbIds : fired'[x] = IF x = c THEN 1 ELSE fired[x]
      /\ \A j \in Kinds : pending'[j] = IF j = k THEN NULL ELSE pending[j]
  BY <1>1 DEF Resolve, AbsInv, TypeOK
<1>3. TypeOK'
  BY <1>1, <1>2 DEF Resolve, AbsInv, TypeOK
<1>4. PendingFresh' /\ PendingDistinct'
  BY <1>1, <1>2 DEF Resolve, AbsInv, TypeOK, PendingFresh, PendingDistinct
<1>5. FutureUntouched'
  <2>1. SUFFICES ASSUME NEW x \in CbIds, x > issued'
                 PROVE  fired'[x] = 0 /\ x \notin dropped'
    BY DEF FutureUntouched
  <2>2. x # c /\ x > issued
    BY <1>1, <2>1 DEF Resolve, CbIds, AbsInv, TypeOK, MaxCallsNat
  <2>. QED  BY <1>2, <2>2 DEF Resolve, AbsInv, FutureUntouched
<1>6. CalledAtMostOnce'
  <2>1. SUFFICES ASSUME NEW x \in CbIds
                 PROVE  fired'[x] <= 1 /\ (x \in dropped' => fired'[x] = 0)
    BY DEF CalledAtMostOnce
  <2>2. CASE x = c
    BY <1>1, <1>2, <2>2 DEF Resolve
  <2>3. CASE x # c
    BY <1>2, <2>3 DEF Resolve, AbsInv, CalledAtMostOnce
  <2>. QED  BY <2>2, <2>3
<1>. QED  BY <1>3, <1>4, <1>5, <1>6 DEF AbsInv

\* Abandon: every pending callback is dropped, none is called.
LEMMA AbsAbandon ==
  ASSUME MaxCallsNat, AbsInv, Abandon
  PROVE  AbsInv'
<1>1. \A c \in PendingIn(Kinds) : c \in CbIds /\ c <= issued /\ fired[c] = 0
  BY DEF PendingIn, AbsInv, TypeOK, PendingFresh, NULL
<1>2. dropped' = dropped \cup PendingIn(Kinds) /\ UNCHANGED <<fired, issued>>
  BY DEF Abandon
<1>3. TypeOK' /\ PendingFresh' /\ PendingDistinct'
  BY <1>1, <1>2 DEF Abandon, AbsInv, TypeOK, PendingFresh, PendingDistinct, NULL, CbIds
<1>4. FutureUntouched'
  BY <1>1, <1>2 DEF AbsInv, TypeOK, FutureUntouched, CbIds
<1>5. CalledAtMostOnce'
  BY <1>1, <1>2 DEF AbsInv, CalledAtMostOnce
<1>. QED  BY <1>3, <1>4, <1>5 DEF AbsInv

\* Every step of the contract keeps AbsInv.
LEMMA AbsStep ==
  ASSUME MaxCallsNat, AbsInv, [Next]_vars
  PROVE  AbsInv'
<1>1. CASE \E K \in SUBSET Kinds, reg \in Kinds \cup {"now", "none"} : Call(K, reg)
  BY <1>1, AbsCall
<1>2. CASE \E k \in Kinds : Resolve(k)
  BY <1>2, AbsResolve
<1>3. CASE Abandon
  BY <1>3, AbsAbandon
<1>4. CASE UNCHANGED vars
  BY <1>4 DEF vars, AbsInv, TypeOK, PendingFresh, FutureUntouched,
     PendingDistinct, CalledAtMostOnce
<1>. QED  BY <1>1, <1>2, <1>3, <1>4 DEF Next

\* The contract of the three pending-callback slots, for every bound on the
\* calls: whatever the order of registrations (disconnect, connect, scan),
\* resolutions (event_handler) and restarts, no callback is called twice
\* and no released callback is called.
THEOREM AbsCalledAtMostOnce ==
  ASSUME MaxCallsNat
  PROVE  Spec => []CalledAtMostOnce
<1>1. Init => AbsInv
  BY AbsInit
<1>2. AbsInv /\ [Next]_vars => AbsInv'
  BY AbsStep
<1>3. AbsInv => CalledAtMostOnce
  BY DEF AbsInv
<1>. QED  BY <1>1, <1>2, <1>3, PTL DEF Spec
=============================================================================
