-------------------------- MODULE PendingCallbacks --------------------------
(***************************************************************************)
(* What the callback slots of the Wi-Fi binding promise, without locks,    *)
(* queues or driver: for each kind of operation (disconnect, connect's     *)
(* got-IP, scan) at most one pending callback; an API call may drop the    *)
(* pending callbacks of some kinds and register its own callback, or call  *)
(* it at once (the queries); an event resolves the pending callback of     *)
(* its kind by calling it; a restart abandons every pending callback.      *)
(*                                                                         *)
(* Call n of the script passes callback n, so a callback is a number.      *)
(* fired counts the calls of each callback, dropped holds the callbacks    *)
(* released without being called.                                          *)
(***************************************************************************)
EXTENDS Naturals

CONSTANTS
  MaxCalls   \* bound on the API calls the script makes

NULL == 0
CbIds == 1 .. MaxCalls
Kinds == {"disc", "gotip", "scan"}

VARIABLES
  pending,   \* the pending callback of each kind, or NULL
  fired,     \* times each callback has been called
  dropped,   \* callbacks released without being called
  issued     \* API calls made so far

vars == <<pending, fired, dropped, issued>>

\* The callbacks pending in the kinds K.
PendingIn(K) == {pending[k] : k \in K} \ {NULL}

Init ==
  /\ pending = [k \in Kinds |-> NULL]
  /\ fired = [c \in CbIds |-> 0]
  /\ dropped = {}
  /\ issued = 0

\* API call n: the pending callbacks of the kinds K are released; then
\* callback n is registered for kind reg, called at once (reg = "now"), or
\* not kept (reg = "none").  A kind that is not cleared must be free.
Call(K, reg) ==
  LET n == issued + 1 IN
  /\ issued < MaxCalls
  /\ reg \in Kinds => reg \in K \/ pending[reg] = NULL
  /\ issued' = n
  /\ dropped' = dropped \cup PendingIn(K)
  /\ pending' = [k \in Kinds |-> IF k = reg THEN n
                                 ELSE IF k \in K THEN NULL ELSE pending[k]]
  /\ fired' = IF reg = "now" THEN [fired EXCEPT ![n] = @ + 1] ELSE fired

\* The event of kind k arrives while a callback is pending for it: the
\* callback is called and the kind becomes free.
Resolve(k) ==
  /\ pending[k] # NULL
  /\ fired' = [fired EXCEPT ![pending[k]] = @ + 1]
  /\ pending' = [pending EXCEPT ![k] = NULL]
  /\ UNCHANGED <<dropped, issued>>

\* A restart loses every pending callback without calling it.
Abandon ==
  /\ pending' = [k \in Kinds |-> NULL]
  /\ dropped' = dropped \cup PendingIn(Kinds)
  /\ UNCHANGED <<fired, issued>>

Next ==
  \/ \E K \in SUBSET Kinds, reg \in Kinds \cup {"now", "none"} : Call(K, reg)
  \/ \E k \in Kinds : Resolve(k)
  \/ Abandon

Spec == Init /\ [][Next]_vars

-----------------------------------------------------------------------------
TypeOK ==
  /\ pending \in [Kinds -> {NULL} \cup CbIds]
  /\ fired \in [CbIds -> Nat]
  /\ dropped \in SUBSET CbIds
  /\ issued \in 0 .. MaxCalls

\* Every callback is called at most once, and a callback that was released
\* is never called: what the spec asks of the three slots ("resolves it
\* exactly once", "release the first without invoking it").
CalledAtMostOnce ==
  \A c \in CbIds : fired[c] <= 1 /\ (c \in dropped => fired[c] = 0)
\* The inductive strengthening of CalledAtMostOnce: a pending callback
\* comes from an earlier call and is neither called nor dropped; a callback
\* of a call not yet made is untouched; no callback is pending in two kinds.
PendingFresh ==
  \A k \in Kinds : pending[k] # NULL =>
    pending[k] <= issued /\ fired[pending[k]] = 0 /\ pending[k] \notin dropped
FutureUntouched ==
  \A c \in CbIds : c > issued => fired[c] = 0 /\ c \notin dropped
PendingDistinct ==
  \A k1, k2 \in Kinds : k1 # k2 /\ pending[k1] # NULL => pending[k1] # pending[k2]
AbsInv == TypeOK /\ PendingFresh /\ FutureUntouched /\ PendingDistinct /\ CalledAtMostOnce
=============================================================================
