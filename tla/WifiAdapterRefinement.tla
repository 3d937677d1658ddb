------------------------ MODULE WifiAdapterRefinement ------------------------
(***************************************************************************)
(* The binding implements PendingCallbacks.  The refinement mapping reads  *)
(* the abstract state off the detailed one: the pending callback of a kind *)
(* is its slot, a callback has fired as often as it was queued for the     *)
(* script, it was dropped when it is in released, and the abstract call    *)
(* count is the binding's.  Locks, the JS queue, the thrown exception and  *)
(* the driver have no abstract counterpart: steps on them alone stutter.   *)
(***************************************************************************)
EXTENDS WifiAdapter

PC == INSTANCE PendingCallbacks
        WITH pending <- slot, fired <- done, dropped <- released, issued <- calls

\* Every behaviour of the binding (its API calls, every branch of
\* event_handler including the scanCB abort, the queued callbacks and the
\* driver) is a behaviour of the abstract pending-callback registers.
PCSpec == PC!Spec

=============================================================================
