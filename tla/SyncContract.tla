---------------------------- MODULE SyncContract ----------------------------
(***************************************************************************)
(* What `SyncEngine.sync()` promises its host, with nothing of how the     *)
(* engine keeps the promise: a request is outstanding until a push         *)
(* snapshot taken after it covers it, the engine comes to rest only with   *)
(* no request outstanding, a failure leaves a retry behind, and stopping   *)
(* is final.                                                               *)
(***************************************************************************)
VARIABLES
    outstanding,    \* a request no push snapshot has covered yet
    mode            \* "resting" | "active" | "backoff" | "stopped"

vars == <<outstanding, mode>>

Init == outstanding = FALSE /\ mode = "resting"

\* A host calls sync(): the engine is, or becomes, active.
Request ==
    /\ mode # "stopped"
    /\ outstanding' = TRUE
    /\ mode' = "active"

\* A cycle reads the dirty set: everything asked for so far is covered.
Serve ==
    /\ mode = "active"
    /\ outstanding' = FALSE
    /\ UNCHANGED mode

\* The engine may come to rest only when nothing is outstanding.
Settle ==
    /\ mode = "active" /\ ~outstanding
    /\ mode' = "resting"
    /\ UNCHANGED outstanding

\* A failed run leaves an armed retry, whatever is outstanding.
BackOff ==
    /\ mode = "active"
    /\ mode' = "backoff"
    /\ UNCHANGED outstanding

Retry ==
    /\ mode = "backoff"
    /\ mode' = "active"
    /\ UNCHANGED outstanding

Stop ==
    /\ mode' = "stopped"
    /\ UNCHANGED outstanding

\* A stopped engine's last unwinding run may still read the dirty set.
Drain ==
    /\ mode = "stopped"
    /\ outstanding' = FALSE
    /\ UNCHANGED mode

Next == Request \/ Serve \/ Settle \/ BackOff \/ Retry \/ Stop \/ Drain

Spec == Init /\ [][Next]_vars
=============================================================================
