---------------------------- MODULE RadioBackend ----------------------------
(***************************************************************************)
(* What an implementation of src/src/radio/radio_backend.hpp promises of   *)
(* the two flags that RadioWorker knows it by, and nothing of how: a       *)
(* backend is opened when it is closed and not receiving, it receives only *)
(* after a startReceive() while it is open, and a close() ends both.  Any  *)
(* call may fail; one that fails may stop receiving and do no more.        *)
(***************************************************************************)
VARIABLES open, receiving

backend == <<open, receiving>>

Init == open = FALSE /\ receiving = FALSE

Open == ~open /\ ~receiving /\ open' = TRUE /\ UNCHANGED receiving

Close == open' = FALSE /\ receiving' = FALSE

StartReceive == open /\ receiving' = TRUE /\ UNCHANGED open

StopReceive == receiving' = FALSE /\ UNCHANGED open

Next == Open \/ Close \/ StartReceive \/ StopReceive

Spec == Init /\ [][Next]_backend
=============================================================================
