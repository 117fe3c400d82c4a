--------------------------- MODULE MCRadioWorker ---------------------------
(* Small instances of RadioWorker for TLC. *)
EXTENDS RadioWorker

CONSTANTS s1, p1

OneSend  == {s1}
OneToken == {p1}

AllCommands    == Commands
ModeCommands   == {RetryCommand, ReceiveOn, ReceiveOff}
=============================================================================
