--------------------------- MODULE MCLinuxBackend ---------------------------
(* Instances of LinuxBackend: the functions that the code itself gives a   *)
(* pin, and no other.                                                      *)
EXTENDS LinuxBackend

MCPinFns == {Input, OutLow, OutHigh, AltRadio}
=============================================================================
