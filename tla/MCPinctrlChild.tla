--------------------------- MODULE MCPinctrlChild ---------------------------
(* An instance of PinctrlChild: the functions that the code itself gives a *)
(* pin, and no other; GDO0 is found in the two that it has on the board.   *)
EXTENDS PinctrlChild

MCPinFns == {Input, OutLow, OutHigh, AltRadio}

MCInit == ChildInit /\ pin["G15"] \in {Input, AltRadio}

MCSpec == MCInit /\ [][ChildNext]_allVars
=============================================================================
