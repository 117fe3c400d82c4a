--------------------------- MODULE MCMessageList ----------------------------
(* An instance of MessageList for TLC: rows of two heights in turn.        *)
EXTENDS MessageList

MCHeight == [id \in 1..LastId |-> 1 + (id % 2)]
=============================================================================
