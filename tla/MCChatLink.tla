----------------------------- MODULE MCChatLink -----------------------------
(* Small instances of ChatLink for TLC. *)
EXTENDS ChatLink

CONSTANTS n1, n2, n3

Pair  == {n1, n2}
Trio  == {n1, n2, n3}

(* Two messages one way and one the other, and a sender and a receiver     *)
(* that restart.                                                           *)
PairMessages == (n1 :> 2) @@ (n2 :> 1)
PairTokens   == (n1 :> <<{1}, {5}>>) @@ (n2 :> <<{3}, {7}>>)

(* Two senders and a radio that only listens; tokens that wrap.            *)
TrioMessages == (n1 :> 1) @@ (n2 :> 1) @@ (n3 :> 0)
TrioTokens   == (n1 :> <<{3}>>) @@ (n2 :> <<{1}>>) @@ (n3 :> <<{2}>>)

(* Both instances meet the conditions of the theorems of ChatLinkProofs.   *)
ASSUME TokensApart /\ WindowSuffices /\ Company
=============================================================================
