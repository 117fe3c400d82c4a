---------------------------- MODULE MCChatProcess -----------------------------
(* An instance of ChatProcess for TLC: limits of 4 and 2 bytes, names that *)
(* begin alike, of which one is too long, an account that is printable, or *)
(* long, or a letter of two bytes that are not printable, what is left of  *)
(* that when the last byte is erased, alone and with a letter added, and   *)
(* payloads of a letter, of a byte that might be the marker of a name and  *)
(* of one whose name would be too long.                                    *)
EXTENDS ChatProcess

MCTexts    == {<<65, 66>>, <<65, 67>>, <<65, 66, 67>>, <<195>>, <<195, 65>>}
MCAccounts == {<<67>>, <<66, 66, 66>>, <<195, 188>>}
MCTokens   == {1, 65536 + 2, 256 * 256 * 256 - 1}
MCPayloads == UNION {[1..n -> {65, 129, 131}] : n \in 1..4}
=============================================================================
