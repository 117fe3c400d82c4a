--------------------------- MODULE MCChatSession ----------------------------
(* Instances of ChatSession for TLC: sends 1 and 2, one peer token.        *)
EXTENDS ChatSession

CONSTANTS t1

MCSendIds    == 1..2
MCOneSend    == 1..1
MCUiCommands == {RetryCommand} \cup {SendCommand(id) : id \in SendIds}
MCPeerTokens == {t1}
MCNoTokens == {}
=============================================================================
