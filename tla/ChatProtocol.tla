----------------------------- MODULE ChatProtocol -----------------------------
(***************************************************************************)
(* The frames of the chat, src/src/radio/chat_protocol.cpp: a magic of two *)
(* bytes, a token of three, and the payload of a message, before which a   *)
(* marker and the name of the sender go if there is room for them.         *)
(***************************************************************************)
EXTENDS Naturals, Sequences

CONSTANTS
  MaxMessage,  (* kMaxMessageSize                                          *)
  MaxName      (* kMaxSenderNameSize                                       *)

ASSUME ProtocolAssumption ==
  MaxMessage \in Nat \ {0} /\ MaxName \in Nat \ {0} /\ MaxName < 128

Bytes     == 0..255
TokenMask == 256 * 256 * 256 - 1           (* kTokenMask                   *)
Tokens    == 1..TokenMask                  (* 0 is no token                *)

DataMagic  == <<195, 209>>
AckMagic   == <<195, 161>>
HeaderSize == 5
Marker     == 128                          (* kSenderNameMarker            *)

(* Where encodeData() throws it makes no frame.                            *)
Refused == <<>>

(* appendToken(), readToken()                                              *)
TokenBytes(token) == <<(token \div 256) \div 256, (token \div 256) % 256, token % 256>>
ReadToken(frame)  == (frame[3] * 256 + frame[4]) * 256 + frame[5]

HasMagic(frame, magic) == Len(frame) >= 2 /\ frame[1] = magic[1] /\ frame[2] = magic[2]

IsPrintable(text) == \A i \in DOMAIN text : text[i] \in 32..126

Encode(token, payload) ==
  IF token \in Tokens /\ Len(payload) \in 1..MaxMessage
  THEN DataMagic \o TokenBytes(token) \o payload
  ELSE Refused

(* Mutant of Fits: the marker is forgotten.                                *)
FitsWithoutMarker(payload, name) == Len(payload) + Len(name) <= MaxMessage
Fits(payload, name) == Len(payload) + Len(name) + 1 <= MaxMessage

Extended(payload, name) == <<Marker + Len(name)>> \o name \o payload

EncodeNamed(token, payload, name) ==
  CASE name = <<>> -> Encode(token, payload)
    [] name # <<>> /\ (Len(name) > MaxName \/ ~IsPrintable(name)) -> Refused
    [] name # <<>> /\ Len(name) <= MaxName /\ IsPrintable(name) ->
         Encode(token, IF Fits(payload, name) THEN Extended(payload, name) ELSE payload)

EncodeAck(token) == IF token \in Tokens THEN AckMagic \o TokenBytes(token) ELSE Refused

Decoded(kind, token, payload, name) ==
  [kind |-> kind, token |-> token, payload |-> payload, name |-> name]

(* The length that the first byte of a payload gives for a name, and       *)
(* whether a name of that length is there.                                 *)
NameSize(payload) == payload[1] % Marker

HasName(payload) ==
  /\ payload[1] >= Marker /\ NameSize(payload) \in 1..MaxName
  /\ Len(payload) > 1 + NameSize(payload)
  /\ IsPrintable(SubSeq(payload, 2, 1 + NameSize(payload)))

DecodeData(token, payload) ==
  IF HasName(payload)
  THEN Decoded("Data", token, SubSeq(payload, 2 + NameSize(payload), Len(payload)),
               SubSeq(payload, 2, 1 + NameSize(payload)))
  ELSE Decoded("Data", token, payload, <<>>)

Malformed(token) == Decoded("Malformed", token, <<>>, <<>>)

DecodeFrame(frame) ==
  LET token == ReadToken(frame)
      size  == Len(frame) - HeaderSize
  IN CASE token = 0 -> Malformed(0)
       [] token # 0 /\ HasMagic(frame, AckMagic) ->
            IF size = 0 THEN Decoded("Acknowledgement", token, <<>>, <<>>) ELSE Malformed(token)
       [] token # 0 /\ HasMagic(frame, DataMagic) ->
            IF size \in 1..MaxMessage
            THEN DecodeData(token, SubSeq(frame, HeaderSize + 1, Len(frame)))
            ELSE Malformed(token)

Decode(frame) ==
  CASE ~(HasMagic(frame, DataMagic) \/ HasMagic(frame, AckMagic)) -> Decoded("Legacy", 0, frame, <<>>)
    [] HasMagic(frame, DataMagic) \/ HasMagic(frame, AckMagic) ->
         IF Len(frame) < HeaderSize THEN Malformed(0) ELSE DecodeFrame(frame)
-----------------------------------------------------------------------------
(* A text that starts like the marker of a name; no text in ASCII does.    *)
LooksNamed(payload) == payload[1] \in Marker + 1..Marker + MaxName

(* A frame says what was put into it: whoever decodes it has the token and *)
(* the payload, and the name unless it was left out for want of room.      *)
CarriesBoth(token, payload, name) ==
  Decode(EncodeNamed(token, payload, name)) =
    Decoded("Data", token, payload,
            IF name # <<>> /\ Fits(payload, name) THEN name ELSE <<>>)
=============================================================================
