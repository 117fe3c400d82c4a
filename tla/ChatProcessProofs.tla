-------------------------- MODULE ChatProcessProofs ---------------------------
(***************************************************************************)
(* Theorems about the process of ChatProcess, the nickname it keeps and    *)
(* the frames it makes, for any limits, names and messages.  A name in use *)
(* is one that fits a frame, and what is not printable in it comes from    *)
(* the account's; a save has the whole name in the temporary file, synced, *)
(* before it is renamed; a process that was asked to end has the alarm set.*)
(***************************************************************************)
EXTENDS ChatProcess, TLAPS
-----------------------------------------------------------------------------
(* What there is to know of a concatenation and its parts.                 *)
LEMMA ConcatElements ==
  ASSUME NEW S, NEW a \in Seq(S), NEW b \in Seq(S)
  PROVE  /\ a \o b \in Seq(S) /\ Len(a \o b) = Len(a) + Len(b)
         /\ \A i \in 1..Len(a) : (a \o b)[i] = a[i]
         /\ \A i \in 1..Len(b) : (a \o b)[Len(a) + i] = b[i]
         /\ SubSeq(a \o b, 1, Len(a)) = a
         /\ SubSeq(a \o b, Len(a) + 1, Len(a \o b)) = b
  OBVIOUS

LEMMA ConcatParts ==
  \A a, b \in Seq(Nat) :
    /\ a \o b \in Seq(Nat) /\ Len(a \o b) = Len(a) + Len(b)
    /\ \A i \in Nat : i >= 1 /\ i <= Len(a) => (a \o b)[i] = a[i]
    /\ \A i \in Nat : i >= 1 /\ i <= Len(b) => (a \o b)[Len(a) + i] = b[i]
    /\ SubSeq(a \o b, 1, Len(a)) = a
    /\ SubSeq(a \o b, Len(a) + 1, Len(a \o b)) = b
<1>. SUFFICES ASSUME NEW a \in Seq(Nat), NEW b \in Seq(Nat)
     PROVE
       /\ a \o b \in Seq(Nat) /\ Len(a \o b) = Len(a) + Len(b)
       /\ \A i \in Nat : i >= 1 /\ i <= Len(a) => (a \o b)[i] = a[i]
       /\ \A i \in Nat : i >= 1 /\ i <= Len(b) => (a \o b)[Len(a) + i] = b[i]
       /\ SubSeq(a \o b, 1, Len(a)) = a
       /\ SubSeq(a \o b, Len(a) + 1, Len(a \o b)) = b
  OBVIOUS
<1>1. /\ a \o b \in Seq(Nat) /\ Len(a \o b) = Len(a) + Len(b)
      /\ \A i \in 1..Len(a) : (a \o b)[i] = a[i]
      /\ \A i \in 1..Len(b) : (a \o b)[Len(a) + i] = b[i]
      /\ SubSeq(a \o b, 1, Len(a)) = a
      /\ SubSeq(a \o b, Len(a) + 1, Len(a \o b)) = b
  BY ConcatElements
<1>2. Len(a) \in Nat /\ Len(b) \in Nat
  OBVIOUS
<1>3. \A n \in Nat : \A i \in Nat : i >= 1 /\ i <= n => i \in 1..n
  OBVIOUS
<1>. QED BY <1>1, <1>2, <1>3, Zenon

LEMMA MiddlePart ==
  ASSUME NEW a \in Seq(Nat), NEW b \in Seq(Nat), NEW c \in Seq(Nat)
  PROVE  SubSeq(a \o b \o c, Len(a) + 1, Len(a) + Len(b)) = b
<1>1. Len(a) \in Nat /\ Len(b) \in Nat /\ Len(c) \in Nat
  OBVIOUS
<1>2. /\ a \o b \o c \in Seq(Nat) /\ Len(a \o b \o c) = Len(a) + Len(b) + Len(c)
      /\ a \o b \in Seq(Nat) /\ Len(a \o b) = Len(a) + Len(b)
  OBVIOUS
<1>3. \A i \in 1..Len(b) : (a \o b)[Len(a) + i] = b[i]
  BY ConcatElements
<1>4. \A i \in 1..Len(a \o b) : (a \o b \o c)[i] = (a \o b)[i]
  BY <1>2, ConcatElements
<1>5. \A i \in 1..Len(b) : (a \o b \o c)[Len(a) + i] = b[i]
  BY <1>1, <1>2, <1>3, <1>4
<1>6. /\ SubSeq(a \o b \o c, Len(a) + 1, Len(a) + Len(b)) \in Seq(Nat)
      /\ Len(SubSeq(a \o b \o c, Len(a) + 1, Len(a) + Len(b))) = Len(b)
      /\ \A i \in 1..Len(b) : SubSeq(a \o b \o c, Len(a) + 1, Len(a) + Len(b))[i] = (a \o b \o c)[Len(a) + i]
  BY <1>1, <1>2
<1>. QED BY <1>5, <1>6

LEMMA BytesAreNumbers ==
  /\ \A b \in Bytes : b \in Nat /\ b < 256
  /\ \A s \in Seq(Bytes) : s \in Seq(Nat)
<1>1. \A b \in Bytes : b \in Nat /\ b < 256
  BY DEF Bytes
<1>2. ASSUME NEW s \in Seq(Bytes) PROVE s \in Seq(Nat)
  <2>1. \A i \in 1..Len(s) : s[i] \in Nat
    BY <1>1
  <2>. QED BY <2>1
<1>. QED BY <1>1, <1>2

LEMMA TokensAreNumbers == \A token \in Tokens : token \in Nat /\ token > 0
  BY DEF Tokens

(* readToken() of appendToken(): division and remainder, taken apart.      *)
Value(b) == (b[1] * 256 + b[2]) * 256 + b[3]

LEMMA TokenBytesOfToken ==
  ASSUME NEW token \in Tokens
  PROVE  /\ TokenBytes(token) \in Seq(Nat) /\ Len(TokenBytes(token)) = 3
         /\ Value(TokenBytes(token)) = token
<1>1. token \in Nat
  BY TokensAreNumbers
<1>2. PICK high, low, top, mid :
        high = token \div 256 /\ low = token % 256 /\ top = high \div 256 /\ mid = high % 256
  OBVIOUS
<1>3. high \in Nat /\ low \in Nat
  BY <1>1, <1>2
<1>4. token = 256 * high + low
  BY <1>1, <1>2
<1>5. top \in Nat /\ mid \in Nat
  BY <1>2, <1>3
<1>6. high = 256 * top + mid
  BY <1>2, <1>3
<1>7. TokenBytes(token) = <<top, mid, low>>
  BY <1>2, ZenonT(40) DEF TokenBytes
<1>8. /\ <<top, mid, low>> \in Seq(Nat) /\ Len(<<top, mid, low>>) = 3
      /\ <<top, mid, low>>[1] = top /\ <<top, mid, low>>[2] = mid /\ <<top, mid, low>>[3] = low
  BY <1>3, <1>5
<1>9. (top * 256 + mid) * 256 + low = token
  BY <1>3, <1>4, <1>5, <1>6
<1>10. Value(<<top, mid, low>>) = token
  BY <1>8, <1>9 DEF Value
<1>. QED BY <1>7, <1>8, <1>10, Zenon

LEMMA MagicsDiffer ==
  /\ DataMagic \in Seq(Nat) /\ Len(DataMagic) = 2
  /\ AckMagic \in Seq(Nat) /\ Len(AckMagic) = 2
  /\ DataMagic[2] # AckMagic[2]
  BY DEF DataMagic, AckMagic

(* A frame has its magic, its token and what was put behind them.          *)
LEMMA HeadParts ==
  ASSUME NEW magic \in Seq(Nat), NEW bytes \in Seq(Nat), Len(magic) = 2, Len(bytes) = 3
  PROVE  \E head \in Seq(Nat) :
           /\ head = magic \o bytes /\ Len(head) = 5
           /\ head[1] = magic[1] /\ head[2] = magic[2]
           /\ head[3] = bytes[1] /\ head[4] = bytes[2] /\ head[5] = bytes[3]
<1>1. PICK head : head = magic \o bytes
  OBVIOUS
<1>2. /\ head \in Seq(Nat) /\ Len(head) = Len(magic) + Len(bytes)
      /\ \A i \in Nat : i >= 1 /\ i <= Len(magic) => head[i] = magic[i]
      /\ \A i \in Nat : i >= 1 /\ i <= Len(bytes) => head[Len(magic) + i] = bytes[i]
  BY <1>1, ConcatParts, Zenon
<1>3. Len(head) = 5 /\ head[1] = magic[1] /\ head[2] = magic[2]
  BY <1>2
<1>4. head[3] = bytes[1] /\ head[4] = bytes[2] /\ head[5] = bytes[3]
  BY <1>2
<1>. QED BY <1>1, <1>2, <1>3, <1>4

LEMMA FrameParts ==
  \A token \in Tokens, rest \in Seq(Nat), magic \in {DataMagic, AckMagic} :
    LET frame == magic \o TokenBytes(token) \o rest
    IN  /\ Len(frame) = HeaderSize + Len(rest)
        /\ frame[1] = magic[1] /\ frame[2] = magic[2]
        /\ ReadToken(frame) = token
        /\ SubSeq(frame, HeaderSize + 1, Len(frame)) = rest
<1>. TAKE token \in Tokens, rest \in Seq(Nat), magic \in {DataMagic, AckMagic}
<1>a. magic \in Seq(Nat) /\ Len(magic) = 2
  BY MagicsDiffer
<1>b. PICK frame : frame = magic \o TokenBytes(token) \o rest
  OBVIOUS
<1>1. PICK bytes \in Seq(Nat) :
        bytes = TokenBytes(token) /\ Len(bytes) = 3 /\ Value(bytes) = token
  BY TokenBytesOfToken
<1>2. PICK head \in Seq(Nat) :
        /\ head = magic \o bytes /\ Len(head) = 5
        /\ head[1] = magic[1] /\ head[2] = magic[2]
        /\ head[3] = bytes[1] /\ head[4] = bytes[2] /\ head[5] = bytes[3]
  BY <1>a, <1>1, HeadParts
<1>5. frame = head \o rest
  BY <1>b, <1>1, <1>2
<1>6. /\ frame \in Seq(Nat) /\ Len(frame) = Len(head) + Len(rest)
      /\ \A i \in Nat : i >= 1 /\ i <= Len(head) => frame[i] = head[i]
      /\ SubSeq(frame, Len(head) + 1, Len(frame)) = rest
  <2>1. /\ head \o rest \in Seq(Nat) /\ Len(head \o rest) = Len(head) + Len(rest)
        /\ \A i \in Nat : i >= 1 /\ i <= Len(head) => (head \o rest)[i] = head[i]
        /\ SubSeq(head \o rest, Len(head) + 1, Len(head \o rest)) = rest
    BY ConcatParts, Zenon
  <2>. QED BY <1>5, <2>1, Zenon
<1>7. \A i \in {1, 2, 3, 4, 5} : frame[i] = head[i]
  <2>1. \A i \in Nat : i >= 1 /\ i <= Len(head) => frame[i] = head[i]
    BY <1>6
  <2>2. \A i \in {1, 2, 3, 4, 5} : i \in Nat /\ i >= 1 /\ i <= 5
    OBVIOUS
  <2>. QED BY <1>2, <2>1, <2>2, Zenon
<1>8. frame[1] = magic[1] /\ frame[2] = magic[2]
  BY <1>2, <1>7, Zenon
<1>9. frame[3] = bytes[1] /\ frame[4] = bytes[2] /\ frame[5] = bytes[3]
  BY <1>2, <1>7, Zenon
<1>10. ReadToken(frame) = Value(bytes)
  BY <1>9 DEF ReadToken, Value
<1>11. Len(head) = HeaderSize
  BY <1>2 DEF HeaderSize
<1>. QED BY <1>b, <1>1, <1>6, <1>8, <1>10, <1>11, Zenon

(* An acknowledgement is decoded as one of its token                       *)
(* (chat_protocol.cpp:81-115).                                             *)
THEOREM AckRoundTrip ==
  \A token \in Tokens : Decode(EncodeAck(token)) = Decoded("Acknowledgement", token, <<>>, <<>>)
<1>. SUFFICES ASSUME NEW token \in Tokens
              PROVE  Decode(EncodeAck(token)) = Decoded("Acknowledgement", token, <<>>, <<>>)
  OBVIOUS
<1>1. PICK frame : frame = AckMagic \o TokenBytes(token) \o <<>>
  OBVIOUS
<1>2. EncodeAck(token) = frame
  <2>1. AckMagic \o TokenBytes(token) \in Seq(Nat)
    BY MagicsDiffer, TokenBytesOfToken
  <2>2. AckMagic \o TokenBytes(token) \o <<>> = AckMagic \o TokenBytes(token)
    BY <2>1
  <2>. QED BY <1>1, <2>2 DEF EncodeAck
<1>3. /\ Len(frame) = HeaderSize /\ ReadToken(frame) = token
      /\ frame[1] = AckMagic[1] /\ frame[2] = AckMagic[2]
  <2>0. <<>> \in Seq(Nat) /\ Len(<<>>) = 0
    OBVIOUS
  <2>1. PICK rest \in Seq(Nat) : rest = <<>> /\ Len(rest) = 0
    BY <2>0
  <2>2. frame = AckMagic \o TokenBytes(token) \o rest
    BY <1>1, <2>1
  <2>3. /\ Len(frame) = HeaderSize + Len(rest) /\ ReadToken(frame) = token
        /\ frame[1] = AckMagic[1] /\ frame[2] = AckMagic[2]
    BY <2>2, FrameParts, Zenon
  <2>. QED BY <2>1, <2>3 DEF HeaderSize
<1>4. HasMagic(frame, AckMagic) /\ ~HasMagic(frame, DataMagic) /\ token # 0 /\ Len(frame) = 5
  BY <1>3, MagicsDiffer, TokensAreNumbers DEF HasMagic, HeaderSize
<1>5. DecodeFrame(frame) = Decoded("Acknowledgement", token, <<>>, <<>>)
  BY <1>3, <1>4 DEF DecodeFrame, HeaderSize
<1>6. Decode(frame) = DecodeFrame(frame)
  BY <1>4 DEF Decode, HeaderSize
<1>. QED BY <1>2, <1>5, <1>6

(* A payload is taken for what it is: with a name before it, and without   *)
(* one unless it starts like one.                                          *)
LEMMA NamedPayload ==
  ASSUME NEW payload \in Seq(Bytes), payload # <<>>,
         NEW n \in Seq(Bytes), Len(n) \in 1..MaxName, IsPrintable(n), NEW token
  PROVE  DecodeData(token, Extended(payload, n)) = Decoded("Data", token, payload, n)
<1>1. MaxName \in Nat /\ MaxName < 128 /\ Len(n) \in Nat /\ Len(n) < 128
  BY ProtocolAssumption
<1>2. n \in Seq(Nat) /\ payload \in Seq(Nat) /\ Len(payload) \in Nat /\ Len(payload) > 0
  BY BytesAreNumbers
<1>3. PICK mark : mark = <<Marker + Len(n)>>
  OBVIOUS
<1>4. PICK head : head = mark \o n
  OBVIOUS
<1>5. PICK e : e = Extended(payload, n)
  OBVIOUS
<1>6. mark \in Seq(Nat) /\ Len(mark) = 1 /\ mark[1] = 128 + Len(n)
  BY <1>1, <1>3 DEF Marker
<1>7. e = mark \o n \o payload /\ e = head \o payload
  BY <1>3, <1>4, <1>5 DEF Extended
<1>8. head \in Seq(Nat) /\ Len(head) = 1 + Len(n) /\ head[1] = 128 + Len(n)
  <2>1. /\ head \in Seq(Nat) /\ Len(head) = Len(mark) + Len(n)
        /\ \A i \in Nat : i >= 1 /\ i <= Len(mark) => head[i] = mark[i]
    BY <1>2, <1>4, <1>6, ConcatParts, ZenonT(40)
  <2>. QED BY <1>6, <2>1
<1>9. /\ Len(e) = 1 + Len(n) + Len(payload) /\ e[1] = 128 + Len(n)
      /\ SubSeq(e, 1 + Len(n) + 1, Len(e)) = payload
  <2>1. /\ Len(e) = Len(head) + Len(payload)
        /\ \A i \in Nat : i >= 1 /\ i <= Len(head) => e[i] = head[i]
        /\ SubSeq(e, Len(head) + 1, Len(e)) = payload
    <3>1. /\ Len(head \o payload) = Len(head) + Len(payload)
          /\ \A i \in Nat : i >= 1 /\ i <= Len(head) => (head \o payload)[i] = head[i]
          /\ SubSeq(head \o payload, Len(head) + 1, Len(head \o payload)) = payload
      BY <1>2, <1>8, ConcatParts, ZenonT(40)
    <3>. QED BY <1>7, <3>1, Zenon
  <2>. QED BY <1>1, <1>8, <2>1
<1>10. SubSeq(e, 2, 1 + Len(n)) = n
  <2>1. SubSeq(e, Len(mark) + 1, Len(mark) + Len(n)) = n
    BY <1>2, <1>6, <1>7, MiddlePart, ZenonT(40)
  <2>. QED BY <1>6, <2>1
<1>11. NameSize(e) = Len(n)
  <2>1. \A k \in Nat : k < 128 => (128 + k) % 128 = k
    OBVIOUS
  <2>. QED BY <1>1, <1>9, <2>1 DEF NameSize, Marker
<1>12. HasName(e)
  <2>1. e[1] >= Marker /\ NameSize(e) \in 1..MaxName /\ Len(e) > 1 + NameSize(e)
    BY <1>1, <1>2, <1>9, <1>11 DEF Marker
  <2>. QED BY <2>1, <1>10, <1>11 DEF HasName
<1>13. SubSeq(e, 2 + NameSize(e), Len(e)) = payload
  <2>1. 1 + Len(n) + 1 = 2 + Len(n)
    BY <1>1
  <2>. QED BY <1>9, <1>11, <2>1
<1>. QED BY <1>5, <1>10, <1>11, <1>12, <1>13 DEF DecodeData

LEMMA UnnamedPayload ==
  ASSUME NEW payload \in Seq(Bytes), payload # <<>>, ~LooksNamed(payload), NEW token
  PROVE  DecodeData(token, payload) = Decoded("Data", token, payload, <<>>)
<1>1. payload[1] \in Nat /\ payload[1] < 256
  <2>1. 1 \in 1..Len(payload)
    OBVIOUS
  <2>2. payload[1] \in Bytes
    BY <2>1
  <2>. QED BY <2>2, BytesAreNumbers
<1>2. ASSUME payload[1] >= 128, NameSize(payload) \in 1..MaxName PROVE FALSE
  <2>1. \A k \in Nat : k >= 128 /\ k < 256 => k % 128 = k - 128
    OBVIOUS
  <2>2. NameSize(payload) = payload[1] - 128
    BY <1>1, <1>2, <2>1 DEF NameSize, Marker
  <2>. QED BY <1>1, <1>2, <2>2, ProtocolAssumption DEF LooksNamed, Marker
<1>3. ~HasName(payload)
  BY <1>2 DEF HasName, Marker
<1>. QED BY <1>3 DEF DecodeData

(* A payload in a frame comes out of it (encodeData(), decode()).          *)
LEMMA DataRoundTrip ==
  ASSUME NEW token \in Tokens, NEW payload \in Seq(Bytes), Len(payload) \in 1..MaxMessage
  PROVE  Decode(Encode(token, payload)) = DecodeData(token, payload)
<1>1. PICK frame : frame = Encode(token, payload) /\ frame = DataMagic \o TokenBytes(token) \o payload
  BY DEF Encode
<1>2. /\ Len(frame) = HeaderSize + Len(payload) /\ ReadToken(frame) = token
      /\ frame[1] = DataMagic[1] /\ frame[2] = DataMagic[2]
      /\ SubSeq(frame, HeaderSize + 1, Len(frame)) = payload
  <2>1. frame = DataMagic \o TokenBytes(token) \o payload
    BY <1>1
  <2>2. payload \in Seq(Nat)
    BY BytesAreNumbers
  <2>. QED BY <2>1, <2>2, FrameParts, Zenon
<1>3. HasMagic(frame, DataMagic) /\ ~HasMagic(frame, AckMagic) /\ token # 0
  BY <1>2, MagicsDiffer, TokensAreNumbers DEF HasMagic, HeaderSize
<1>4. Len(payload) \in Nat /\ Len(frame) - HeaderSize = Len(payload)
  BY <1>2 DEF HeaderSize
<1>5. DecodeFrame(frame) = DecodeData(token, payload)
  BY <1>2, <1>3, <1>4 DEF DecodeFrame
<1>6. Decode(frame) = DecodeFrame(frame)
  BY <1>2, <1>3, <1>4 DEF Decode, HeaderSize
<1>. QED BY <1>1, <1>5, <1>6

(* What is sent is decoded as it was sent, for every token, message and    *)
(* name that the encoder takes (chat_protocol.cpp:44-79, 94-135).          *)
THEOREM FramesCarryBoth ==
  \A token \in Tokens, payload \in Seq(Bytes), n \in Seq(Bytes) :
    /\ Len(payload) \in 1..MaxMessage /\ ~LooksNamed(payload)
    /\ Len(n) <= MaxName /\ IsPrintable(n)
    => CarriesBoth(token, payload, n)
<1>. SUFFICES ASSUME NEW token \in Tokens, NEW payload \in Seq(Bytes), NEW n \in Seq(Bytes),
                     Len(payload) \in 1..MaxMessage, ~LooksNamed(payload),
                     Len(n) <= MaxName, IsPrintable(n)
              PROVE  CarriesBoth(token, payload, n)
  OBVIOUS
<1>. USE ProtocolAssumption
<1>1. payload # <<>>
  OBVIOUS
<1>2. CASE n = <<>> \/ ~Fits(payload, n)
  <2>1. EncodeNamed(token, payload, n) = Encode(token, payload)
    BY <1>2 DEF EncodeNamed
  <2>2. Decode(Encode(token, payload)) = Decoded("Data", token, payload, <<>>)
    BY <1>1, DataRoundTrip, UnnamedPayload
  <2>. QED BY <1>2, <2>1, <2>2 DEF CarriesBoth
<1>3. CASE n # <<>> /\ Fits(payload, n)
  <2>0. PICK e : e = Extended(payload, n)
    OBVIOUS
  <2>1. EncodeNamed(token, payload, n) = Encode(token, e)
    BY <1>3, <2>0 DEF EncodeNamed
  <2>2. Len(n) \in 1..MaxName
    BY <1>3
  <2>3. e \in Seq(Bytes) /\ Len(e) = 1 + Len(n) + Len(payload)
    <3>1. 128 + Len(n) \in Bytes
      <4>1. \A k \in Nat : k < 256 => k \in Bytes
        BY DEF Bytes
      <4>2. 128 + Len(n) \in Nat /\ 128 + Len(n) < 256
        BY <2>2
      <4>. QED BY <4>1, <4>2
    <3>2. <<128 + Len(n)>> \in Seq(Bytes) /\ Len(<<128 + Len(n)>>) = 1
      BY <3>1
    <3>. QED BY <2>0, <3>2 DEF Extended, Marker
  <2>4. Len(e) \in 1..MaxMessage
    BY <2>2, <2>3, <1>3 DEF Fits
  <2>5. Decode(Encode(token, e)) = DecodeData(token, e)
    BY <2>3, <2>4, DataRoundTrip
  <2>6. DecodeData(token, e) = Decoded("Data", token, payload, n)
    BY <1>1, <2>0, <2>2, NamedPayload
  <2>. QED BY <1>3, <2>1, <2>5, <2>6 DEF CarriesBoth
<1>. QED BY <1>2, <1>3
-----------------------------------------------------------------------------
(* What a save has done by the time it is at each of its steps.            *)
SaveInv ==
  /\ file \in Texts \cup {<<>>} /\ disk \subseteq Texts \cup {<<>>}
  /\ step \in {"none", "write", "close", "rename", "use"}
  /\ step # "none" => text \in Texts /\ MaySave(text)
  /\ step \in {"close", "rename", "use"} => temp = text
  /\ step \in {"close", "rename"} => synced = TRUE
  /\ step = "use" => file = text

(* The bytes of a text that are not printable come from the account's name.*)
OfAccount(t) == ~IsPrintable(t) => ~IsPrintable(account)

(* The name in use fits, and is that of the file, or one that the file has *)
(* and will not be taken from it, but for the last step of a save.         *)
InUse(n, contents) ==
  n = Loaded(contents) \/ (n = contents /\ ~IsPrintable(n) /\ ~IsPrintable(account))

NameInv ==
  /\ account \in Seq(Bytes) /\ Len(account) <= MaxName
  /\ name \in Seq(Bytes) /\ Len(name) <= MaxName
  /\ OfAccount(name) /\ (step # "none" => OfAccount(text))
  /\ phase \notin {"off", "start"} /\ step # "use" => InUse(name, file)

(* Only a poll of the keys saves, and a process that is asked to end has   *)
(* the alarm set.                                                          *)
AskedHasAlarm == Running /\ signal => alarm

PhaseInv == phase \in Phases /\ (step # "none" => phase = "poll") /\ AskedHasAlarm

ProcessInv == SaveInv /\ NameInv /\ PhaseInv

LEMMA EmptyName == <<>> \in Seq(Bytes) /\ Len(<<>>) <= MaxName /\ IsPrintable(<<>>)
  BY ProtocolAssumption DEF IsPrintable

(* Keys add nothing that is not printable.                                 *)
LEMMA EditsOfPrintable ==
  ASSUME NEW s \in Seq(Bytes), IsPrintable(s), NEW d \in Edits(s)
  PROVE  IsPrintable(d)
<1>1. /\ d \in Seq(Bytes) /\ Len(d) \in Nat
      /\ DOMAIN s = 1..Len(s) /\ DOMAIN d = 1..Len(d)
  <2>1. d \in Seq(Bytes)
    BY NicknameAssumption DEF Edits
  <2>. QED BY <2>1
<1>2. PICK n \in 0..Len(d) :
        /\ n <= Len(s) /\ \A i \in 1..n : d[i] = s[i]
        /\ \A i \in n + 1..Len(d) : d[i] \in 32..126
  BY DEF Edits
<1>3. ASSUME NEW i \in 1..Len(d) PROVE d[i] \in 32..126
  <2>1. CASE i <= n
    <3>1. i \in 1..n /\ i \in 1..Len(s)
      BY <1>1, <1>2, <2>1
    <3>2. s[i] \in 32..126
      BY <1>1, <3>1, Zenon DEF IsPrintable
    <3>. QED BY <1>2, <3>1, <3>2
  <2>2. CASE i > n
    BY <1>1, <1>2, <2>2
  <2>3. i \in Nat /\ n \in Nat
    BY <1>1, <1>2
  <2>. QED BY <2>1, <2>2, <2>3
<1>. QED BY <1>1, <1>3 DEF IsPrintable

LEMMA LoadedFits ==
  ASSUME NEW contents \in Texts \cup {<<>>}, account \in Seq(Bytes), Len(account) <= MaxName
  PROVE  /\ Loaded(contents) \in Seq(Bytes) /\ Len(Loaded(contents)) <= MaxName
         /\ OfAccount(Loaded(contents))
<1>1. contents \in Seq(Bytes)
  BY NicknameAssumption, EmptyName
<1>. QED BY <1>1 DEF Loaded, ValidName, MaySave, OfAccount

LEMMA ProcessInit == Init => ProcessInv
<1>. SUFFICES ASSUME Init PROVE ProcessInv
  OBVIOUS
<1>. USE DEF Init, NickInit
<1>1. SaveInv
  BY DEF SaveInv
<1>2. account \in Seq(Bytes) /\ Len(account) <= MaxName
  <2>1. PICK a \in Accounts : account = SubSeq(a, 1, IF Len(a) < MaxName THEN Len(a) ELSE MaxName)
    OBVIOUS
  <2>2. a \in Seq(Bytes)
    BY NicknameAssumption
  <2>3. ASSUME NEW n \in Nat, n <= Len(a)
        PROVE  SubSeq(a, 1, n) \in Seq(Bytes) /\ Len(SubSeq(a, 1, n)) = n
    BY <2>2, <2>3
  <2>. QED BY <2>1, <2>2, <2>3, ProtocolAssumption
<1>3. NameInv
  BY <1>2, EmptyName DEF NameInv, OfAccount
<1>4. PhaseInv
  BY DEF PhaseInv, Phases, AskedHasAlarm, Running
<1>. QED BY <1>1, <1>3, <1>4 DEF ProcessInv

(* A save, step by step.                                                   *)
LEMMA SaveStepKeeps ==
  ASSUME SaveInv, NameInv, step # "none" => phase = "poll",
         phase = "poll", phase' = phase, SaveStep
  PROVE  SaveInv' /\ NameInv'
<1>. USE DEF SaveInv, NameInv
<1>1. CASE Write
  BY <1>1 DEF Write, saveVars, Loaded, InUse, OfAccount
<1>2. CASE SyncFile
  BY <1>2 DEF SyncFile, Sync, Step, Loaded, InUse, OfAccount
<1>3. CASE CloseFile
  BY <1>3 DEF CloseFile, Step, fileVars, Loaded, InUse, OfAccount
<1>4. CASE Rename
  <2>1. /\ step = "rename" /\ step' = "use" /\ file' = temp /\ temp = text /\ synced = TRUE
        /\ disk' = disk \cup {temp}
        /\ UNCHANGED <<account, temp, synced, text, name>>
    BY <1>4 DEF Rename, Step
  <2>. QED BY <2>1 DEF OfAccount
<1>5. CASE SaveFails
  <2>1. /\ step' = "none" /\ step # "use" /\ UNCHANGED <<account, file, disk, name>>
    BY <1>5 DEF SaveFails, Over
  <2>. QED BY <2>1 DEF Loaded, InUse, OfAccount
<1>6. CASE UseName
  <2>1. /\ step = "use" /\ step' = "none" /\ name' = text
        /\ UNCHANGED <<account, file, disk>>
    BY <1>6 DEF UseName, Use, Over
  <2>2. file = text /\ MaySave(text) /\ OfAccount(text) /\ text \in Seq(Bytes)
    BY <2>1, NicknameAssumption
  <2>3. InUse(name, file)'
    BY <2>1, <2>2 DEF InUse, Loaded, ValidName, OfAccount
  <2>4. Len(text) <= MaxName
    BY <2>2 DEF MaySave
  <2>. QED BY <2>1, <2>2, <2>3, <2>4 DEF OfAccount
<1>. QED BY <1>1, <1>2, <1>3, <1>4, <1>5, <1>6 DEF SaveStep

(* A process that is gone leaves no save behind and no name in use.        *)
LEMMA GoneKeeps ==
  ASSUME ProcessInv, Gone, step' = "none", name' = <<>>, account' = account,
         file' \in Texts \cup {<<>>}, disk' \subseteq Texts \cup {<<>>}
  PROVE  ProcessInv'
  BY EmptyName
  DEF Gone, ProcessInv, SaveInv, NameInv, OfAccount, PhaseInv, Phases, AskedHasAlarm, Running

LEMMA ProcessNext == ProcessInv /\ [Next]_vars => ProcessInv'
<1>. SUFFICES ASSUME ProcessInv, [Next]_vars PROVE ProcessInv'
  OBVIOUS
<1>. USE DEF ProcessInv
<1>1. CASE Launch \/ StartFails \/ LoopOn \/ Polled \/ Handled \/ Ticked \/ LeaveLoop \/ Stopped
  <2>1. UNCHANGED nickVars
    BY <1>1 DEF Launch, StartFails, LoopOn, Polled, Handled, Ticked, LeaveLoop, Stopped
  <2>2. SaveInv'
    BY <2>1 DEF SaveInv, nickVars, fileVars, saveVars
  <2>3. phase' \notin {"off", "start"} => phase \notin {"off", "start"}
    BY <1>1 DEF Launch, StartFails, LoopOn, Polled, Handled, Ticked, LeaveLoop, Stopped, Does
  <2>4. NameInv'
    BY <2>1, <2>3 DEF NameInv, InUse, OfAccount, Loaded, nickVars, fileVars, saveVars
  <2>5. PhaseInv'
    BY <1>1, <2>1 DEF PhaseInv, Phases, AskedHasAlarm, Running, Launch, StartFails, LoopOn, Polled,
                      Handled, Ticked, LeaveLoop, Stopped, Does, flags, nickVars, saveVars
  <2>. QED BY <2>2, <2>4, <2>5
<1>2. CASE Start
  <2>1. /\ phase = "start" /\ phase' = "loop" /\ name' = Loaded(file)
        /\ UNCHANGED <<account, fileVars, saveVars, flags, stuck>>
    BY <1>2 DEF Start, Does, Load
  <2>2. SaveInv'
    BY <2>1 DEF SaveInv, fileVars, saveVars
  <2>3. NameInv'
    BY <2>1, LoadedFits DEF SaveInv, NameInv, InUse, OfAccount, Loaded, fileVars, saveVars
  <2>4. PhaseInv'
    BY <2>1 DEF PhaseInv, Phases, AskedHasAlarm, Running, flags, saveVars
  <2>. QED BY <2>2, <2>3, <2>4
<1>3. CASE End
  <2>1. /\ phase = "hal" /\ phase' = "off" /\ name' = <<>>
        /\ UNCHANGED <<account, fileVars, saveVars, signal, stuck>>
    BY <1>3 DEF End, Does
  <2>2. SaveInv'
    BY <2>1 DEF SaveInv, fileVars, saveVars
  <2>3. NameInv' /\ PhaseInv'
    BY <2>1, EmptyName DEF NameInv, OfAccount, PhaseInv, Phases, AskedHasAlarm, Running, saveVars
  <2>. QED BY <2>2, <2>3
<1>4. CASE SaveKey
  <2>1. PICK draft \in Edits(name) :
          /\ phase = "poll" /\ step = "none" /\ MaySave(draft) /\ step' = "write" /\ text' = draft
          /\ UNCHANGED <<account, file, disk, name, phase, flags>>
    BY <1>4 DEF SaveKey, BeginSave
  <2>a. draft \in Texts
    BY DEF Edits
  <2>b. IsPrintable(name) => IsPrintable(draft)
    BY EditsOfPrintable DEF NameInv
  <2>2. SaveInv' /\ NameInv'
    BY <2>1, <2>a, <2>b DEF SaveInv, NameInv, InUse, OfAccount, Loaded
  <2>3. PhaseInv'
    BY <2>1 DEF PhaseInv, Phases, AskedHasAlarm, Running, flags
  <2>. QED BY <2>2, <2>3
<1>5. CASE Saves
  <2>1. phase = "poll" /\ phase' = phase /\ SaveStep /\ UNCHANGED flags
    BY <1>5 DEF Saves
  <2>2. SaveInv' /\ NameInv'
    BY <2>1, SaveStepKeeps DEF PhaseInv
  <2>3. PhaseInv'
    BY <2>1 DEF PhaseInv, Phases, AskedHasAlarm, Running, flags
  <2>. QED BY <2>2, <2>3
<1>6. CASE Signalled \/ GetsStuck
  <2>1. UNCHANGED <<nickVars, phase>>
    BY <1>6 DEF Signalled, GetsStuck
  <2>2. SaveInv' /\ NameInv'
    BY <2>1 DEF SaveInv, NameInv, InUse, OfAccount, Loaded, nickVars, fileVars, saveVars
  <2>3. PhaseInv'
    BY <1>6, <2>1 DEF PhaseInv, Phases, AskedHasAlarm, Running, Signalled, RequestExit, GetsStuck,
                      flags, nickVars, saveVars
  <2>. QED BY <2>2, <2>3
<1>7. CASE AlarmFires \/ Killed
  BY <1>7, GoneKeeps DEF AlarmFires, Killed, NickDies, Over, SaveInv
<1>8. CASE PowerFails
  <2>1. file' \in disk /\ disk' = {file'}
    BY <1>8 DEF PowerFails, NickPowerFails
  <2>. QED BY <1>8, <2>1, GoneKeeps DEF PowerFails, NickPowerFails, Over, SaveInv
<1>9. CASE WritesBack
  <2>1. disk' = {file} /\ UNCHANGED <<account, file, temp, synced, saveVars, name, phase, flags>>
    BY <1>9 DEF WritesBack, WriteBack
  <2>2. SaveInv' /\ NameInv'
    BY <2>1 DEF SaveInv, NameInv, InUse, OfAccount, Loaded, saveVars
  <2>3. PhaseInv'
    BY <2>1 DEF PhaseInv, Phases, AskedHasAlarm, Running, flags, saveVars
  <2>. QED BY <2>2, <2>3
<1>10. CASE UNCHANGED vars
  BY <1>10 DEF vars, nickVars, fileVars, saveVars, flags, SaveInv, NameInv, InUse, OfAccount, Loaded, PhaseInv,
               AskedHasAlarm, Running
<1>. QED BY <1>1, <1>2, <1>3, <1>4, <1>5, <1>6, <1>7, <1>8, <1>9, <1>10 DEF Next, Main

(* The inductive invariant of the process.                                 *)
THEOREM ProcessInvariant == Spec => []ProcessInv
  BY ProcessInit, ProcessNext, PTL DEF Spec

(* The file is never found with part of a name, whatever fails and         *)
(* whenever (saveDeviceNameFile()).                                        *)
THEOREM FileAlwaysWhole == Spec => []FileIsWhole
<1>1. ProcessInv => FileIsWhole
  BY DEF ProcessInv, SaveInv, FileIsWhole
<1>. QED BY <1>1, ProcessInvariant, PTL

(* The name in use is the one that the next start finds, unless it is made *)
(* of an account's that is not printable and is saved as it is             *)
(* (saveDeviceName(), start()).                                            *)
THEOREM NameAlwaysSaved == Spec => []NameIsSaved
<1>1. ProcessInv => NameIsSaved
  BY DEF ProcessInv, NameInv, InUse, NameIsSaved
<1>. QED BY <1>1, ProcessInvariant, PTL

(* The name in use and the message both come out of the frame they are     *)
(* sent in (encodeData(), decode()).                                       *)
THEOREM NameAlwaysCarried == Spec => []NameIsCarried
<1>1. ProcessInv => NameIsCarried
  <2>. SUFFICES ASSUME ProcessInv, name # <<>>,
                       NEW token \in SomeTokens, NEW payload \in Payloads
         PROVE IF IsPrintable(name)
               THEN ~LooksNamed(payload) => CarriesBoth(token, payload, name)
               ELSE EncodeNamed(token, payload, name) = Refused
    BY DEF NameIsCarried
  <2>1. /\ token \in Tokens /\ payload \in Seq(Bytes) /\ Len(payload) \in 1..MaxMessage
        /\ name \in Seq(Bytes) /\ Len(name) <= MaxName
    BY ProcessAssumption DEF ProcessInv, NameInv
  <2>2. CASE IsPrintable(name)
    BY <2>1, <2>2, FramesCarryBoth
  <2>3. CASE ~IsPrintable(name)
    BY <2>3 DEF EncodeNamed
  <2>. QED BY <2>2, <2>3
<1>. QED BY <1>1, ProcessInvariant, PTL

(* A process that was asked to end has an alarm to end it, hang what may   *)
(* (requestExitFromSignal()).                                              *)
THEOREM AskedAlwaysHasAlarm == Spec => []AskedHasAlarm
<1>1. ProcessInv => AskedHasAlarm
  BY DEF ProcessInv, PhaseInv
<1>. QED BY <1>1, ProcessInvariant, PTL
=============================================================================
