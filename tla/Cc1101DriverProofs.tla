-------------------------- MODULE Cc1101DriverProofs --------------------------
(***************************************************************************)
(* Theorems about the driver of Cc1101Driver, for any size of the FIFO,    *)
(* any lengths on the air and any number of packets and frames.  Two facts *)
(* carry them: what the chip is doing at each place of a call (Control),   *)
(* and that the receive FIFO of a driver that is receiving holds the bytes *)
(* of packets one after the other, without a gap (Stream).                 *)
(***************************************************************************)
EXTENDS Cc1101Driver, Integers, SequenceTheorems, TLAPS
-----------------------------------------------------------------------------
(* The chip and the transmit FIFO at each place of a call.                 *)
TransmitPcs == {"txStandby", "txFlush", "ready", "giveUp", "fill", "fillRest", "txOn", "sleep",
                "quiet", "flush"}
ReceivePcs  == {"poll", "length", "body", "state"}

TransmitControl ==
  /\ marc = "TX" => pc \in {"sleep", "cancelled", "closed"}
  /\ SendsOwnFrame
  /\ pc \in {"ready", "fill"} => tx = <<>>
  /\ pc = "fillRest" => tx = <<OutByte(sent, "length")>>
  /\ pc = "txOn" => tx = Frame(sent)
  /\ pc \in TransmitPcs => ~listening /\ rx = <<>> /\ sent # 0
  /\ pc \in {"txStandby", "txFlush", "quiet", "flush"} => marc = "IDLE"
  /\ pc \in {"ready", "giveUp", "fill", "fillRest", "txOn"} => marc \in {"IDLE", "FSTXON"}
  /\ pc = "sleep" => marc \in {"TX", "IDLE"}

ReceiveControl ==
  /\ pc \notin {"closed", "probe", "program", "cancelled"} => stays
  /\ pc \in {"probe", "program"} => marc = "IDLE" /\ rx = <<>> /\ tx = <<>>
  /\ pc \in {"closed", "probe", "program"} => ~listening
  /\ pc \in {"rxOn", "idleEnd"} => marc = "IDLE" /\ rx = <<>> /\ air = Silence
  /\ pc \in ReceivePcs => listening /\ antenna /\ marc \in {"RX", "OVERFLOW"}
  /\ DoesAsAsked

(* The bytes of a sequence are those of packets, one after the other: the  *)
(* bytes from i to j are of one packet if that is long enough.             *)
Place(s, i, j) == s[i].k + (j - i)
End(s, i)     == s[i].length + 2

InOrder(s) ==
  \A i, j \in 1..Len(s) : i <= j =>
    /\ Place(s, i, j) <= End(s, i) => s[j] = Byte(s[i].id, Place(s, i, j), s[i].length)
    /\ Place(s, i, j) > End(s, i) => s[j].id > s[i].id
    /\ Place(s, i, j) = End(s, i) + 1 => s[j].k = 0

(* The byte that arrives next continues it, or there is none to come.      *)
Continues(s, a) ==
  \A i \in 1..Len(s) :
    /\ Place(s, i, Len(s) + 1) <= End(s, i) =>
         a.id = s[i].id /\ a.at = Place(s, i, Len(s) + 1) /\ a.length = s[i].length
    /\ Place(s, i, Len(s) + 1) > End(s, i) => a.id > s[i].id
    /\ Place(s, i, Len(s) + 1) = End(s, i) + 1 => a.at = 0

Ended(s) == \A i \in 1..Len(s) : Place(s, i, Len(s) + 1) > End(s, i)

Stream ==
  /\ InOrder(rx)
  /\ air # Silence => Continues(rx, air)
  /\ air = Silence /\ marc = "RX" => Ended(rx)

(* What is read next is the beginning of a packet or, once its length is   *)
(* read, the rest of it.                                                   *)
AtStart ==
  /\ rx # <<>> => rx[1].k = 0
  /\ rx = <<>> /\ air # Silence => air.at = 0

AtRest ==
  /\ rx # <<>> => rx[1].k = 1 /\ rx[1].length = length
  /\ rx = <<>> /\ marc = "RX" => air # Silence /\ air.at = 1 /\ air.length = length

(* It is of later packets than the one that was returned last.             *)
Fresh ==
  got # <<>> =>
    /\ \A i \in 1..Len(rx) : rx[i].id > got[1].id
    /\ air # Silence => air.id > got[1].id

Receiving == listening /\ pc \in ReceivePcs \cup {"return"}

StreamInv ==
  /\ \A i \in 1..Len(rx) : rx[i].id <= arrived
  /\ air # Silence => air.id \in 1..arrived /\ air.at <= air.length + 2
  /\ got # <<>> => got[1].id <= arrived
  /\ Receiving => Stream /\ Fresh /\ (IF pc = "body" THEN AtRest ELSE AtStart)

DriverInv == DriverTypeOK /\ TransmitControl /\ ReceiveControl /\ StreamInv
-----------------------------------------------------------------------------
(* The sequences.                                                          *)
LEMMA CellFacts ==
  ASSUME NEW c \in Cells
  PROVE  c.id \in Nat /\ c.k \in Nat /\ c.length \in Nat /\ c.length \in 0..LengthLimit
  BY DriverAssumption DEF Cells

LEMMA ByteFacts ==
  ASSUME NEW n, NEW k, NEW size
  PROVE  Byte(n, k, size).id = n /\ Byte(n, k, size).k = k /\ Byte(n, k, size).length = size
  BY DEF Byte

LEMMA AppendFacts ==
  ASSUME NEW S, NEW s \in Seq(S), NEW b \in S
  PROVE  /\ Append(s, b) \in Seq(S) /\ Len(Append(s, b)) = Len(s) + 1 /\ Len(s) \in Nat
         /\ \A i \in 1..Len(s) : Append(s, b)[i] = s[i]
         /\ Append(s, b)[Len(s) + 1] = b
  OBVIOUS

LEMMA NoBytes ==
  /\ Len(<< >>) = 0
  /\ \A s \in Seq(Cells) : Len(s) = 0 => s = << >>
  OBVIOUS

(* t is what is left of s after m bytes.                                   *)
IsRest(s, m, t) == m \in Nat /\ m <= Len(s) /\ t = SubSeq(s, m + 1, Len(s))

LEMMA RestFacts ==
  ASSUME NEW s \in Seq(Cells), NEW m, NEW t, IsRest(s, m, t)
  PROVE  /\ t \in Seq(Cells) /\ Len(t) = Len(s) - m /\ Len(t) \in Nat
         /\ \A i \in 1..Len(t) : t[i] = s[m + i] /\ m + i \in 1..Len(s)
  BY DEF IsRest

(* A byte arrives.                                                         *)
LEMMA StreamAppend ==
  ASSUME NEW s \in Seq(Cells), NEW id \in Nat, NEW at \in Nat, NEW size \in Nat,
         Byte(id, at, size) \in Cells,
         NEW a, a.id = id, a.at = at, a.length = size, at <= size + 2,
         InOrder(s), Continues(s, a),
         NEW t, t = Append(s, Byte(id, at, size))
  PROVE  /\ InOrder(t)
         /\ at < size + 2 => \A b : b.id = id /\ b.at = at + 1 /\ b.length = size => Continues(t, b)
         /\ at = size + 2 => Ended(t)
<1>. DEFINE n == Len(s)
<1>1. /\ t \in Seq(Cells) /\ Len(t) = n + 1 /\ n \in Nat
      /\ \A i \in 1..n : t[i] = s[i]
      /\ t[n + 1] = Byte(id, at, size)
  BY AppendFacts
<1>2. \A i \in 1..n : s[i].id \in Nat /\ s[i].k \in Nat /\ s[i].length \in Nat
  BY CellFacts
<1>3. t[n + 1].id = id /\ t[n + 1].k = at /\ t[n + 1].length = size
  BY <1>1, ByteFacts
<1>4. ASSUME NEW i \in 1..n
      PROVE  /\ s[i].k + (n + 1 - i) <= s[i].length + 2 =>
                   id = s[i].id /\ at = s[i].k + (n + 1 - i) /\ size = s[i].length
             /\ s[i].k + (n + 1 - i) > s[i].length + 2 => id > s[i].id
             /\ s[i].k + (n + 1 - i) = s[i].length + 3 => at = 0
  BY <1>1, <1>2 DEF Continues, Place, End
<1>5. InOrder(t)
  <2>. SUFFICES ASSUME NEW i \in 1..Len(t), NEW j \in 1..Len(t), i <= j
                PROVE  /\ Place(t, i, j) <= End(t, i) => t[j] = Byte(t[i].id, Place(t, i, j), t[i].length)
                       /\ Place(t, i, j) > End(t, i) => t[j].id > t[i].id
                       /\ Place(t, i, j) = End(t, i) + 1 => t[j].k = 0
    BY DEF InOrder
  <2>1. CASE j \in 1..n
    <3>1. i \in 1..n /\ t[i] = s[i] /\ t[j] = s[j]
      BY <1>1, <2>1
    <3>. QED BY <2>1, <3>1 DEF InOrder, Place, End
  <2>2. CASE j = n + 1 /\ i \in 1..n
    <3>1. t[i] = s[i]
      BY <1>1, <2>2
    <3>2. Place(t, i, j) = s[i].k + (n + 1 - i) /\ End(t, i) = s[i].length + 2
      BY <2>2, <3>1 DEF Place, End
    <3>3. t[j] = Byte(id, at, size) /\ t[j].id = id /\ t[j].k = at
      BY <1>1, <1>3, <2>2
    <3>4. s[i].length + 2 + 1 = s[i].length + 3
      BY <1>2, <2>2
    <3>. QED BY <1>4, <2>2, <3>1, <3>2, <3>3, <3>4
  <2>3. CASE j = n + 1 /\ i = n + 1
    <3>1. Place(t, i, j) = at /\ End(t, i) = size + 2
      BY <1>1, <1>3, <2>3 DEF Place, End
    <3>. QED BY <1>1, <1>3, <2>3, <3>1
  <2>. QED BY <1>1, <2>1, <2>2, <2>3
<1>6. ASSUME at < size + 2, NEW b, b.id = id, b.at = at + 1, b.length = size
      PROVE  Continues(t, b)
  <2>. SUFFICES ASSUME NEW i \in 1..Len(t)
                PROVE  /\ Place(t, i, Len(t) + 1) <= End(t, i) =>
                            b.id = t[i].id /\ b.at = Place(t, i, Len(t) + 1) /\ b.length = t[i].length
                       /\ Place(t, i, Len(t) + 1) > End(t, i) => b.id > t[i].id
                       /\ Place(t, i, Len(t) + 1) = End(t, i) + 1 => b.at = 0
    BY DEF Continues
  <2>1. CASE i \in 1..n
    <3>1. t[i] = s[i]
      BY <1>1, <2>1
    <3>2. Place(t, i, Len(t) + 1) = s[i].k + (n + 2 - i) /\ End(t, i) = s[i].length + 2
      BY <1>1, <1>2, <2>1, <3>1 DEF Place, End
    <3>3. s[i].id \in Nat /\ s[i].k \in Nat /\ s[i].length \in Nat /\ i \in Nat
      BY <1>2, <2>1
    <3>4. /\ s[i].k + (n + 1 - i) <= s[i].length + 2 =>
               id = s[i].id /\ at = s[i].k + (n + 1 - i) /\ size = s[i].length
          /\ s[i].k + (n + 1 - i) > s[i].length + 2 => id > s[i].id
          /\ s[i].k + (n + 1 - i) = s[i].length + 3 => at = 0
      BY <1>4, <2>1
    <3>5. PICK k \in Nat, l \in Nat, e \in Nat, q \in Nat :
            k = s[i].k /\ l = s[i].length /\ e = s[i].id /\ q = n
      BY <1>1, <3>3
    <3>6. /\ k + (q + 1 - i) <= l + 2 => id = e /\ at = k + (q + 1 - i) /\ size = l
          /\ k + (q + 1 - i) > l + 2 => id > e
      BY <3>4, <3>5
    <3>7. /\ k + (q + 2 - i) <= l + 2 => id = e /\ at + 1 = k + (q + 2 - i) /\ size = l
          /\ k + (q + 2 - i) > l + 2 => id > e
          /\ k + (q + 2 - i) # l + 2 + 1
      <4>1. PICK p \in Int : p = k + (q + 1 - i)
        BY <3>3
      <4>2. k + (q + 2 - i) = p + 1
        <5>1. k \in Nat /\ q \in Nat /\ i \in Nat /\ p \in Int
          BY <3>3
        <5>. QED BY <4>1, <5>1
      <4>3. CASE p <= l + 2
        BY <1>6, <3>6, <4>1, <4>2, <4>3
      <4>4. CASE p > l + 2
        BY <3>6, <4>1, <4>2, <4>4
      <4>. QED BY <4>3, <4>4
    <3>8. /\ Place(t, i, Len(t) + 1) = k + (q + 2 - i) /\ End(t, i) = l + 2
          /\ t[i].id = e /\ t[i].length = l
      BY <3>1, <3>2, <3>5
    <3>. QED BY <1>6, <3>7, <3>8
  <2>2. CASE i = n + 1
    <3>1. Place(t, i, Len(t) + 1) = at + 1 /\ End(t, i) = size + 2
      BY <1>1, <1>3, <2>2 DEF Place, End
    <3>. QED BY <1>3, <1>6, <2>2, <3>1
  <2>. QED BY <1>1, <2>1, <2>2
<1>7. ASSUME at = size + 2 PROVE Ended(t)
  <2>. SUFFICES ASSUME NEW i \in 1..Len(t) PROVE Place(t, i, Len(t) + 1) > End(t, i)
    BY DEF Ended
  <2>1. CASE i \in 1..n
    <3>1. t[i] = s[i]
      BY <1>1, <2>1
    <3>2. Place(t, i, Len(t) + 1) = s[i].k + (n + 2 - i) /\ End(t, i) = s[i].length + 2
      BY <1>1, <1>2, <2>1, <3>1 DEF Place, End
    <3>3. s[i].id \in Nat /\ s[i].k \in Nat /\ s[i].length \in Nat /\ i \in Nat
      BY <1>2, <2>1
    <3>4. /\ s[i].k + (n + 1 - i) <= s[i].length + 2 =>
               id = s[i].id /\ at = s[i].k + (n + 1 - i) /\ size = s[i].length
          /\ s[i].k + (n + 1 - i) > s[i].length + 2 => id > s[i].id
      BY <1>4, <2>1
    <3>5. PICK k \in Nat, l \in Nat, e \in Nat, q \in Nat :
            k = s[i].k /\ l = s[i].length /\ e = s[i].id /\ q = n
      BY <1>1, <3>3
    <3>6. /\ k + (q + 1 - i) <= l + 2 => id = e /\ at = k + (q + 1 - i) /\ size = l
          /\ k + (q + 1 - i) > l + 2 => id > e
      BY <3>4, <3>5
    <3>7. k + (q + 2 - i) > l + 2
      <4>1. PICK p \in Int : p = k + (q + 1 - i)
        BY <3>3
      <4>2. k + (q + 2 - i) = p + 1
        <5>1. k \in Nat /\ q \in Nat /\ i \in Nat /\ p \in Int
          BY <3>3
        <5>. QED BY <4>1, <5>1
      <4>3. CASE p <= l + 2
        BY <1>7, <3>6, <4>1, <4>2, <4>3
      <4>4. CASE p > l + 2
        BY <4>2, <4>4
      <4>. QED BY <4>3, <4>4
    <3>. QED BY <3>2, <3>5, <3>7
  <2>2. CASE i = n + 1
    <3>1. Place(t, i, Len(t) + 1) = at + 1 /\ End(t, i) = size + 2
      BY <1>1, <1>3, <2>2 DEF Place, End
    <3>. QED BY <1>7, <3>1
  <2>. QED BY <1>1, <2>1, <2>2
<1>. QED BY <1>5, <1>6, <1>7

(* Bytes are read from the front.                                          *)
LEMMA StreamRest ==
  ASSUME NEW s \in Seq(Cells), NEW m, NEW t, IsRest(s, m, t)
  PROVE  /\ InOrder(s) => InOrder(t)
         /\ \A a : Continues(s, a) => Continues(t, a)
         /\ Ended(s) => Ended(t)
<1>. m \in Nat /\ m <= Len(s)
  BY DEF IsRest
<1>1. /\ Len(t) = Len(s) - m /\ Len(t) \in Nat /\ Len(s) \in Nat
      /\ \A i \in 1..Len(t) : t[i] = s[m + i] /\ m + i \in 1..Len(s)
  BY RestFacts
<1>2. \A i \in 1..Len(t), j \in Nat :
        /\ Place(t, i, j) = Place(s, m + i, m + j) /\ End(t, i) = End(s, m + i)
  BY <1>1 DEF Place, End
<1>3. ASSUME InOrder(s) PROVE InOrder(t)
  <2>. SUFFICES ASSUME NEW i \in 1..Len(t), NEW j \in 1..Len(t), i <= j
                PROVE  /\ Place(t, i, j) <= End(t, i) => t[j] = Byte(t[i].id, Place(t, i, j), t[i].length)
                       /\ Place(t, i, j) > End(t, i) => t[j].id > t[i].id
                       /\ Place(t, i, j) = End(t, i) + 1 => t[j].k = 0
    BY DEF InOrder
  <2>1. /\ t[i] = s[m + i] /\ t[j] = s[m + j] /\ m + i \in 1..Len(s) /\ m + j \in 1..Len(s)
    BY <1>1
  <2>3. Place(t, i, j) = Place(s, m + i, m + j) /\ End(t, i) = End(s, m + i)
    BY <1>1, <1>2
  <2>2. m + i <= m + j
    BY <1>1
  <2>. QED BY <1>3, <2>1, <2>2, <2>3 DEF InOrder
<1>4. \A i \in 1..Len(t) :
        /\ Place(t, i, Len(t) + 1) = Place(s, m + i, Len(s) + 1) /\ End(t, i) = End(s, m + i)
        /\ t[i] = s[m + i] /\ m + i \in 1..Len(s)
  <2>1. Len(t) + 1 \in Nat /\ m + (Len(t) + 1) = Len(s) + 1
    BY <1>1
  <2>. QED BY <1>1, <1>2, <2>1
<1>5. ASSUME NEW a, Continues(s, a) PROVE Continues(t, a)
  BY <1>4, <1>5 DEF Continues
<1>6. ASSUME Ended(s) PROVE Ended(t)
  BY <1>4, <1>6 DEF Ended
<1>. QED BY <1>3, <1>5, <1>6

(* A packet begins behind packets that have ended.                         *)
LEMMA StreamBegins ==
  ASSUME NEW s \in Seq(Cells), NEW n \in Nat, \A i \in 1..Len(s) : s[i].id <= n, Ended(s),
         NEW a, a.id = n + 1, a.at = 0
  PROVE  Continues(s, a)
<1>1. ASSUME NEW i \in 1..Len(s)
      PROVE  a.id > s[i].id /\ ~(Place(s, i, Len(s) + 1) <= End(s, i))
  <2>1. s[i] \in Cells /\ Len(s) \in Nat
    OBVIOUS
  <2>2. s[i].id \in Nat /\ s[i].k \in Nat /\ s[i].length \in Nat
    BY <2>1, CellFacts
  <2>3. s[i].k + (Len(s) + 1 - i) > s[i].length + 2
    BY DEF Ended, Place, End
  <2>6. ~(s[i].k + (Len(s) + 1 - i) <= s[i].length + 2)
    BY <2>1, <2>2, <2>3
  <2>4. s[i].id <= n
    OBVIOUS
  <2>5. a.id > s[i].id
    BY <2>2, <2>4
  <2>. QED BY <2>5, <2>6 DEF Place, End
<1>. QED BY <1>1 DEF Continues, Place, End
-----------------------------------------------------------------------------
(* The types.                                                              *)
LEMMA SmallSequences ==
  /\ << >> \in Seq(Cells) /\ << >> \in Seq(OutCells)
  /\ Silence \in Airs /\ 0 \in 0..LengthLimit /\ 0 \in 0..Arrivals /\ 0 \in 0..Sends
<1>1. 0 \in 0..LengthLimit /\ 0 \in 0..Arrivals /\ 0 \in 0..Sends
  BY DriverAssumption
<1>2. Silence \in Airs
  BY <1>1 DEF Silence, Airs
<1>3. << >> \in Seq(Cells) /\ << >> \in Seq(OutCells)
  OBVIOUS
<1>. QED BY <1>1, <1>2, <1>3

LEMMA InitTypes ==
  ASSUME Init PROVE DriverTypeOK
  BY SmallSequences DEF Init, DriverTypeOK, MarcStates, Pcs

LEMMA NextByte ==
  ASSUME NEW a \in Airs
  PROVE  /\ [a EXCEPT !.at = @ + 1] \in Airs
         /\ [a EXCEPT !.at = @ + 1].id = a.id
         /\ [a EXCEPT !.at = @ + 1].length = a.length
         /\ [a EXCEPT !.at = @ + 1].at = a.at + 1
<1>1. a.id \in 0..Arrivals /\ a.length \in 0..LengthLimit /\ a.at \in Nat
  BY DEF Airs
<1>2. [a EXCEPT !.at = @ + 1] = [id |-> a.id, length |-> a.length, at |-> a.at + 1]
  BY DEF Airs
<1>. QED BY <1>1, <1>2 DEF Airs

LEMMA RestTypes ==
  ASSUME NEW S, NEW s \in Seq(S), s # << >>
  PROVE  /\ Tail(s) \in Seq(S) /\ Head(s) \in S /\ Len(s) \in Nat /\ Len(s) >= 1
         /\ Head(s) = s[1] /\ Tail(s) = SubSeq(s, 2, Len(s))
  OBVIOUS

LEMMA BodyTypes ==
  ASSUME NEW S, NEW s \in Seq(S), NEW n \in Nat, Len(s) >= n + 2
  PROVE  /\ SubSeq(s, 1, n + 2) \in Seq(S) /\ SubSeq(s, n + 3, Len(s)) \in Seq(S)
         /\ Len(SubSeq(s, 1, n + 2)) = n + 2 /\ Len(s) \in Nat
         /\ \A i \in 1..(n + 2) : SubSeq(s, 1, n + 2)[i] = s[i]
  OBVIOUS

LEMMA TypeStep ==
  ASSUME DriverInv, Next PROVE DriverTypeOK'
<1>0. DriverTypeOK
  BY DEF DriverInv
<1>. USE <1>0, DriverAssumption DEF DriverTypeOK, chipVars, callVars, Goes
<1>standby. ASSUME NEW from, NEW to \in {"rxFlush", "txFlush", "threw", "flush", "idleFlush"},
              Standby(from, to) \/ Throws(from)
       PROVE  DriverTypeOK'
  <2>1. pc' \in Pcs
    BY <1>standby DEF Standby, Throws, Pcs
  <2>2. marc' \in MarcStates /\ air' \in Airs
    BY <1>standby, SmallSequences DEF Standby, Throws, Idles, MarcStates
  <2>. QED BY <1>standby, <2>1, <2>2 DEF Standby, Throws
<1>fill. ASSUME NEW from \in {"fill", "fillRest"}, NEW to \in {"fillRest", "txOn"},
               NEW part \in {"length", "payload"},
              Fill(from, to, part)
       PROVE  DriverTypeOK'
  <2>1. CASE Throws(from)
    BY <2>1 DEF Throws, Pcs
  <2>2. CASE ~Throws(from)
    <3>1. sent \in 1..Sends
      BY <1>fill, <2>2 DEF Fill, DriverInv, TransmitControl, TransmitPcs
    <3>2. OutByte(sent, part) \in OutCells
      BY <3>1 DEF OutByte, OutCells
    <3>3. Append(tx, OutByte(sent, part)) \in Seq(OutCells)
      BY <3>2
    <3>. QED BY <1>fill, <2>2, <3>3 DEF Fill, Pcs
  <2>. QED BY <2>1, <2>2
<1>flush. ASSUME NEW from, NEW to \in {"rxOn", "restart", "idleEnd"}, FlushRx(from, to) \/ Throws(from)
       PROVE  DriverTypeOK'
  <2>1. pc' \in Pcs
    BY <1>flush DEF FlushRx, Throws, Pcs
  <2>2. rx' \in Seq(Cells) /\ air' \in Airs /\ marc' \in MarcStates
    BY <1>flush, SmallSequences DEF FlushRx, Throws, Idles, MarcStates
  <2>. QED BY <1>flush, <2>1, <2>2 DEF FlushRx, Throws
<1>1. CASE ChipStep
  <2>1. CASE PacketBegins
    BY <2>1 DEF PacketBegins, Airs
  <2>2. CASE ByteArrives
    <3>1. air.id \in 1..Arrivals
      BY <2>2 DEF ByteArrives, DriverInv, StreamInv
    <3>2. Byte(air.id, air.at, air.length) \in Cells
      BY <3>1 DEF Byte, Cells, Airs
    <3>3. rx' \in Seq(Cells)
      BY <2>2, <3>2 DEF ByteArrives
    <3>4. [air EXCEPT !.at = @ + 1] \in Airs
      BY NextByte
    <3>. QED BY <2>2, <3>3, <3>4, SmallSequences DEF ByteArrives, MarcStates
  <2>3. CASE Overflows \/ FrameSent \/ SynthesizerReady
    BY <2>3, SmallSequences DEF Overflows, FrameSent, SynthesizerReady, MarcStates
  <2>. QED BY <1>1, <2>1, <2>2, <2>3 DEF ChipStep
<1>2. CASE BeginStep \/ CallRelease
  <2>1. CASE Reset
    BY <2>1, SmallSequences DEF Reset, MarcStates, Pcs
  <2>2. CASE Probe \/ Program
    BY <2>2 DEF Probe, Program, Cancels, PersistentReceive, SelectAntenna, Pcs
  <2>3. CASE CallRelease
    BY <2>3 DEF CallRelease, Pcs
  <2>. QED BY <1>2, <2>1, <2>2, <2>3 DEF BeginStep
<1>3. CASE CallStartReceive \/ RxFlush \/ RxOn
  <2>1. CASE CallStartReceive
    BY <2>1 DEF CallStartReceive, Pcs
  <2>2. CASE RxFlush
    BY <2>2, <1>flush DEF RxFlush
  <2>3. CASE RxOn
    BY <2>3 DEF RxOn, Throws, MarcStates, Pcs, SelectAntenna
  <2>. QED BY <1>3, <2>1, <2>2, <2>3
<1>4. CASE CallReceive \/ Poll \/ Restart \/ CheckState
  BY <1>4 DEF CallReceive, Poll, Restart, CheckState, Restarts, Throws, Cancels, Pcs
<1>5. CASE Drop
  BY <1>5, <1>flush DEF Drop
<1>6. CASE ReadLength
  <2>1. CASE Throws("length")
    BY <2>1 DEF Throws, Pcs
  <2>2. CASE ~Throws("length")
    <3>1. /\ rx # << >> /\ rx' = Tail(rx) /\ pc' \in {"drop", "body"}
          /\ length' \in LengthsRead(Head(rx))
          /\ UNCHANGED <<marc, stays, tx, air, antenna, back, relaxed, listening, arrived, sent, got>>
      BY <1>6, <2>2 DEF ReadLength
    <3>2. Tail(rx) \in Seq(Cells) /\ Head(rx) \in Cells
      BY <3>1, RestTypes
    <3>3. LengthsRead(Head(rx)) \subseteq 0..LengthLimit
      BY <3>2 DEF LengthsRead, Cells
    <3>. QED BY <3>1, <3>2, <3>3 DEF Pcs
  <2>. QED BY <2>1, <2>2
<1>7. CASE ReadBody
  <2>1. CASE Goes("body", "state") /\ ReadBody
    <3>1. length \in Nat /\ length + 2 <= Len(rx) /\ rx \in Seq(Cells)
      BY <2>1 DEF ReadBody, Throws, Cancels
    <3>2. SubSeq(rx, 1, length + 2) \in Seq(Cells) /\ SubSeq(rx, length + 3, Len(rx)) \in Seq(Cells)
      BY <3>1, BodyTypes
    <3>. QED BY <2>1, <3>2 DEF ReadBody, Throws, Cancels, Pcs
  <2>2. CASE ~Goes("body", "state")
    BY <1>7, <2>2 DEF ReadBody, Throws, Cancels, Pcs
  <2>. QED BY <1>7, <2>1, <2>2
<1>8. CASE CallTransmit \/ TxFlush
  <2>1. CASE CallTransmit
    BY <2>1 DEF CallTransmit, Pcs
  <2>2. CASE TxFlush
    BY <2>2, SmallSequences DEF TxFlush, FlushTx, Throws, Pcs
  <2>. QED BY <1>8, <2>1, <2>2
<1>9. CASE TxReady
  BY <1>9, SmallSequences DEF TxReady, Throws, Cancels, Pcs
<1>10. CASE TxOn \/ TxSleep \/ TxEnd
  <2>1. CASE TxOn
    BY <2>1 DEF TxOn, Throws, MarcStates, Pcs, SelectAntenna
  <2>2. CASE TxSleep
    BY <2>2 DEF TxSleep, Cancels, Pcs
  <2>3. CASE TxEnd
    BY <2>3, SmallSequences DEF TxEnd, Throws, Pcs, SelectAntenna
  <2>. QED BY <1>10, <2>1, <2>2, <2>3
<1>11. CASE CallIdle \/ IdleFlush \/ IdleEnd
  <2>1. CASE CallIdle
    BY <2>1 DEF CallIdle, Pcs
  <2>2. CASE IdleFlush
    BY <2>2, <1>flush DEF IdleFlush
  <2>3. CASE IdleEnd
    BY <2>3, SmallSequences DEF IdleEnd, Throws, Pcs, SelectAntenna
  <2>. QED BY <1>11, <2>1, <2>2, <2>3
<1>. QED BY <1>1, <1>2, <1>3, <1>4, <1>5, <1>6, <1>7, <1>8, <1>9, <1>10, <1>11, <1>fill, <1>standby
  DEF Next, StartReceiveStep, RxStandby, ReceiveStep, TransmitStep, TxStandby, GiveUp, TxQuiet,
      IdleStep, IdleStandby

(* What the chip is doing at each place of a call.                         *)
LEMMA ControlInit ==
  ASSUME Init PROVE TransmitControl /\ ReceiveControl
  BY DEF Init, TransmitControl, ReceiveControl, SendsOwnFrame, DoesAsAsked, TransmitPcs, ReceivePcs

LEMMA AppendPair ==
  ASSUME NEW S, NEW a \in S, NEW b \in S
  PROVE  Append(<<a>>, b) = <<a, b>>
<1>1. <<a>> \in Seq(S) /\ Len(<<a>>) = 1 /\ <<a>>[1] = a
  OBVIOUS
<1>2. Append(<<a>>, b) \in Seq(S) /\ Len(Append(<<a>>, b)) = 2
  BY <1>1
<1>3. Append(<<a>>, b)[1] = a /\ Append(<<a>>, b)[2] = b
  BY <1>1
<1>4. <<a, b>> \in Seq(S) /\ Len(<<a, b>>) = 2 /\ <<a, b>>[1] = a /\ <<a, b>>[2] = b
  OBVIOUS
<1>5. \A i \in 1..2 : Append(<<a>>, b)[i] = <<a, b>>[i]
  BY <1>3, <1>4
<1>. QED BY <1>2, <1>4, <1>5, SeqEqual

LEMMA FrameFacts ==
  ASSUME NEW n
  PROVE  /\ Append(<< >>, OutByte(n, "length")) = <<OutByte(n, "length")>>
         /\ Append(<<OutByte(n, "length")>>, OutByte(n, "payload")) = Frame(n)
<1>1. \A a : Append(<< >>, a) = <<a>>
  OBVIOUS
<1>2. \A a, b : Append(<<a>>, b) = <<a, b>>
  <2>. SUFFICES ASSUME NEW a, NEW b PROVE Append(<<a>>, b) = <<a, b>>
    OBVIOUS
  <2>1. a \in {a, b} /\ b \in {a, b}
    OBVIOUS
  <2>. QED BY <2>1, AppendPair
<1>. QED BY <1>1, <1>2 DEF Frame

LEMMA TransmitControlStep ==
  ASSUME DriverInv, Next PROVE TransmitControl'
<1>0. TransmitControl /\ ReceiveControl /\ sent \in Nat /\ back \in {"listen", "poll"}
  BY DEF DriverInv, DriverTypeOK
<1>. USE <1>0 DEF TransmitControl, SendsOwnFrame, TransmitPcs, chipVars, callVars, Goes
<1>1. CASE ChipStep
  BY <1>1 DEF ChipStep, PacketBegins, ByteArrives, Overflows, FrameSent, SynthesizerReady
<1>2. CASE BeginStep \/ CallRelease
  BY <1>2 DEF BeginStep, Reset, Probe, Program, CallRelease, ReceiveControl, PersistentReceive,
     SelectAntenna
<1>3. CASE CallStartReceive \/ StartReceiveStep
  BY <1>3 DEF CallStartReceive, StartReceiveStep, RxStandby, RxFlush, RxOn, Standby, Throws, FlushRx,
     Idles, SelectAntenna
<1>4. CASE CallReceive \/ ReceiveStep
  BY <1>4 DEF CallReceive, ReceiveStep, Poll, ReadLength, Drop, Restart, ReadBody, CheckState, Restarts,
     Throws, Cancels, FlushRx, Idles
<1>5. CASE CallTransmit
  BY <1>5 DEF CallTransmit, ReceiveControl, DoesAsAsked
<1>6. CASE TxStandby \/ TxFlush
  BY <1>6 DEF TxStandby, TxFlush, Standby, FlushTx, Throws, Idles
<1>7. CASE TxReady \/ GiveUp
  BY <1>7 DEF TxReady, GiveUp, Standby, Throws, Cancels, Idles
<1>8. CASE Fill("fill", "fillRest", "length") \/ Fill("fillRest", "txOn", "payload")
  <2>1. CASE Fill("fill", "fillRest", "length")
    <3>1. tx = << >>
      BY <2>1 DEF Fill, Throws
    <3>2. \/ tx' = <<OutByte(sent, "length")>> /\ pc' = "fillRest"
          \/ pc' = "threw" /\ UNCHANGED tx
      <4>1. Append(tx, OutByte(sent, "length")) = <<OutByte(sent, "length")>>
        BY <3>1, FrameFacts, Zenon
      <4>2. CASE Throws("fill")
        BY <4>2 DEF Throws
      <4>3. CASE ~Throws("fill")
        <5>1. tx' = Append(tx, OutByte(sent, "length")) /\ pc' = "fillRest"
          BY <2>1, <4>3 DEF Fill
        <5>2. tx' = <<OutByte(sent, "length")>>
          BY <4>1, <5>1
        <5>. QED BY <5>1, <5>2
      <4>. QED BY <4>2, <4>3
    <3>3. UNCHANGED <<marc, rx, listening, sent>>
      BY <2>1 DEF Fill, Throws
    <3>. QED BY <2>1, <3>2, <3>3 DEF Fill, Throws
  <2>2. CASE Fill("fillRest", "txOn", "payload")
    BY <2>2, FrameFacts DEF Fill, Throws
  <2>. QED BY <1>8, <2>1, <2>2
<1>9. CASE TxOn \/ TxSleep \/ TxQuiet \/ TxEnd
  BY <1>9 DEF TxOn, TxSleep, TxQuiet, TxEnd, Standby, Throws, Cancels, Idles, SelectAntenna
<1>10. CASE CallIdle \/ IdleStep
  BY <1>10 DEF CallIdle, IdleStep, IdleStandby, IdleFlush, IdleEnd, Standby, FlushRx, Throws, Idles,
     SelectAntenna
<1>. QED BY <1>1, <1>2, <1>3, <1>4, <1>5, <1>6, <1>7, <1>8, <1>9, <1>10 DEF Next, TransmitStep

LEMMA ReceiveControlStep ==
  ASSUME DriverInv, Next PROVE ReceiveControl'
<1>0. TransmitControl /\ ReceiveControl /\ back \in {"listen", "poll"}
  BY DEF DriverInv, DriverTypeOK
<1>. USE <1>0 DEF ReceiveControl, DoesAsAsked, ReceivePcs, chipVars, callVars, Goes
<1>1. CASE ChipStep
  BY <1>1 DEF ChipStep, PacketBegins, ByteArrives, Overflows, FrameSent, SynthesizerReady,
     TransmitControl
<1>2. CASE BeginStep \/ CallRelease
  BY <1>2 DEF BeginStep, Reset, Probe, Program, CallRelease, PersistentReceive, SelectAntenna
<1>3. CASE CallStartReceive \/ StartReceiveStep
  BY <1>3 DEF CallStartReceive, StartReceiveStep, RxStandby, RxFlush, RxOn, Standby, Throws, FlushRx,
     Idles, SelectAntenna
<1>4. CASE CallReceive \/ ReceiveStep
  BY <1>4 DEF CallReceive, ReceiveStep, Poll, ReadLength, Drop, Restart, ReadBody, CheckState, Restarts,
     Throws, Cancels, FlushRx, Idles
<1>5. CASE CallTransmit \/ TransmitStep
  BY <1>5 DEF CallTransmit, TransmitStep, TxStandby, TxFlush, TxReady, GiveUp, Fill, TxOn, TxSleep,
     TxQuiet, TxEnd, Standby, FlushTx, Throws, Cancels, Idles, SelectAntenna, TransmitControl, TransmitPcs
<1>6. CASE CallIdle \/ IdleStep
  BY <1>6 DEF CallIdle, IdleStep, IdleStandby, IdleFlush, IdleEnd, Standby, FlushRx, Throws, Idles,
     SelectAntenna
<1>. QED BY <1>1, <1>2, <1>3, <1>4, <1>5, <1>6 DEF Next
-----------------------------------------------------------------------------
(* The receive FIFO.                                                       *)
LEMMA StreamInit ==
  ASSUME Init PROVE StreamInv
  BY DEF Init, StreamInv, Receiving, Silence

(* A step that leaves the bytes alone, and does not turn the reception on. *)
LEMMA StreamStays ==
  ASSUME StreamInv, UNCHANGED <<rx, air, got, arrived>>,
         Receiving' => Receiving /\ (marc' = "RX" => marc = "RX"),
         pc' = "body" <=> pc = "body", pc = "body" => length' = length
  PROVE  StreamInv'
<1>1. Receiving' => Stream' /\ Fresh'
  BY DEF StreamInv, Stream, InOrder, Continues, Ended, Place, End, Fresh
<1>2. Receiving' /\ pc' = "body" => AtRest'
  BY DEF StreamInv, AtRest
<1>3. Receiving' /\ pc' # "body" => AtStart'
  BY DEF StreamInv, AtStart
<1>. QED BY <1>1, <1>2, <1>3 DEF StreamInv

(* A step after which there is nothing in the FIFO and nothing on the air. *)
LEMMA StreamEmpty ==
  ASSUME StreamInv, rx' = << >>, air' = Silence, got' = got, arrived' = arrived, pc' # "body"
  PROVE  StreamInv'
<1>1. Stream' /\ AtStart' /\ Fresh'
  BY DEF Stream, InOrder, Continues, Ended, AtStart, Fresh
<1>. QED BY <1>1 DEF StreamInv

(* A step of a driver that is not receiving.                               *)
LEMMA StreamIdles ==
  ASSUME StreamInv, rx' = rx, air' \in {air, Silence}, got' = got, arrived' = arrived, ~Receiving'
  PROVE  StreamInv'
  BY DEF StreamInv

(* The chip's own steps.                                                   *)
LEMMA StreamChip ==
  ASSUME DriverInv, ChipStep PROVE StreamInv'
<1>0. StreamInv /\ DriverTypeOK /\ ReceiveControl /\ rx \in Seq(Cells)
  BY DEF DriverInv, DriverTypeOK
<1>1. CASE PacketBegins
  <2>1. /\ arrived' = arrived + 1 /\ air'.id = arrived + 1 /\ air'.at = 0 /\ air'.length \in Nat
        /\ arrived \in Nat /\ air = Silence /\ marc = "RX" /\ marc' = "RX"
        /\ UNCHANGED <<rx, got, pc, length, listening>>
    BY <1>0, <1>1, DriverAssumption DEF PacketBegins, DriverTypeOK
  <2>2. \A i \in 1..Len(rx) : rx[i].id \in Nat
    BY <1>0, CellFacts
  <2>3. got # << >> => got[1].id \in Nat
    BY <1>0, CellFacts DEF DriverTypeOK
  <2>4. \A i \in 1..Len(rx) : rx'[i].id <= arrived'
    BY <1>0, <2>1, <2>2 DEF StreamInv
  <2>5. air'.id \in 1..arrived' /\ air'.at <= air'.length + 2 /\ air' # Silence
    BY <2>1 DEF Silence
  <2>6. got' # << >> => got'[1].id <= arrived'
    BY <1>0, <2>1, <2>3 DEF StreamInv
  <2>7. ASSUME Receiving' PROVE Stream' /\ Fresh' /\ (IF pc' = "body" THEN AtRest' ELSE AtStart')
    <3>1. Stream /\ Fresh /\ (IF pc = "body" THEN AtRest ELSE AtStart)
      BY <1>0, <2>1, <2>7 DEF StreamInv, Receiving
    <3>2. InOrder(rx) /\ Ended(rx)
      BY <2>1, <3>1 DEF Stream
    <3>3. Continues(rx, air')
      BY <1>0, <2>1, <3>2, StreamBegins DEF StreamInv
    <3>4. Stream'
      BY <2>1, <2>5, <3>2, <3>3 DEF Stream
    <3>5. Fresh'
      <4>1. \A i \in 1..Len(rx) : got # << >> => rx[i].id > got[1].id
        BY <3>1 DEF Fresh
      <4>2. got # << >> => air'.id > got[1].id
        BY <1>0, <2>1, <2>3 DEF StreamInv
      <4>. QED BY <2>1, <4>1, <4>2 DEF Fresh
    <3>6. pc = "body" => AtRest'
      BY <2>1, <3>1 DEF AtRest
    <3>7. pc # "body" => AtStart'
      BY <2>1, <3>1 DEF AtStart
    <3>. QED BY <2>1, <3>4, <3>5, <3>6, <3>7
  <2>. QED BY <2>1, <2>4, <2>5, <2>6, <2>7 DEF StreamInv
<1>2. CASE ByteArrives
  <2>. DEFINE b == Byte(air.id, air.at, air.length)
  <2>1. /\ air # Silence /\ marc = "RX" /\ rx' = Append(rx, b)
        /\ UNCHANGED <<got, arrived, pc, length, listening>>
    BY <1>2 DEF ByteArrives, callVars
  <2>2. /\ air \in Airs /\ air.id \in 1..arrived /\ arrived \in Nat /\ air.id \in Nat /\ air.at \in Nat
        /\ air.length \in Nat /\ air.at <= air.length + 2 /\ air.id \in 1..Arrivals
    BY <1>0, <2>1, DriverAssumption DEF StreamInv, DriverTypeOK, Airs
  <2>3. /\ b \in Cells /\ b.id = air.id /\ b.k = air.at /\ b.length = air.length
    BY <1>0, <2>2, ByteFacts DEF Byte, Cells, DriverTypeOK, Airs
  <2>4. /\ rx' \in Seq(Cells) /\ Len(rx') = Len(rx) + 1 /\ Len(rx) \in Nat
        /\ \A i \in 1..Len(rx) : rx'[i] = rx[i]
        /\ rx'[Len(rx) + 1] = b
    <3>. HIDE DEF b
    <3>. QED BY <1>0, <2>1, <2>3, AppendFacts
  <2>5. \/ /\ air.at < air.length + 2 /\ marc' = marc /\ air' # Silence
           /\ air'.id = air.id /\ air'.length = air.length /\ air'.at = air.at + 1
        \/ /\ air.at = air.length + 2 /\ air' = Silence /\ marc' = IF stays THEN "RX" ELSE "IDLE"
    <3>1. CASE air.at < air.length + 2
      <4>1. air' = [air EXCEPT !.at = @ + 1] /\ marc' = marc
        BY <1>2, <3>1 DEF ByteArrives
      <4>2. air'.id = air.id /\ air'.length = air.length /\ air'.at = air.at + 1
        BY <2>2, <4>1, NextByte
      <4>3. ASSUME air' = Silence PROVE FALSE
        <5>1. air'.id = 0
          BY <4>3 DEF Silence
        <5>. QED BY <2>2, <4>2, <5>1
      <4>. QED BY <2>2, <3>1, <4>1, <4>2, <4>3
    <3>2. CASE air.at = air.length + 2
      BY <1>2, <2>2, <3>2 DEF ByteArrives
    <3>. QED BY <2>2, <3>1, <3>2
  <2>. HIDE DEF b
  <2>6. \A i \in 1..Len(rx') : rx'[i].id <= arrived'
    <3>1. ASSUME NEW i \in 1..Len(rx') PROVE rx'[i].id <= arrived'
      <4>1. CASE i \in 1..Len(rx)
        BY <1>0, <2>1, <2>4, <4>1 DEF StreamInv
      <4>2. CASE i = Len(rx) + 1
        BY <2>1, <2>2, <2>3, <2>4, <4>2
      <4>. QED BY <2>4, <4>1, <4>2
    <3>. QED BY <3>1
  <2>7. air' # Silence => air'.id \in 1..arrived' /\ air'.at <= air'.length + 2
    BY <2>1, <2>2, <2>5
  <2>8. ASSUME Receiving' PROVE Stream' /\ Fresh' /\ (IF pc' = "body" THEN AtRest' ELSE AtStart')
    <3>1. Stream /\ Fresh /\ (IF pc = "body" THEN AtRest ELSE AtStart) /\ pc \in ReceivePcs \cup {"return"}
      BY <1>0, <2>1, <2>8 DEF StreamInv, Receiving
    <3>2. stays
      BY <1>0, <3>1 DEF ReceiveControl, ReceivePcs
    <3>3. InOrder(rx) /\ Continues(rx, air)
      BY <2>1, <3>1 DEF Stream
    <3>4. /\ InOrder(rx')
          /\ air' # Silence => Continues(rx', air')
          /\ air' = Silence => Ended(rx')
      <4>1. PICK i, k, l, a : i = air.id /\ k = air.at /\ l = air.length /\ a = air
        OBVIOUS
      <4>2. /\ i \in Nat /\ k \in Nat /\ l \in Nat /\ Byte(i, k, l) \in Cells
            /\ a.id = i /\ a.at = k /\ a.length = l /\ k <= l + 2
            /\ InOrder(rx) /\ Continues(rx, a) /\ rx \in Seq(Cells)
            /\ rx' = Append(rx, Byte(i, k, l))
        BY <1>0, <2>1, <2>2, <2>3, <3>3, <4>1 DEF b
      <4>3. /\ InOrder(rx')
            /\ k < l + 2 => \A c : c.id = i /\ c.at = k + 1 /\ c.length = l => Continues(rx', c)
            /\ k = l + 2 => Ended(rx')
        BY <4>2, StreamAppend
      <4>. QED BY <2>5, <4>1, <4>3
    <3>5. Stream'
      BY <3>4 DEF Stream
    <3>6. Fresh'
      <4>1. got # << >> => /\ \A i \in 1..Len(rx) : rx[i].id > got[1].id
                           /\ air.id > got[1].id
        BY <2>1, <3>1 DEF Fresh
      <4>2. ASSUME got # << >>, NEW i \in 1..Len(rx') PROVE rx'[i].id > got[1].id
        <5>1. CASE i \in 1..Len(rx)
          BY <2>4, <4>1, <4>2, <5>1
        <5>2. CASE i = Len(rx) + 1
          BY <2>3, <2>4, <4>1, <4>2, <5>2
        <5>. QED BY <2>4, <5>1, <5>2
      <4>. QED BY <2>1, <2>5, <4>1, <4>2 DEF Fresh
    <3>7. rx' # << >> /\ (rx # << >> => rx'[1] = rx[1]) /\ (rx = << >> => rx'[1] = b)
      <4>1. Len(rx') # 0 /\ (rx # << >> => Len(rx) >= 1) /\ (rx = << >> => Len(rx) = 0)
        BY <1>0, <2>4, NoBytes
      <4>. QED BY <2>4, <4>1
    <3>8. CASE pc = "body"
      <4>1. AtRest
        BY <3>1, <3>8
      <4>2. rx'[1].k = 1 /\ rx'[1].length = length
        BY <2>1, <2>3, <3>7, <4>1 DEF AtRest
      <4>3. rx' # << >> /\ length' = length /\ pc' = pc
        BY <2>1, <3>7
      <4>4. AtRest'
        BY <4>2, <4>3 DEF AtRest
      <4>. QED BY <3>5, <3>6, <3>8, <4>3, <4>4
    <3>9. CASE pc # "body"
      <4>1. AtStart
        BY <3>1, <3>9
      <4>2. rx'[1].k = 0
        BY <2>1, <2>3, <3>7, <4>1 DEF AtStart
      <4>3. rx' # << >> /\ length' = length /\ pc' = pc
        BY <2>1, <3>7
      <4>4. AtStart'
        BY <4>2, <4>3 DEF AtStart
      <4>. QED BY <3>5, <3>6, <3>9, <4>3, <4>4
    <3>. QED BY <2>1, <3>5, <3>6, <3>8, <3>9
  <2>. QED BY <1>0, <2>1, <2>6, <2>7, <2>8 DEF StreamInv
<1>3. CASE Overflows
  <2>1. /\ marc' = "OVERFLOW" /\ air' = Silence /\ UNCHANGED <<rx, got, arrived, pc, length, listening>>
    BY <1>3 DEF Overflows, callVars
  <2>2. Receiving' => Stream' /\ Fresh' /\ (IF pc' = "body" THEN AtRest' ELSE AtStart')
    BY <1>0, <2>1 DEF StreamInv, Receiving, Stream, Fresh, AtRest, AtStart
  <2>. QED BY <1>0, <2>1, <2>2 DEF StreamInv
<1>4. CASE FrameSent \/ SynthesizerReady
  BY <1>0, <1>4, StreamStays DEF FrameSent, SynthesizerReady, callVars, Receiving
<1>. QED BY <1>1, <1>2, <1>3, <1>4 DEF ChipStep

(* The length of a packet is read from the front.                          *)
LEMMA StreamLength ==
  ASSUME DriverInv, ReadLength PROVE StreamInv'
<1>0. StreamInv /\ ReceiveControl /\ rx \in Seq(Cells)
  BY DEF DriverInv, DriverTypeOK
<1>1. CASE Throws("length")
  BY <1>0, <1>1, StreamIdles DEF Throws, Goes, chipVars, callVars, Receiving, ReceivePcs
<1>2. CASE ~Throws("length")
  <2>1. /\ pc = "length" /\ rx # << >> /\ rx' = Tail(rx) /\ pc' \in {"drop", "body"}
        /\ length' \in LengthsRead(Head(rx))
        /\ UNCHANGED <<marc, air, listening, arrived, got>>
    BY <1>2 DEF ReadLength
  <2>2. Receiving /\ Stream /\ Fresh /\ AtStart
    BY <1>0, <2>1 DEF StreamInv, Receiving, ReceiveControl, ReceivePcs
  <2>3. Len(rx) \in Nat /\ 1 <= Len(rx) /\ rx' = SubSeq(rx, 1 + 1, Len(rx)) /\ Head(rx) = rx[1]
    BY <1>0, <2>1, RestTypes
  <2>4. rx[1].k = 0 /\ rx[1].length \in Nat /\ length' = rx[1].length
    <3>1. rx[1] \in Cells
      BY <1>0, <2>3, ElementOfSeq
    <3>2. rx[1].k = 0
      BY <2>1, <2>2 DEF AtStart
    <3>. QED BY <2>1, <2>3, <3>1, <3>2, CellFacts DEF LengthsRead
  <2>5. /\ Len(rx') = Len(rx) - 1 /\ Len(rx') \in Nat /\ rx' \in Seq(Cells)
        /\ \A i \in 1..Len(rx') : rx'[i] = rx[1 + i] /\ 1 + i \in 1..Len(rx)
    <3>1. PICK m \in Nat : m = 1
      OBVIOUS
    <3>2. IsRest(rx, m, rx')
      BY <2>3, <3>1 DEF IsRest
    <3>3. /\ rx' \in Seq(Cells) /\ Len(rx') = Len(rx) - m /\ Len(rx') \in Nat
          /\ \A i \in 1..Len(rx') : rx'[i] = rx[m + i] /\ m + i \in 1..Len(rx)
      BY <1>0, <3>2, RestFacts
    <3>. QED BY <3>1, <3>3
  <2>6. \A i \in 1..Len(rx') : rx'[i].id <= arrived'
    BY <1>0, <2>1, <2>5 DEF StreamInv
  <2>7. ASSUME pc' = "body" PROVE Stream' /\ Fresh' /\ AtRest'
    <3>1. /\ InOrder(rx) => InOrder(rx')
          /\ \A a : Continues(rx, a) => Continues(rx', a)
          /\ Ended(rx) => Ended(rx')
      <4>1. PICK m \in Nat : m = 1
        OBVIOUS
      <4>2. IsRest(rx, m, rx')
        BY <2>3, <4>1 DEF IsRest
      <4>. QED BY <1>0, <4>2, StreamRest
    <3>2. Stream'
      BY <2>1, <2>2, <3>1 DEF Stream
    <3>3. Fresh'
      BY <2>1, <2>2, <2>5 DEF Fresh
    <3>4. ASSUME rx' # << >> PROVE rx'[1].k = 1 /\ rx'[1].length = length'
      <4>1. 1 \in 1..Len(rx')
        BY <2>5, <3>4, NoBytes
      <4>2. rx'[1] = rx[2] /\ 2 \in 1..Len(rx)
        BY <2>5, <4>1
      <4>3. Place(rx, 1, 2) = 1 /\ Place(rx, 1, 2) <= End(rx, 1)
        BY <2>4 DEF Place, End
      <4>4. rx[2] = Byte(rx[1].id, 1, rx[1].length)
        BY <2>2, <2>3, <4>2, <4>3 DEF Stream, InOrder
      <4>. QED BY <2>4, <4>2, <4>4, ByteFacts
    <3>5. ASSUME rx' = << >>, marc' = "RX" PROVE air' # Silence /\ air'.at = 1 /\ air'.length = length'
      <4>1. Len(rx) = 1
        <5>1. Len(rx') = 0
          BY <3>5, NoBytes
        <5>2. Len(rx) \in Nat /\ Len(rx') = Len(rx) - 1
          BY <2>3, <2>5
        <5>. QED BY <5>1, <5>2
      <4>2. Place(rx, 1, Len(rx) + 1) = 1 /\ Place(rx, 1, Len(rx) + 1) <= End(rx, 1)
            /\ ~(Place(rx, 1, Len(rx) + 1) > End(rx, 1))
        BY <2>4, <4>1 DEF Place, End
      <4>3. 1 \in 1..Len(rx)
        BY <4>1
      <4>4. air # Silence
        BY <2>1, <2>2, <3>5, <4>2, <4>3 DEF Stream, Ended
      <4>5. air.at = 1 /\ air.length = rx[1].length
        BY <2>2, <4>2, <4>3, <4>4 DEF Stream, Continues
      <4>. QED BY <2>1, <2>4, <4>4, <4>5
    <3>. QED BY <3>2, <3>3, <3>4, <3>5 DEF AtRest
  <2>8. Receiving' => pc' = "body"
    BY <2>1 DEF Receiving, ReceivePcs
  <2>. QED BY <1>0, <2>1, <2>6, <2>7, <2>8 DEF StreamInv
<1>. QED BY <1>1, <1>2

(* A whole packet is read.                                                 *)
LEMMA BodyRead ==
  ASSUME DriverInv, ReadBody, Goes("body", "state") \/ got' # got
  PROVE  /\ pc = "body" /\ pc' = "state" /\ length \in Nat /\ rx \in Seq(Cells) /\ length + 2 <= Len(rx)
         /\ Stream /\ Fresh /\ AtRest /\ Len(rx) \in Nat /\ 1 \in 1..Len(rx)
         /\ got' = SubSeq(rx, 1, length + 2) /\ rx' = SubSeq(rx, length + 3, Len(rx))
         /\ Len(got') = length + 2 /\ \A i \in 1..(length + 2) : got'[i] = rx[i]
         /\ rx[1].k = 1 /\ rx[1].length = length /\ got' # << >> /\ rx[1].id \in Nat
         /\ UNCHANGED <<marc, air, arrived, length, listening>>
<1>1. StreamInv /\ ReceiveControl /\ rx \in Seq(Cells) /\ length \in Nat
  BY DriverAssumption DEF DriverInv, DriverTypeOK
<1>2. /\ pc = "body" /\ pc' = "state" /\ length + 2 <= Len(rx) /\ rx \in Seq(Cells)
      /\ got' = SubSeq(rx, 1, length + 2) /\ rx' = SubSeq(rx, length + 3, Len(rx))
      /\ UNCHANGED <<marc, air, arrived, length, listening>>
  BY <1>1 DEF ReadBody, Throws, Cancels, Goes, callVars
<1>3. Stream /\ Fresh /\ AtRest
  BY <1>1, <1>2 DEF StreamInv, Receiving, ReceiveControl, ReceivePcs
<1>4. Len(rx) \in Nat /\ Len(got') = length + 2 /\ \A i \in 1..(length + 2) : got'[i] = rx[i]
  BY <1>1, <1>2, BodyTypes
<1>5. 1 \in 1..Len(rx) /\ rx # << >> /\ got' # << >>
  BY <1>1, <1>2, <1>4, NoBytes
<1>6. rx[1].k = 1 /\ rx[1].length = length
  BY <1>3, <1>5 DEF AtRest
<1>7. rx[1].id \in Nat
  BY <1>1, <1>5, ElementOfSeq, CellFacts
<1>. QED BY <1>1, <1>2, <1>3, <1>4, <1>5, <1>6, <1>7

LEMMA StreamBody ==
  ASSUME DriverInv, ReadBody PROVE StreamInv'
<1>0. StreamInv /\ ReceiveControl
  BY DEF DriverInv
<1>1. CASE ~Goes("body", "state")
  BY <1>0, <1>1, StreamIdles
  DEF ReadBody, Throws, Cancels, Goes, chipVars, callVars, Receiving, ReceivePcs
<1>2. CASE Goes("body", "state")
  <2>1. /\ pc' = "state" /\ length \in Nat /\ rx \in Seq(Cells) /\ length + 2 <= Len(rx)
        /\ Stream /\ Fresh /\ Len(rx) \in Nat /\ 1 \in 1..Len(rx)
        /\ rx' = SubSeq(rx, length + 3, Len(rx)) /\ got'[1] = rx[1]
        /\ rx[1].k = 1 /\ rx[1].length = length /\ rx[1].id \in Nat
        /\ UNCHANGED <<marc, air, arrived, length, listening>>
    <3>1. /\ pc' = "state" /\ length \in Nat /\ rx \in Seq(Cells) /\ length + 2 <= Len(rx)
          /\ Stream /\ Fresh /\ Len(rx) \in Nat /\ 1 \in 1..Len(rx)
          /\ rx' = SubSeq(rx, length + 3, Len(rx)) /\ \A i \in 1..(length + 2) : got'[i] = rx[i]
          /\ rx[1].k = 1 /\ rx[1].length = length /\ rx[1].id \in Nat
          /\ UNCHANGED <<marc, air, arrived, length, listening>>
      BY <1>2, BodyRead, Zenon
    <3>2. 1 \in 1..(length + 2)
      BY <3>1
    <3>. QED BY <3>1, <3>2, Zenon
  <2>2. PICK m \in Nat : m = length + 2
    BY <2>1
  <2>3. IsRest(rx, m, rx') /\ m <= Len(rx)
    BY <2>1, <2>2 DEF IsRest
  <2>4. /\ rx' \in Seq(Cells) /\ Len(rx') = Len(rx) - m /\ Len(rx') \in Nat
        /\ \A i \in 1..Len(rx') : rx'[i] = rx[m + i] /\ m + i \in 1..Len(rx)
    <3>1. rx \in Seq(Cells) /\ IsRest(rx, m, rx')
      BY <2>1, <2>3
    <3>. QED BY <3>1, RestFacts
  <2>5. /\ InOrder(rx) => InOrder(rx')
        /\ \A a : Continues(rx, a) => Continues(rx', a)
        /\ Ended(rx) => Ended(rx')
    BY <2>1, <2>2, <2>3, StreamRest
  <2>6. Stream'
    BY <2>1, <2>5 DEF Stream
  <2>7. ASSUME NEW j \in Nat, j > m
        PROVE  /\ Place(rx, 1, j) > End(rx, 1) /\ ~(Place(rx, 1, j) <= End(rx, 1))
               /\ j = m + 1 => Place(rx, 1, j) = End(rx, 1) + 1
    BY <2>1, <2>2, <2>7 DEF Place, End
  <2>8. \A i \in 1..Len(rx') : rx'[i].id > rx[1].id
    <3>1. ASSUME NEW i \in 1..Len(rx') PROVE rx'[i].id > rx[1].id
      <4>1. m + i \in Nat /\ m + i > m /\ 1 <= m + i /\ m + i \in 1..Len(rx)
        BY <2>2, <2>4
      <4>2. rx[m + i].id > rx[1].id
        BY <2>1, <2>7, <4>1 DEF Stream, InOrder
      <4>. QED BY <2>4, <4>2
    <3>. QED BY <3>1
  <2>9. ASSUME air # Silence
        PROVE  air.id > rx[1].id /\ (rx' = << >> => air.at = 0)
    <3>1. Len(rx) + 1 \in Nat /\ Len(rx) + 1 > m
      BY <2>1, <2>3
    <3>2. air.id > rx[1].id
      BY <2>1, <2>7, <2>9, <3>1 DEF Stream, Continues
    <3>3. ASSUME rx' = << >> PROVE air.at = 0
      <4>1. Len(rx) = m
        <5>1. Len(rx') = 0
          BY <3>3, NoBytes
        <5>2. m <= Len(rx) /\ Len(rx') = Len(rx) - m
          BY <2>3, <2>4
        <5>. QED BY <2>1, <5>1, <5>2
      <4>2. Place(rx, 1, Len(rx) + 1) = End(rx, 1) + 1
        BY <2>7, <3>1, <4>1
      <4>. QED BY <2>1, <2>9, <4>2 DEF Stream, Continues
    <3>. QED BY <3>2, <3>3
  <2>10. ASSUME rx' # << >> PROVE rx'[1].k = 0
    <3>1. 1 \in 1..Len(rx')
      BY <2>4, <2>10, NoBytes
    <3>2. rx'[1] = rx[m + 1] /\ m + 1 \in 1..Len(rx) /\ m + 1 \in Nat /\ m + 1 > m /\ 1 <= m + 1
      BY <2>4, <3>1
    <3>3. Place(rx, 1, m + 1) = End(rx, 1) + 1
      BY <2>7, <3>2
    <3>4. rx[m + 1].k = 0
      BY <2>1, <3>2, <3>3 DEF Stream, InOrder
    <3>. QED BY <3>2, <3>4
  <2>11. Fresh' /\ AtStart'
    BY <2>1, <2>8, <2>9, <2>10 DEF Fresh, AtStart
  <2>12. \A i \in 1..Len(rx') : rx'[i].id <= arrived'
    BY <1>0, <2>1, <2>4 DEF StreamInv
  <2>13. got'[1].id <= arrived'
    BY <1>0, <2>1 DEF StreamInv
  <2>. QED BY <1>0, <2>1, <2>6, <2>11, <2>12, <2>13 DEF StreamInv
<1>. QED BY <1>1, <1>2

LEMMA StreamStep ==
  ASSUME DriverInv, Next PROVE StreamInv'
<1>0. StreamInv /\ DriverTypeOK /\ TransmitControl /\ ReceiveControl /\ back \in {"listen", "poll"}
  BY DEF DriverInv, DriverTypeOK
<1>. USE DEF Receiving, ReceivePcs, chipVars, callVars, Goes
<1>1. CASE ChipStep
  BY <1>1, StreamChip
<1>2. CASE BeginStep \/ CallRelease
  <2>1. CASE Reset
    BY <1>0, <2>1, StreamEmpty DEF Reset
  <2>2. CASE Probe \/ Program \/ CallRelease
    BY <1>0, <2>2, StreamIdles DEF Probe, Program, CallRelease, ReceiveControl, Cancels
  <2>. QED BY <1>2, <2>1, <2>2 DEF BeginStep
<1>3. CASE CallStartReceive \/ RxStandby \/ RxFlush
  <2>1. CASE CallStartReceive \/ RxStandby
    BY <1>0, <2>1, StreamIdles DEF CallStartReceive, RxStandby, Standby, Throws, Idles
  <2>2. CASE RxFlush
    BY <1>0, <2>2, StreamEmpty, StreamIdles DEF RxFlush, FlushRx, Throws, Idles
  <2>. QED BY <1>3, <2>1, <2>2
<1>4. CASE RxOn
  <2>1. CASE Throws("rxOn")
    BY <1>0, <2>1, StreamIdles DEF Throws
  <2>2. CASE ~Throws("rxOn")
    <3>1. rx' = << >> /\ air' = Silence /\ UNCHANGED <<got, arrived>> /\ pc' # "body"
      BY <1>0, <1>4, <2>2 DEF RxOn, ReceiveControl
    <3>. QED BY <1>0, <3>1, StreamEmpty
  <2>. QED BY <2>1, <2>2
<1>5. CASE CallReceive \/ Poll \/ CheckState
  <2>1. UNCHANGED <<rx, air, got, arrived, marc, length>> /\ pc # "body" /\ pc' # "body"
    BY <1>5 DEF CallReceive, Poll, CheckState, Restarts, Throws, Cancels
  <2>2. Receiving' => Receiving
    BY <1>0, <1>5 DEF CallReceive, Poll, CheckState, Restarts, Throws, Cancels, ReceiveControl
  <2>. QED BY <1>0, <2>1, <2>2, StreamStays
<1>6. CASE Drop \/ Restart
  <2>1. CASE FlushRx("drop", "restart")
    BY <1>0, <2>1, StreamEmpty DEF FlushRx, Idles
  <2>2. CASE Throws("drop") \/ Restart
    BY <1>0, <2>2, StreamIdles DEF Restart, Restarts, Throws
  <2>. QED BY <1>6, <2>1, <2>2 DEF Drop
<1>7. CASE ReadLength
  BY <1>7, StreamLength
<1>8. CASE ReadBody
  BY <1>8, StreamBody
<1>9. CASE CallTransmit
  BY <1>0, <1>9, StreamIdles DEF CallTransmit
<1>10. CASE TransmitStep
  <2>1. ~listening' /\ air' \in {air, Silence} /\ UNCHANGED <<rx, got, arrived>>
    BY <1>0, <1>10
    DEF TransmitStep, TxStandby, TxFlush, TxReady, GiveUp, Fill, TxOn, TxSleep, TxQuiet, TxEnd, Standby,
        FlushTx, Throws, Cancels, Idles, TransmitControl, TransmitPcs
  <2>. QED BY <1>0, <2>1, StreamIdles
<1>11. CASE CallIdle \/ IdleStep
  <2>1. CASE FlushRx("idleFlush", "idleEnd")
    BY <1>0, <2>1, StreamEmpty DEF FlushRx, Idles
  <2>2. CASE CallIdle \/ IdleStandby \/ Throws("idleFlush") \/ IdleEnd
    BY <1>0, <2>2, StreamIdles DEF CallIdle, IdleStandby, IdleEnd, Standby, Throws, Idles
  <2>. QED BY <1>11, <2>1, <2>2 DEF IdleStep, IdleFlush
<1>. QED BY <1>1, <1>2, <1>3, <1>4, <1>5, <1>6, <1>7, <1>8, <1>9, <1>10, <1>11
  DEF Next, StartReceiveStep, ReceiveStep
-----------------------------------------------------------------------------
(* The theorems.                                                           *)

LEMMA DriverInductive ==
  ASSUME DriverInv, [Next]_vars PROVE DriverInv'
<1>1. CASE Next
  BY <1>1, TypeStep, TransmitControlStep, ReceiveControlStep, StreamStep DEF DriverInv
<1>2. CASE UNCHANGED vars
  <2>1. DriverTypeOK' /\ TransmitControl' /\ ReceiveControl'
    BY <1>2 DEF DriverInv, DriverTypeOK, TransmitControl, ReceiveControl, SendsOwnFrame, DoesAsAsked,
       vars, chipVars, callVars
  <2>2. StreamInv'
    BY <1>2, StreamStays DEF DriverInv, Receiving, vars, chipVars, callVars
  <2>. QED BY <2>1, <2>2 DEF DriverInv
<1>. QED BY <1>1, <1>2

(* The inductive invariant holds in every state of the driver and its chip *)
(* (cc1101.cpp:374-384, 544-672, 755-820).                                 *)
THEOREM DriverInvariant == Spec => []DriverInv
<1>1. Init => DriverInv
  BY InitTypes, ControlInit, StreamInit DEF DriverInv
<1>2. DriverInv /\ [Next]_vars => DriverInv'
  BY DriverInductive
<1>. QED BY <1>1, <1>2, PTL DEF Spec

(* The FIFOs, the chip's state and the place of the call keep their types. *)
THEOREM DriverTypeCorrect == Spec => []DriverTypeOK
<1>1. DriverInv => DriverTypeOK
  BY DEF DriverInv
<1>. QED BY <1>1, DriverInvariant, PTL

(* Whatever earlier calls left behind, the chip sends the frame of the     *)
(* latest transmit(), whole and through the antenna (cc1101.cpp:755-820).  *)
THEOREM AlwaysSendsOwnFrame == Spec => []SendsOwnFrame
<1>1. DriverInv => SendsOwnFrame
  BY DEF DriverInv, TransmitControl
<1>. QED BY <1>1, DriverInvariant, PTL

(* Between calls the chip listens, or is idle and empty, as the last call  *)
(* asked (cc1101.cpp:374-384, 544-561, 658-669, 814-819).                  *)
THEOREM AlwaysDoesAsAsked == Spec => []DoesAsAsked
<1>1. DriverInv => DoesAsAsked
  BY DEF DriverInv, ReceiveControl
<1>. QED BY <1>1, DriverInvariant, PTL

LEMMA OnlyBodyReturns ==
  ASSUME Next, got' # got PROVE ReadBody
  BY DEF Next, ChipStep, PacketBegins, ByteArrives, Overflows, FrameSent, SynthesizerReady, BeginStep,
     Reset, Probe, Program, CallStartReceive, StartReceiveStep, RxStandby, RxFlush, RxOn, CallReceive,
     ReceiveStep, Poll, ReadLength, Drop, Restart, CheckState, CallTransmit, TransmitStep,
     TxStandby, TxFlush, TxReady, GiveUp, Fill, TxOn, TxSleep, TxQuiet, TxEnd, CallIdle, IdleStep,
     IdleStandby, IdleFlush, IdleEnd, CallRelease, Standby, FlushRx, FlushTx, Restarts, Throws, Cancels,
     chipVars, callVars

(* Each packet that receive() returns is one packet, whole and from its    *)
(* start, and later than the one before: for any size of the FIFO and      *)
(* however the driver's reads and the chip's bytes are interleaved         *)
(* (cc1101.cpp:603-672).                                                   *)
THEOREM AlwaysReturnsPackets == Spec => ReturnsPackets
<1>1. ASSUME DriverInv, [Next]_vars, got' # got
      PROVE  /\ \A i \in DOMAIN got' : got'[i] = Byte(got'[1].id, i, Len(got') - 2)
             /\ got # << >> => got'[1].id > got[1].id
  <2>1. ReadBody
    BY <1>1, OnlyBodyReturns DEF vars, callVars
  <2>2. /\ length \in Nat /\ rx \in Seq(Cells) /\ length + 2 <= Len(rx) /\ Len(rx) \in Nat
        /\ Stream /\ Fresh /\ 1 \in 1..Len(rx) /\ got' = SubSeq(rx, 1, length + 2)
        /\ Len(got') = length + 2 /\ \A i \in 1..(length + 2) : got'[i] = rx[i]
        /\ rx[1].k = 1 /\ rx[1].length = length
    BY <1>1, <2>1, BodyRead
  <2>3. got'[1] = rx[1]
    BY <2>2
  <2>4. DOMAIN got' = 1..(length + 2) /\ Len(got') - 2 = length
    <3>1. got' \in Seq(Cells)
      BY <2>2, BodyTypes
    <3>. QED BY <2>2, <3>1
  <2>5. ASSUME NEW i \in 1..(length + 2) PROVE got'[i] = Byte(got'[1].id, i, Len(got') - 2)
    <3>1. i \in 1..Len(rx) /\ 1 <= i
      BY <2>2
    <3>2. Place(rx, 1, i) = i /\ End(rx, 1) = length + 2 /\ i <= length + 2
      BY <2>2, <3>1 DEF Place, End
    <3>3. rx[i] = Byte(rx[1].id, i, length)
      BY <2>2, <3>1, <3>2 DEF Stream, InOrder
    <3>4. got'[i] = rx[i]
      BY <2>2
    <3>. QED BY <2>3, <2>4, <3>3, <3>4
  <2>6. got # << >> => got'[1].id > got[1].id
    BY <2>2, <2>3 DEF Fresh
  <2>. QED BY <2>4, <2>5, <2>6
<1>2. DriverInv /\ [Next]_vars => [got' # got =>
         /\ \A i \in DOMAIN got' : got'[i] = Byte(got'[1].id, i, Len(got') - 2)
         /\ got # << >> => got'[1].id > got[1].id]_vars
  BY <1>1
<1>. QED BY <1>2, DriverInvariant, PTL DEF Spec, ReturnsPackets
=============================================================================
