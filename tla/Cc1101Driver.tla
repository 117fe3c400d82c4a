----------------------------- MODULE Cc1101Driver -----------------------------
(***************************************************************************)
(* The driver of the transceiver, src/src/radio/driver/cc1101.cpp, on top  *)
(* of the chip: its state (MARCSTATE), its two FIFOs and the antenna       *)
(* switch.  The chip receives and sends byte by byte while the driver's    *)
(* calls poll it over SPI.  Any access over SPI may throw, and a call may  *)
(* be cancelled where it looks at the cancellation flag.                   *)
(*                                                                         *)
(* The caller is LinuxBackend's for the worker of RadioWorker: one call at *)
(* a time, frames of at most FifoSize - 3 bytes, so that the loop that     *)
(* feeds a longer one has nothing to do; after a call that threw it starts *)
(* to receive again or gives the driver up, after a cancelled one only the *)
(* latter.  A byte in a FIFO is known by its frame and its place there.    *)
(***************************************************************************)
EXTENDS Naturals, Sequences

CONSTANTS
  FifoSize,    (* FIFO_SIZE                                                *)
  LengthLimit, (* bound: the largest length byte on the air                *)
  Arrivals,    (* bound: how many packets arrive                           *)
  Sends        (* bound: how many times transmit() is called               *)

ASSUME DriverAssumption ==
  FifoSize \in Nat /\ FifoSize > 3 /\ LengthLimit \in Nat /\ Arrivals \in Nat /\ Sends \in Nat

VARIABLES
  marc,      (* the chip's state                                           *)
  stays,     (* MCSM1, RXOFF_MODE: it goes on receiving after a packet     *)
  rx, tx,    (* its FIFOs                                                  *)
  air,       (* the packet it is receiving, or Silence                     *)
  antenna    (* RF_SW0 and GDO2 select the antenna                         *)

VARIABLES
  pc,        (* where the call in progress is                              *)
  back,      (* where startReceive() returns to                            *)
  relaxed,   (* relaxed_status_                                            *)
  length,    (* the length byte of the packet being read                   *)
  listening, (* the backend's _receiving                                   *)
  arrived, sent,   (* how many packets came, and calls of transmit()       *)
  got        (* history: the bytes that receive() returned last            *)

chipVars   == <<marc, stays, rx, tx, air, antenna>>
callVars   == <<back, relaxed, length, listening, arrived, sent, got>>
vars       == <<chipVars, pc, callVars>>

MarcStates == {"IDLE", "RX", "OVERFLOW", "FSTXON", "TX"}
Silence    == [id |-> 0, length |-> 0, at |-> 0]
Bad(n)     == n = 0 \/ n > FifoSize - 3

(* The byte of packet n at place k; the length byte is at 0, and two bytes *)
(* of status follow the payload.                                           *)
Byte(n, k, size) == [id |-> n, k |-> k, length |-> size]
OutByte(n, part) == [call |-> n, part |-> part]
Frame(n)         == <<OutByte(n, "length"), OutByte(n, "payload")>>
-----------------------------------------------------------------------------
(* The chip.                                                               *)

(* A sync word is found, of a packet or in the noise.                      *)
PacketBegins ==
  /\ marc = "RX" /\ air = Silence /\ arrived < Arrivals
  /\ arrived' = arrived + 1
  /\ \E n \in 0..LengthLimit : air' = [id |-> arrived', length |-> n, at |-> 0]
  /\ UNCHANGED <<marc, stays, rx, tx, antenna, pc, back, relaxed, length, listening, sent, got>>

ByteArrives ==
  /\ marc = "RX" /\ air # Silence /\ Len(rx) < FifoSize
  /\ rx' = Append(rx, Byte(air.id, air.at, air.length))
  /\ IF air.at < air.length + 2
     THEN air' = [air EXCEPT !.at = @ + 1] /\ UNCHANGED marc
     ELSE air' = Silence /\ marc' = IF stays THEN "RX" ELSE "IDLE"
  /\ UNCHANGED <<stays, tx, antenna, pc, callVars>>

Overflows ==
  /\ marc = "RX" /\ air # Silence /\ Len(rx) = FifoSize
  /\ marc' = "OVERFLOW" /\ air' = Silence
  /\ UNCHANGED <<stays, rx, tx, antenna, pc, callVars>>

FrameSent ==
  /\ marc = "TX"
  /\ marc' = "IDLE" /\ tx' = <<>>
  /\ UNCHANGED <<stays, rx, air, antenna, pc, callVars>>

SynthesizerReady ==
  /\ pc = "ready" /\ marc = "IDLE"
  /\ marc' = "FSTXON"
  /\ UNCHANGED <<stays, rx, tx, air, antenna, pc, callVars>>

ChipStep == PacketBegins \/ ByteArrives \/ Overflows \/ FrameSent \/ SynthesizerReady
-----------------------------------------------------------------------------
(* What the steps of calls have in common.                                 *)

(* From one place of a call to another; the places of a call that is over. *)
Goes(from, to) == pc = from /\ pc' = to
Throws(from)   == Goes(from, "threw") /\ UNCHANGED <<chipVars, callVars>>
Cancels(from)  == Goes(from, "cancelled") /\ UNCHANGED <<chipVars, callVars>>

Idles == marc' = "IDLE" /\ air' = Silence

(* standby().  An overflowed chip may take no notice of the strobe, which  *)
(* a driver that trusts the status registers waits out and throws.         *)
Standby(from, to) ==
  /\ \/ Idles /\ Goes(from, to)
     \/ marc = "OVERFLOW" /\ relaxed /\ UNCHANGED <<marc, air>> /\ Goes(from, to)
     \/ ~relaxed /\ (Idles \/ UNCHANGED <<marc, air>>) /\ Goes(from, "threw")
  /\ UNCHANGED <<stays, rx, tx, antenna, callVars>>

(* flushRx() idles first.                                                  *)
FlushRx(from, to) ==
  /\ Goes(from, to) /\ Idles /\ rx' = <<>>
  /\ UNCHANGED <<stays, tx, antenna, callVars>>

FlushTx(from, to) ==
  /\ Goes(from, to) /\ tx' = <<>>
  /\ UNCHANGED <<marc, stays, rx, air, antenna, callVars>>

SelectAntenna == antenna' = TRUE
-----------------------------------------------------------------------------
(* begin(): the chip is reset, probed and programmed.                      *)
Reset ==
  /\ Goes("closed", "probe")
  /\ marc' = "IDLE" /\ air' = Silence /\ rx' = <<>> /\ tx' = <<>>
  /\ stays' = FALSE /\ antenna' = FALSE
  /\ UNCHANGED callVars

(* Ten readings of the version tell how far its status can be trusted.     *)
Probe ==
  \/ Goes("probe", "program") /\ relaxed' \in BOOLEAN
     /\ UNCHANGED <<chipVars, back, length, listening, arrived, sent, got>>
  \/ Goes("probe", "cancelled") /\ UNCHANGED <<chipVars, callVars>>

(* persistentReceiveMcsm1(), as the packet mode and the profile write it.  *)
(* Mutant: RXOFF_MODE is left as the reset had it.                         *)
ReceiveOff        == UNCHANGED stays
PersistentReceive == stays' = TRUE

(* Each setting may leave the chip where its standby() timed out.          *)
Program ==
  /\ pc = "program"
  /\ \/ /\ pc' = "return" /\ PersistentReceive /\ SelectAntenna
     \/ /\ pc' = "cancelled" /\ stays' \in BOOLEAN /\ antenna' \in BOOLEAN
  /\ UNCHANGED <<marc, rx, tx, air, callVars>>

(* The caller of a begin() that fails gives the driver up, as if it had    *)
(* been cancelled.                                                         *)
BeginStep == Reset \/ Probe \/ Program
-----------------------------------------------------------------------------
(* startReceive()                                                          *)
CallStartReceive ==
  /\ pc \in {"return", "threw"} /\ pc' = "rxStandby"
  /\ back' = "listen" /\ listening' = FALSE
  /\ UNCHANGED <<chipVars, relaxed, length, arrived, sent, got>>

(* receive() restarts it.                                                  *)
Restarts(from, to) ==
  /\ Goes(from, "rxStandby") /\ back' = to
  /\ UNCHANGED <<chipVars, relaxed, length, listening, arrived, sent, got>>

RxStandby == Standby("rxStandby", "rxFlush") \/ Throws("rxStandby")

(* Mutant of RxFlush: the FIFO is not flushed.                             *)
RxNoFlush == Goes("rxFlush", "rxOn") /\ Idles /\ UNCHANGED <<stays, rx, tx, antenna, callVars>>
RxFlush   == FlushRx("rxFlush", "rxOn") \/ Throws("rxFlush")

RxOn ==
  \/ /\ pc = "rxOn" /\ marc' = "RX" /\ SelectAntenna
     /\ pc' = IF back = "listen" THEN "return" ELSE back
     /\ listening' = TRUE
     /\ UNCHANGED <<stays, rx, tx, air, back, relaxed, length, arrived, sent, got>>
  \/ Throws("rxOn")

StartReceiveStep == RxStandby \/ RxFlush \/ RxOn
-----------------------------------------------------------------------------
(* receive()                                                               *)
CallReceive ==
  /\ listening /\ Goes("return", "poll")
  /\ UNCHANGED <<chipVars, callVars>>

Poll ==
  \/ marc = "OVERFLOW" /\ Restarts("poll", "poll")
  \/ marc # "OVERFLOW" /\ rx # <<>> /\ Goes("poll", "length") /\ UNCHANGED <<chipVars, callVars>>
  \/ rx = <<>> /\ Goes("poll", "return") /\ UNCHANGED <<chipVars, callVars>>
  \/ Cancels("poll") \/ Throws("poll")

(* A byte that is no length byte would be taken for any length.            *)
LengthsRead(b) == IF b.k = 0 THEN {b.length} ELSE 0..LengthLimit

ReadLength ==
  \/ /\ pc = "length" /\ rx # <<>>
     /\ \E n \in LengthsRead(Head(rx)) :
          length' = n /\ pc' = IF Bad(n) THEN "drop" ELSE "body"
     /\ rx' = Tail(rx)
     /\ UNCHANGED <<marc, stays, tx, air, antenna, back, relaxed, listening, arrived, sent, got>>
  \/ Throws("length")

(* flushRx() before the restart of a packet that is given up.              *)
Drop     == FlushRx("drop", "restart") \/ Throws("drop")
Restart  == Restarts("restart", "poll")

(* waitForRxBytesAtLeast(), and the packet.                                *)
ReadBody ==
  \/ /\ Goes("body", "state") /\ marc # "OVERFLOW" /\ Len(rx) >= length + 2
     /\ got' = SubSeq(rx, 1, length + 2) /\ rx' = SubSeq(rx, length + 3, Len(rx))
     /\ UNCHANGED <<marc, stays, tx, air, antenna, back, relaxed, length, listening, arrived, sent>>
  \/ /\ Goes("body", "drop") /\ (marc = "OVERFLOW" \/ Len(rx) < length + 2)
     /\ UNCHANGED <<chipVars, callVars>>
  \/ Cancels("body") \/ Throws("body")

CheckState ==
  \/ marc = "RX" /\ Goes("state", "return") /\ UNCHANGED <<chipVars, callVars>>
  \/ marc # "RX" /\ Restarts("state", "listen")
  \/ Throws("state")

ReceiveStep == Poll \/ ReadLength \/ Drop \/ Restart \/ ReadBody \/ CheckState
-----------------------------------------------------------------------------
(* transmit()                                                              *)
CallTransmit ==
  /\ ~listening /\ sent < Sends /\ Goes("return", "txStandby")
  /\ sent' = sent + 1
  /\ UNCHANGED <<chipVars, back, relaxed, length, listening, arrived, got>>

TxStandby == Standby("txStandby", "txFlush") \/ Throws("txStandby")

TxFlush == FlushTx("txFlush", IF relaxed THEN "fill" ELSE "ready") \/ Throws("txFlush")

(* The synthesizer is waited for; IOCFG2 is taken from the antenna switch. *)
TxReady ==
  \/ /\ marc = "FSTXON" /\ Goes("ready", "fill") /\ antenna' = FALSE
     /\ UNCHANGED <<marc, stays, rx, tx, air, callVars>>
  \/ marc # "FSTXON" /\ Goes("ready", "giveUp") /\ UNCHANGED <<chipVars, callVars>>
  \/ Cancels("ready") \/ Throws("ready")

GiveUp == Standby("giveUp", "threw") \/ Throws("giveUp")

Fill(from, to, part) ==
  \/ /\ Goes(from, to) /\ tx' = Append(tx, OutByte(sent, part))
     /\ UNCHANGED <<marc, stays, rx, air, antenna, callVars>>
  \/ Throws(from)

(* Mutant of TxOn: the antenna is selected for the reception only.         *)
TxOnNoAntenna ==
  /\ Goes("txOn", "sleep") /\ marc' = "TX" /\ UNCHANGED <<stays, rx, tx, air, antenna, callVars>>

TxOn ==
  \/ /\ Goes("txOn", "sleep") /\ SelectAntenna /\ marc' = "TX"
     /\ UNCHANGED <<stays, rx, tx, air, callVars>>
  \/ Throws("txOn")

(* sleepForPacket() sleeps longer than the frame takes.                    *)
TxSleep ==
  \/ marc # "TX" /\ Goes("sleep", "quiet") /\ UNCHANGED <<chipVars, callVars>>
  \/ Cancels("sleep")

TxQuiet == Standby("quiet", "flush") \/ Throws("quiet")

TxEnd ==
  \/ /\ Goes("flush", "return") /\ tx' = <<>> /\ SelectAntenna
     /\ UNCHANGED <<marc, stays, rx, air, callVars>>
  \/ Throws("flush")

TransmitStep == \/ TxStandby \/ TxFlush \/ TxReady \/ GiveUp
                \/ Fill("fill", "fillRest", "length") \/ Fill("fillRest", "txOn", "payload")
                \/ TxOn \/ TxSleep \/ TxQuiet \/ TxEnd
-----------------------------------------------------------------------------
(* idle()                                                                  *)
CallIdle ==
  /\ Goes("return", "idleStandby")
  /\ UNCHANGED <<chipVars, callVars>>

IdleStandby == Standby("idleStandby", "idleFlush") \/ Throws("idleStandby")
IdleFlush   == FlushRx("idleFlush", "idleEnd") \/ Throws("idleFlush")

IdleEnd ==
  \/ /\ Goes("idleEnd", "return") /\ tx' = <<>> /\ SelectAntenna /\ listening' = FALSE
     /\ UNCHANGED <<marc, stays, rx, air, back, relaxed, length, arrived, sent, got>>
  \/ Throws("idleEnd")

IdleStep == IdleStandby \/ IdleFlush \/ IdleEnd

(* releaseHostControlLines(): the antenna switch goes, the chip is left.   *)
CallRelease ==
  /\ pc \in {"return", "threw", "cancelled"} /\ pc' = "closed"
  /\ antenna' = FALSE /\ listening' = FALSE
  /\ UNCHANGED <<marc, stays, rx, tx, air, back, relaxed, length, arrived, sent, got>>

Init ==
  /\ marc = "IDLE" /\ stays = FALSE /\ rx = <<>> /\ tx = <<>> /\ air = Silence
  /\ antenna = FALSE
  /\ pc = "closed" /\ back = "listen" /\ relaxed = FALSE /\ length = 0
  /\ listening = FALSE /\ arrived = 0 /\ sent = 0 /\ got = <<>>

Next ==
  \/ ChipStep \/ BeginStep
  \/ CallStartReceive \/ StartReceiveStep \/ CallReceive \/ ReceiveStep
  \/ CallTransmit \/ TransmitStep \/ CallIdle \/ IdleStep \/ CallRelease

Spec == Init /\ [][Next]_vars
-----------------------------------------------------------------------------
Cells    == [id : 1..Arrivals, k : Nat, length : 0..LengthLimit]
Airs     == [id : 0..Arrivals, length : 0..LengthLimit, at : Nat]
OutCells == [call : 1..Sends, part : {"length", "payload"}]
Pcs == {"closed", "probe", "program", "return", "threw", "cancelled",
        "rxStandby", "rxFlush", "rxOn", "poll", "length", "drop", "restart", "body", "state",
        "txStandby", "txFlush", "ready", "giveUp", "fill", "fillRest", "txOn", "sleep",
        "quiet", "flush", "idleStandby", "idleFlush", "idleEnd"}

(* The type invariant.                                                     *)
DriverTypeOK ==
  /\ marc \in MarcStates /\ stays \in BOOLEAN /\ antenna \in BOOLEAN
  /\ rx \in Seq(Cells) /\ tx \in Seq(OutCells)
  /\ air \in Airs
  /\ pc \in Pcs /\ back \in {"listen", "poll"} /\ relaxed \in BOOLEAN
  /\ length \in 0..LengthLimit /\ listening \in BOOLEAN
  /\ arrived \in 0..Arrivals /\ sent \in 0..Sends /\ got \in Seq(Cells)

(* Whatever receive() returns is one packet, whole and from its start, and *)
(* a later one than it returned before: an overflow, a packet cut short, a *)
(* bad length and a restart in between never put two packets into one      *)
(* (cc1101.cpp:603-672, the rxFifoOverflowed() cases and the restarts).    *)
ReturnsPackets ==
  [][got' # got =>
       /\ \A i \in DOMAIN got' : got'[i] = Byte(got'[1].id, i, Len(got') - 2)
       /\ got # <<>> => got'[1].id > got[1].id]_vars

(* What goes on the air is the frame of the call in progress or last made, *)
(* from its first byte and through the antenna, whatever an earlier call   *)
(* that failed, or was cancelled, left in the FIFO (cc1101.cpp:755-820).   *)
SendsOwnFrame == marc = "TX" /\ pc # "closed" => tx = Frame(sent) /\ antenna

(* Between calls the chip does what was asked of it: it listens, through   *)
(* the antenna, from a startReceive() on for as long as packets come, and  *)
(* is idle and empty after an idle() or a transmit() that returned         *)
(* (cc1101.cpp:374-384, 544-561, 658-669, 814-819).                        *)
DoesAsAsked ==
  pc = "return" =>
    /\ antenna
    /\ IF listening THEN marc \in {"RX", "OVERFLOW"}
                    ELSE marc = "IDLE" /\ rx = <<>> /\ tx = <<>>
=============================================================================
