---------------------------- MODULE LinuxBackend ----------------------------
(***************************************************************************)
(* The Linux backend, src/src/radio/linux_cc1101_backend.cpp: open(), which *)
(* powers the cap, opens the bus and sets up the radio, close(), which     *)
(* undoes it, and the two calls that change whether it receives.  The      *)
(* radio object is here what open() and close() see of it: the two GPIO    *)
(* lines it holds (begin() and releaseHostControlLines() of                *)
(* driver/cc1101.cpp, through gpio_line.cpp).                              *)
(*                                                                         *)
(* All calls come from the worker's thread.  A step is one external        *)
(* command, as in CapPower, which this module extends.  Every step of      *)
(* open() may fail or be cancelled, and the difference between the two,    *)
(* which exception leaves open(), is left out.                             *)
(***************************************************************************)
EXTENDS CapPower

VARIABLES
  open, listening,    (* _open and _receiving                              *)
  radio, spi,         (* _radio and _spi exist                             *)
  bpc,                (* where the call in progress is                     *)
  closer              (* which call the close() in progress is part of     *)

VARIABLE foundRail    (* history: EXT5V as the program found it            *)

busVars     == <<radio, spi>>
flagVars    == <<open, listening>>
callVars    == <<bpc, closer>>
backendVars == <<flagVars, busVars, callVars, foundRail>>
linuxVars   == <<powerVars, backendVars>>

Closers == {"none", "open", "failure", "caller"}
ClosePcs == {"close", "closeLow", "closeGdo0", "closeSwitch", "closeBus", "closePower"}
OpenPcs  == {"openSleep", "openPower", "openSettle", "openSpi", "beginSwitch",
             "beginGdo0", "configure", "openInfo"}

LinuxInit ==
  /\ PowerInit
  /\ open = FALSE /\ listening = FALSE /\ radio = FALSE /\ spi = FALSE
  /\ bpc = "idle" /\ closer = "none"
  /\ foundRail = rail

BeginClose(why) == bpc' = "close" /\ closer' = why

Then(p) == bpc' = p /\ UNCHANGED closer
-----------------------------------------------------------------------------
(* close().  RF_SW0 (G14) is driven low, which requests the line if it is  *)
(* not held; then GDO0 (G15) and RF_SW0 are released.                      *)

(* Mutant of CloseRadio: _receiving is not reset.                          *)
StillReceiving ==
  /\ bpc = "close"
  /\ Then(IF radio THEN "closeLow" ELSE "closeBus")
  /\ UNCHANGED <<powerVars, flagVars, busVars, foundRail>>

(* Mutant of CloseRadio: the power goes while the radio holds its lines.   *)
PowerGoesFirst ==
  /\ bpc = "close"
  /\ listening' = FALSE
  /\ Then("closeBus")
  /\ UNCHANGED <<powerVars, open, busVars, foundRail>>

CloseRadio ==
  /\ bpc = "close"
  /\ listening' = FALSE
  /\ Then(IF radio THEN "closeLow" ELSE "closeBus")
  /\ UNCHANGED <<powerVars, open, busVars, foundRail>>

SwitchLow ==
  /\ bpc = "closeLow"
  /\ \/ PinctrlSet("G14", OutLow) /\ lines' = lines \cup {"G14"}
     \/ UNCHANGED <<pin, lines>>
  /\ Then("closeGdo0")
  /\ UNCHANGED <<idleVars, flagVars, busVars, foundRail>>

Release(g) ==
  /\ IF g \in lines THEN Released(g, pin[g]) ELSE UNCHANGED pin
  /\ lines' = lines \ {g}

ReleaseGdo0 ==
  /\ bpc = "closeGdo0"
  /\ Release("G15")
  /\ Then("closeSwitch")
  /\ UNCHANGED <<idleVars, flagVars, busVars, foundRail>>

ReleaseSwitch ==
  /\ bpc = "closeSwitch"
  /\ Release("G14")
  /\ radio' = FALSE
  /\ Then("closeBus")
  /\ UNCHANGED <<idleVars, flagVars, spi, foundRail>>

CloseBus ==
  /\ bpc = "closeBus"
  /\ spi' = FALSE
  /\ BeginDisable("preserve")
  /\ Then("closePower")
  /\ UNCHANGED <<pin, lines, rail, enabled, gpio26Requested, ext5vVars, pinVars,
                 outside, originalRail, flagVars, radio, foundRail>>

EndClose ==
  /\ bpc = "closePower" /\ pc = "idle"
  /\ open' = FALSE
  /\ bpc' = IF closer = "open" THEN "openSleep" ELSE "idle"
  /\ closer' = "none"
  /\ UNCHANGED <<powerVars, listening, busVars, foundRail>>

CallClose ==
  /\ bpc = "idle"
  /\ BeginClose("caller")
  /\ UNCHANGED <<powerVars, flagVars, busVars, foundRail>>
-----------------------------------------------------------------------------
(* open().  It closes first; from then on a failure closes again.          *)
CallOpen ==
  /\ bpc = "idle"
  /\ BeginClose("open")
  /\ UNCHANGED <<powerVars, flagVars, busVars, foundRail>>

Fails == BeginClose("failure")

(* Two sleeps: one before and one inside the try block.                    *)
OpenSleep ==
  /\ bpc = "openSleep"
  /\ \/ CallEnable /\ Then("openPower")
     \/ Then("idle") /\ UNCHANGED powerVars
     \/ Fails /\ UNCHANGED powerVars
  /\ UNCHANGED <<flagVars, busVars, foundRail>>

OpenPowered ==
  /\ bpc = "openPower" /\ pc = "idle"
  /\ IF enabled THEN Then("openSettle") ELSE Fails
  /\ UNCHANGED <<powerVars, flagVars, busVars, foundRail>>

OpenSettle ==
  /\ bpc = "openSettle"
  /\ Then("openSpi") \/ Fails
  /\ UNCHANGED <<powerVars, flagVars, busVars, foundRail>>

(* The radio object is made once the bus is open.                          *)
OpenSpi ==
  /\ bpc = "openSpi"
  /\ spi' = TRUE
  /\ \/ radio' = TRUE /\ (Then("beginSwitch") \/ Fails)
     \/ UNCHANGED radio /\ Fails
  /\ UNCHANGED <<powerVars, flagVars, foundRail>>

(* begin(): RF_SW0 as an output, low at first, then GDO0 as an input, which *)
(* is requested twice, so that a failure may leave it changed and not held. *)
Request(g, fn, next) ==
  \/ /\ PinctrlSet(g, fn) /\ lines' = lines \cup {g}
     /\ Then(next) \/ Fails
  \/ PinctrlFails(g, fn) /\ UNCHANGED lines /\ Fails

BeginSwitch ==
  /\ bpc = "beginSwitch"
  /\ Request("G14", OutLow, "beginGdo0")
  /\ UNCHANGED <<idleVars, flagVars, busVars, foundRail>>

BeginGdo0 ==
  /\ bpc = "beginGdo0"
  /\ Request("G15", Input, "configure")
  /\ UNCHANGED <<idleVars, flagVars, busVars, foundRail>>

(* The rest of begin(): reset, probe, registers, and RF_SW0 high.          *)
Configure ==
  /\ bpc = "configure"
  /\ Request("G14", OutHigh, "openInfo")
  /\ UNCHANGED <<idleVars, flagVars, busVars, foundRail>>

(* Mutant of OpenInfo: a cancellation after _open is set is not cleaned up. *)
OpenInfoNoCleanup ==
  /\ bpc = "openInfo"
  /\ open' \in BOOLEAN
  /\ Then("idle")
  /\ UNCHANGED <<powerVars, listening, busVars, foundRail>>

(* The last read may throw; a cancellation is noticed after _open is set.  *)
OpenInfo ==
  /\ bpc = "openInfo"
  /\ \/ open' = TRUE /\ (Then("idle") \/ Fails)
     \/ UNCHANGED open /\ Fails
  /\ UNCHANGED <<powerVars, listening, busVars, foundRail>>
-----------------------------------------------------------------------------
(* requireOpen(); a call that it refuses changes nothing.                  *)
RequireOpen == open /\ radio /\ spi

(* startReceive() of an open backend: it returns or it throws.  Cancelled, *)
(* it leaves the flag alone.                                               *)
StartReceive ==
  /\ bpc = "idle" /\ RequireOpen
  /\ listening' \in BOOLEAN
  /\ UNCHANGED <<powerVars, open, busVars, callVars, foundRail>>

(* stopReceive(): one that throws leaves the flag alone.                   *)
StopReceive ==
  /\ bpc = "idle" /\ RequireOpen
  /\ listening' = FALSE
  /\ UNCHANGED <<powerVars, open, busVars, callVars, foundRail>>

Powering ==
  /\ bpc \in {"openPower", "closePower"}
  /\ PowerStep
  /\ UNCHANGED backendVars

CloseStep == \/ CloseRadio \/ SwitchLow \/ ReleaseGdo0 \/ ReleaseSwitch
             \/ CloseBus \/ EndClose
OpenStep  == \/ OpenSleep \/ OpenPowered \/ OpenSettle \/ OpenSpi
             \/ BeginSwitch \/ BeginGdo0 \/ Configure \/ OpenInfo

LinuxNext == \/ CallOpen \/ CallClose \/ OpenStep \/ CloseStep \/ Powering
             \/ StartReceive \/ StopReceive

LinuxSpec == LinuxInit /\ [][LinuxNext]_linuxVars
-----------------------------------------------------------------------------
(* The type invariant.                                                     *)
BackendTypes ==
  /\ open \in BOOLEAN /\ listening \in BOOLEAN
  /\ radio \in BOOLEAN /\ spi \in BOOLEAN /\ foundRail \in BOOLEAN
  /\ bpc \in {"idle"} \cup OpenPcs \cup ClosePcs /\ closer \in Closers

LinuxTypeOK == PowerTypeOK /\ BackendTypes

(* The backend is the user of the power object that CapPower describes: it *)
(* uses the pins only while the cap is powered, and releases them before   *)
(* the power is taken away, whichever step of open() failed.               *)
PowerUsedAsSpecified == PowerSpec

(* The backend keeps what RadioWorker relies on.                           *)
Contract == INSTANCE RadioBackend WITH receiving <- listening
KeepsContract == Contract!Spec

(* Between calls the backend is open as a whole or closed as a whole: after *)
(* a failure or a cancellation at any step, and any close(), there is no   *)
(* radio, no bus, no line held and no power; and an open backend has all.  *)
WholeOrNothing ==
  bpc = "idle" =>
    IF open THEN radio /\ spi /\ enabled /\ RadioPins \subseteq lines
            ELSE ~radio /\ ~spi /\ ~enabled /\ lines = {} /\ ~listening

(* "the app restores the pinmux and EXT5V state it changed before          *)
(* returning to APPLaunch" (README.md:65): a closed backend that has       *)
(* nothing left to restore has left EXT5V as the program found it.         *)
Ext5vRestored ==
  bpc = "idle" /\ ~open /\ ~Unclean /\ ledClass => rail = foundRail
-----------------------------------------------------------------------------
(* The inductive strengthening, proved in LinuxBackendProofs.              *)

RadioPcs   == {"beginSwitch", "beginGdo0", "configure", "openInfo",
               "closeLow", "closeGdo0", "closeSwitch"}
NoRadioPcs == {"closeBus", "closePower", "openSleep", "openPower", "openSettle",
               "openSpi"}

(* When the power object is called, and what it is found or left as.       *)
PowerShape ==
  /\ bpc \notin {"openPower", "closePower"} => pc = "idle"
  /\ bpc = "closePower" => IF pc = "idle" THEN ~enabled
                           ELSE pc \in DisablePcs /\ purpose = "preserve"
  /\ bpc = "openSleep" => ~enabled
  /\ bpc \in {"openSettle", "openSpi"} => enabled

(* The radio exists on an open bus of a powered cap, and only the radio    *)
(* holds lines of the radio pins.                                          *)
RadioShape ==
  /\ radio => enabled /\ spi
  /\ ~radio => lines \cap RadioPins = {}
  /\ bpc \in RadioPcs => radio
  /\ bpc \in NoRadioPcs => ~radio
  /\ bpc \in NoRadioPcs \ {"closeBus"} => ~spi
  /\ bpc = "beginGdo0" => "G14" \in lines
  /\ bpc \in {"configure", "openInfo"} => RadioPins \subseteq lines
  /\ bpc = "closeSwitch" => "G15" \notin lines

FlagShape ==
  /\ open => bpc \in {"idle"} \cup ClosePcs
  /\ listening => open /\ bpc \in {"idle", "close"}
  /\ bpc = "idle" /\ open => radio /\ RadioPins \subseteq lines
  /\ bpc = "idle" /\ ~open => ~radio /\ ~spi /\ ~enabled

LinuxInv == PowerInv /\ BackendTypes /\ PowerShape /\ RadioShape /\ FlagShape
=============================================================================
