------------------------------ MODULE CapPower ------------------------------
(***************************************************************************)
(* The power control of the cap, src/src/hal/cardputerzero_cc1101_power.cpp *)
(* with pinctrl_state.cpp: enable() and disable() of                       *)
(* CardputerZeroCc1101Power, the three pins it sets with pinctrl, the GPIO *)
(* line it requests, and the EXT5V supply that it switches through an LED  *)
(* class device or, without one, through a GPIO line.                      *)
(*                                                                         *)
(* Every one of these may fail, and a command that failed or was killed    *)
(* may have had its effect all the same.  The object remembers what it     *)
(* changed and has not restored; one that is destroyed forgets it.         *)
(*                                                                         *)
(* All calls come from one thread, so an action is one external command    *)
(* and what the code does up to the next.  The actions of the caller are   *)
(* those of any user of the object; LinuxBackend is the one it has.        *)
(***************************************************************************)
EXTENDS Sequences

CONSTANT PinFns   (* the functions a pin can have, with the level it drives *)

CapGpios  == <<"G14", "G15", "G26">>
Pins      == {"G14", "G15", "G26"}
RadioPins == {"G14", "G15"}
Ext5vLine == "ext5v"   (* line 12 of gpiochip1 *)

Input    == "ip"
OutLow   == "op dl"
OutHigh  == "op dh"
AltRadio == "a5"

ASSUME PinFnsAssumption == {Input, OutLow, OutHigh, AltRadio} \subseteq PinFns

VARIABLES
  pin,        (* the function of each pin                                  *)
  lines,      (* the GPIO lines the process holds                          *)
  rail,       (* EXT5V is on                                               *)
  ledClass    (* the board has the ext_5v_out LED class device             *)

VARIABLES
  enabled, gpio26Requested, ext5vControl, ext5vRestoreNeeded,
  previousExt5v,      (* previous_ext5v_brightness is not 0                *)
  previousPin,        (* previous_pinctrl_states                           *)
  restorePending,     (* the pins whose pinctrl_restore_pending is set     *)
  restoreNeeded,      (* pinctrl_restore_needed                            *)
  pc,                 (* where the call in progress is                     *)
  purpose,            (* what the disable() in progress is for             *)
  todo                (* the pins left in the loop in progress             *)

(* History: the pins and the supply as they are to be left.                *)
VARIABLES originalPin, originalRail

ext5vVars == <<ext5vControl, ext5vRestoreNeeded, previousExt5v>>
pinVars   == <<previousPin, restorePending, restoreNeeded>>
control   == <<pc, purpose, todo>>
outside   == <<ledClass, originalPin>>
powerVars == <<pin, lines, rail, enabled, gpio26Requested, ext5vVars, pinVars,
               control, outside, originalRail>>

Purposes == {"none", "retry", "failed", "restore", "preserve"}
PowerPcs == {"idle", "snapshot", "set", "request26", "ext5v", "release26",
             "ext5vOff", "restore"}

PowerInit ==
  /\ pin \in [Pins -> PinFns] /\ originalPin = pin
  /\ rail \in BOOLEAN /\ originalRail = rail
  /\ ledClass \in BOOLEAN
  /\ lines = {}
  /\ enabled = FALSE /\ gpio26Requested = FALSE
  /\ ext5vControl = "None" /\ ext5vRestoreNeeded = FALSE /\ previousExt5v = FALSE
  /\ previousPin = pin   (* not read before a snapshot sets it *)
  /\ restorePending = {} /\ restoreNeeded = FALSE
  /\ pc = "idle" /\ purpose = "none" /\ todo = <<>>
-----------------------------------------------------------------------------
(* runPinctrl() of a set command, which a failing, killed or timed out     *)
(* child may have carried out.                                             *)
PinctrlSet(g, fn)   == pin' = [pin EXCEPT ![g] = fn]
PinctrlFails(g, fn) == PinctrlSet(g, fn) \/ UNCHANGED pin

(* What the pin of a GPIO line may be once the line is released.           *)
Released(g, driven) == \E fn \in {pin[g], driven, Input} : pin' = [pin EXCEPT ![g] = fn]

(* What enable() calls incomplete cleanup.                                 *)
Unclean == restoreNeeded \/ ext5vControl # "None" \/ gpio26Requested

BeginDisable(why) == pc' = "release26" /\ purpose' = why /\ UNCHANGED todo

Return == pc' = "idle" /\ purpose' = "none" /\ todo' = <<>>
-----------------------------------------------------------------------------
(* enable().                                                               *)

(* Mutant of BeginEnable: what is left from before is not cleaned up.      *)
BeginEnableAnyway ==
  /\ pc' = "snapshot" /\ UNCHANGED <<purpose, todo>>
  /\ UNCHANGED <<pin, lines, rail, enabled, gpio26Requested, ext5vVars, pinVars,
                 outside, originalRail>>

(* enable() from its first line to its first command; with enabled set it  *)
(* returns at once, which changes nothing.                                 *)
BeginEnable ==
  /\ IF Unclean THEN BeginDisable("retry")
                ELSE pc' = "snapshot" /\ UNCHANGED <<purpose, todo>>
  /\ UNCHANGED <<pin, lines, rail, enabled, gpio26Requested, ext5vVars, pinVars,
                 outside, originalRail>>

(* The three pins are read before any is changed.  A read that fails or    *)
(* cannot be parsed ends the call.                                         *)
Snapshot ==
  /\ pc = "snapshot"
  /\ \/ /\ previousPin' = pin
        /\ restorePending' = Pins /\ restoreNeeded' = TRUE
        /\ pc' = "set" /\ todo' = CapGpios /\ UNCHANGED purpose
     \/ Return /\ UNCHANGED pinVars
  /\ UNCHANGED <<pin, lines, rail, enabled, gpio26Requested, ext5vVars,
                 outside, originalRail>>

Configured(g) == IF g = "G26" THEN OutHigh ELSE AltRadio

SetPin ==
  /\ pc = "set"
  /\ LET g == Head(todo) IN
     \/ /\ PinctrlSet(g, Configured(g))
        /\ todo' = Tail(todo)
        /\ pc' = IF Tail(todo) = <<>> THEN "request26" ELSE "set"
        /\ UNCHANGED purpose
     \/ PinctrlFails(g, Configured(g)) /\ BeginDisable("failed")
  /\ UNCHANGED <<lines, rail, enabled, gpio26Requested, ext5vVars, pinVars,
                 outside, originalRail>>

(* Mutant of RequestGpio26: the request is noted once it has succeeded.    *)
NoteAfterRequest ==
  /\ pc = "request26"
  /\ \/ /\ lines' = lines \cup {"G26"} /\ PinctrlSet("G26", OutHigh)
        /\ \/ pc' = "ext5v" /\ gpio26Requested' = TRUE /\ UNCHANGED <<purpose, todo>>
           \/ BeginDisable("failed") /\ UNCHANGED gpio26Requested
     \/ UNCHANGED <<lines, pin, gpio26Requested>> /\ BeginDisable("failed")
  /\ UNCHANGED <<rail, enabled, ext5vVars, pinVars, outside, originalRail>>

(* GPIO26 is requested as an output and driven high.  The request may fail, *)
(* and so may the write that follows it.                                   *)
RequestGpio26 ==
  /\ pc = "request26"
  /\ gpio26Requested' = TRUE
  /\ \/ /\ lines' = lines \cup {"G26"} /\ PinctrlSet("G26", OutHigh)
        /\ \/ pc' = "ext5v" /\ UNCHANGED <<purpose, todo>>
           \/ BeginDisable("failed")
     \/ UNCHANGED <<lines, pin>> /\ BeginDisable("failed")
  /\ UNCHANGED <<rail, enabled, ext5vVars, pinVars, outside, originalRail>>

Enabled == enabled' = TRUE /\ Return

(* Mutant of SwitchOn: the former state is owned only after the write.     *)
OwnAfterWrite ==
  \/ rail' \in BOOLEAN /\ ext5vRestoreNeeded' = TRUE /\ Enabled
  \/ /\ rail' \in BOOLEAN /\ UNCHANGED <<ext5vRestoreNeeded, enabled>>
     /\ BeginDisable("failed")

(* The write of the LED class attribute.  One that succeeds may leave the  *)
(* supply off, one that fails may have switched it on; cleanup owns the    *)
(* former state before the write.                                          *)
SwitchOn ==
  /\ ext5vRestoreNeeded' = TRUE
  /\ rail' \in BOOLEAN
  /\ Enabled \/ (BeginDisable("failed") /\ UNCHANGED enabled)

EnableLedClass ==
  /\ pc = "ext5v" /\ ledClass
  /\ \/ /\ ext5vControl' = "LedClass" /\ previousExt5v' = rail
        /\ IF rail THEN Enabled /\ UNCHANGED <<rail, ext5vRestoreNeeded>>
                   ELSE SwitchOn
     \/ BeginDisable("failed") /\ UNCHANGED <<ext5vVars, rail, enabled>>
  /\ UNCHANGED <<pin, lines, gpio26Requested, pinVars, outside, originalRail>>

EnableLegacyGpio ==
  /\ pc = "ext5v" /\ ~ledClass
  /\ ext5vControl' = "LegacyGpio"
  /\ \/ /\ lines' = lines \cup {Ext5vLine} /\ rail' = TRUE
        /\ Enabled \/ (BeginDisable("failed") /\ UNCHANGED enabled)
     \/ BeginDisable("failed") /\ UNCHANGED <<lines, rail, enabled>>
  /\ UNCHANGED <<pin, gpio26Requested, ext5vRestoreNeeded, previousExt5v, pinVars,
                 outside, originalRail>>
-----------------------------------------------------------------------------
(* disable().                                                              *)

(* GPIO26 is driven low, if it can be, and released.                       *)
ReleaseGpio26 ==
  /\ pc = "release26"
  /\ IF gpio26Requested THEN Released("G26", OutLow) ELSE UNCHANGED pin
  /\ lines' = lines \ {"G26"}
  /\ gpio26Requested' = FALSE
  /\ pc' = "ext5vOff"
  /\ UNCHANGED <<rail, enabled, ext5vVars, pinVars, purpose, todo, outside, originalRail>>

BeginRestore ==
  /\ pc' = "restore" /\ UNCHANGED purpose
  /\ todo' = IF restoreNeeded THEN CapGpios ELSE <<>>

(* The LED class device is left on for the next application, or written    *)
(* back; a write that fails is left to the next disable().                 *)
LedClassOff ==
  /\ pc = "ext5vOff" /\ ext5vControl = "LedClass" /\ ext5vRestoreNeeded
  /\ \/ /\ purpose = "preserve"
        /\ originalRail' = rail /\ UNCHANGED rail
        /\ ext5vRestoreNeeded' = FALSE /\ ext5vControl' = "None"
     \/ /\ purpose # "preserve"
        /\ rail' = previousExt5v
        /\ ext5vRestoreNeeded' = FALSE /\ ext5vControl' = "None"
        /\ UNCHANGED originalRail
     \/ /\ purpose # "preserve"
        /\ rail' \in {rail, previousExt5v}
        /\ UNCHANGED <<ext5vRestoreNeeded, ext5vControl, originalRail>>
  /\ BeginRestore
  /\ UNCHANGED <<pin, lines, enabled, gpio26Requested, previousExt5v, pinVars, outside>>

(* The line is driven low and released; if it cannot be driven low it is   *)
(* released all the same, and the next disable() tries again.              *)
LegacyGpioOff ==
  /\ pc = "ext5vOff" /\ ext5vControl = "LegacyGpio"
  /\ \/ rail' = FALSE /\ ext5vControl' = "None"
     \/ rail' \in {rail, FALSE} /\ UNCHANGED ext5vControl
  /\ lines' = lines \ {Ext5vLine}
  /\ BeginRestore
  /\ UNCHANGED <<pin, enabled, gpio26Requested, ext5vRestoreNeeded, previousExt5v,
                 pinVars, outside, originalRail>>

NothingToSwitchOff ==
  /\ pc = "ext5vOff"
  /\ ext5vControl = "None" \/ (ext5vControl = "LedClass" /\ ~ext5vRestoreNeeded)
  /\ ext5vControl' = "None"
  /\ BeginRestore
  /\ UNCHANGED <<pin, lines, rail, enabled, gpio26Requested, ext5vRestoreNeeded,
                 previousExt5v, pinVars, outside, originalRail>>

RestorePin ==
  /\ pc = "restore" /\ todo # <<>>
  /\ LET g == Head(todo) IN
     \/ /\ g \in restorePending
        /\ \/ PinctrlSet(g, previousPin[g]) /\ restorePending' = restorePending \ {g}
           \/ PinctrlFails(g, previousPin[g]) /\ UNCHANGED restorePending
     \/ g \notin restorePending /\ UNCHANGED <<pin, restorePending>>
  /\ todo' = Tail(todo)
  /\ UNCHANGED <<lines, rail, enabled, gpio26Requested, ext5vVars, previousPin,
                 restoreNeeded, pc, purpose, outside, originalRail>>

(* The end of disable(), and what enable() does after one it called.       *)
EndDisable ==
  /\ pc = "restore" /\ todo = <<>>
  /\ restoreNeeded' = (restoreNeeded /\ restorePending # {})
  /\ enabled' = FALSE
  /\ IF purpose = "retry" /\ ~restoreNeeded' /\ ext5vControl = "None"
     THEN pc' = "snapshot" /\ purpose' = "none" /\ UNCHANGED todo
     ELSE Return
  /\ UNCHANGED <<pin, lines, rail, gpio26Requested, ext5vVars, previousPin,
                 restorePending, outside, originalRail>>
-----------------------------------------------------------------------------
(* The caller.  It requests lines of the radio pins, which sets what they  *)
(* are, only while the cap is enabled, and releases them before it         *)
(* disables it.                                                            *)

CallEnable == pc = "idle" /\ ~enabled /\ BeginEnable

CallDisable(preserve) ==
  /\ pc = "idle" /\ lines \cap RadioPins = {}
  /\ BeginDisable(IF preserve THEN "preserve" ELSE "restore")
  /\ UNCHANGED <<pin, lines, rail, enabled, gpio26Requested, ext5vVars, pinVars,
                 outside, originalRail>>

idleVars == <<rail, enabled, gpio26Requested, ext5vVars, pinVars, control, outside,
              originalRail>>

UseLine(g) ==
  /\ pc = "idle" /\ enabled
  /\ \E fn \in PinFns : PinctrlSet(g, fn)
  /\ lines' \in {lines, lines \cup {g}}
  /\ UNCHANGED idleVars

ReleaseLine(g) ==
  /\ pc = "idle" /\ enabled
  /\ \E fn \in PinFns : PinctrlSet(g, fn)
  /\ lines' = lines \ {g}
  /\ UNCHANGED idleVars

EnableStep  == \/ Snapshot \/ SetPin \/ RequestGpio26 \/ EnableLedClass
               \/ EnableLegacyGpio
DisableStep == \/ ReleaseGpio26 \/ LedClassOff \/ LegacyGpioOff
               \/ NothingToSwitchOff \/ RestorePin \/ EndDisable
PowerStep   == EnableStep \/ DisableStep

PowerNext == \/ PowerStep \/ CallEnable
             \/ \E preserve \in BOOLEAN : CallDisable(preserve)
             \/ \E g \in RadioPins : UseLine(g) \/ ReleaseLine(g)

PowerSpec == PowerInit /\ [][PowerNext]_powerVars
-----------------------------------------------------------------------------
(* The type invariant; the object knows of the line it holds.              *)
PinTypes ==
  /\ pin \in [Pins -> PinFns] /\ originalPin \in [Pins -> PinFns]
  /\ previousPin \in [Pins -> PinFns]
  /\ lines \subseteq Pins \cup {Ext5vLine}
  /\ restorePending \subseteq Pins
  /\ "G26" \in lines => gpio26Requested

FlagTypes ==
  /\ rail \in BOOLEAN /\ originalRail \in BOOLEAN /\ ledClass \in BOOLEAN
  /\ enabled \in BOOLEAN /\ gpio26Requested \in BOOLEAN
  /\ ext5vRestoreNeeded \in BOOLEAN /\ previousExt5v \in BOOLEAN
  /\ restoreNeeded \in BOOLEAN

ControlTypes ==
  /\ ext5vControl \in {"None", "LedClass", "LegacyGpio"}
  /\ pc \in PowerPcs /\ purpose \in Purposes

PowerTypeOK ==
  /\ PinTypes /\ FlagTypes /\ ControlTypes
  /\ todo \in Seq(Pins) /\ (pc = "set" => todo # <<>>)

(* Through any sequence of failing enables, failing disables and retries,  *)
(* a pin that is not as the program found it is one that the next          *)
(* disable() restores, and what it restores is what the program found, not *)
(* what an earlier attempt left.                                           *)
PinsAreRemembered ==
  /\ \A g \in Pins : pin[g] # originalPin[g]
                       => g \in restorePending /\ previousPin[g] = originalPin[g]
  /\ restorePending # {} => restoreNeeded

(* The same of the supply: if EXT5V is not as it is to be left, the LED    *)
(* class device is to be written back to that; and a legacy line that is   *)
(* held is one that the next disable() releases.                           *)
RailIsRemembered ==
  /\ ledClass /\ rail # originalRail
       => ext5vControl = "LedClass" /\ ext5vRestoreNeeded /\ previousExt5v = originalRail
  /\ Ext5vLine \in lines => ext5vControl = "LegacyGpio"

(* No pin is restored while the process still holds its line, which would  *)
(* take it back (the comment at line 339).                                 *)
RestoredWhenReleased ==
  [][\A g \in restorePending \ restorePending' : g \notin lines]_powerVars

(* enable() succeeds only as a whole: an enabled cap has its line, a way   *)
(* to switch the supply, and every pin still to be restored.               *)
EnabledAsAWhole ==
  enabled /\ pc = "idle"
    => "G26" \in lines /\ ext5vControl # "None" /\ restorePending = Pins
-----------------------------------------------------------------------------
(* The inductive strengthening, proved in LinuxBackendProofs.              *)

DisablePcs == {"release26", "ext5vOff", "restore"}
SetupPcs   == {"set", "request26", "ext5v"}

(* What enable() holds at each of its steps, and what disable() has given  *)
(* up at each of its own.                                                  *)
LinesShape ==
  /\ pc # "idle" \/ ~enabled => lines \cap RadioPins = {}
  /\ ~enabled /\ pc \in {"idle", "snapshot", "set", "request26"} => lines = {}
  /\ pc = "ext5v" => lines = {"G26"} /\ gpio26Requested
  /\ pc \in {"ext5vOff", "restore"} => "G26" \notin lines /\ ~gpio26Requested
  /\ pc = "restore" => Ext5vLine \notin lines
  /\ ~enabled /\ pc = "idle" => ~gpio26Requested
  /\ pc \in {"snapshot", "set", "request26"} => ~gpio26Requested

(* The snapshot is always of the pins as the program found them, because   *)
(* one is taken only when nothing is pending.                              *)
PinShape ==
  /\ previousPin = originalPin
  /\ \A g \in Pins : pin[g] # originalPin[g] => g \in restorePending
  /\ restorePending # {} => restoreNeeded
  /\ pc = "snapshot" => restorePending = {}
  /\ pc \in SetupPcs \/ gpio26Requested => restorePending = Pins
  /\ pc \in SetupPcs \cup {"snapshot"} => ~enabled
  /\ pc = "idle" /\ enabled => gpio26Requested /\ "G26" \in lines /\ ext5vControl # "None"

RailShape ==
  /\ pc \in SetupPcs \cup {"snapshot"} => ext5vControl = "None"
  /\ ext5vControl = "LegacyGpio" => ~ledClass
  /\ ext5vControl = "LedClass" => ledClass
  /\ ext5vRestoreNeeded => ext5vControl = "LedClass" /\ previousExt5v = originalRail
  /\ ledClass /\ rail # originalRail => ext5vRestoreNeeded
  /\ Ext5vLine \in lines => ext5vControl = "LegacyGpio"

PowerInv == PowerTypeOK /\ LinesShape /\ PinShape /\ RailShape
=============================================================================
