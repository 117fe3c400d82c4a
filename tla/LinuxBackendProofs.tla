------------------------- MODULE LinuxBackendProofs -------------------------
(***************************************************************************)
(* Theorems about the Linux backend, the power object that it uses and the *)
(* pinctrl children that this starts, for every set of pin functions:      *)
(*   - CapPower's invariants hold of every user of the power object;       *)
(*   - LinuxBackend uses it as CapPower allows, keeps what RadioWorker     *)
(*     relies on, and is open or closed as a whole between calls;          *)
(*   - a command that has returned has no effect any more, so that         *)
(*     CapPower may have it as one step: PinctrlChild, where its child is  *)
(*     waited for, implements LinuxBackend.                                *)
(***************************************************************************)
EXTENDS PinctrlChild, TLAPS

-----------------------------------------------------------------------------
(* The power object.  PowerInv is inductive; there is one lemma per        *)
(* action, with one step per part of PowerInv.                             *)

(* The names of the pins, functions and steps, and the tuples of variables. *)
USE DEF Pins, RadioPins, Ext5vLine, Input, OutLow, OutHigh, AltRadio,
        Purposes, PowerPcs, DisablePcs, SetupPcs, ext5vVars, pinVars, outside

(* The loops of enable() and disable() go through pins of the cap.         *)
LEMMA TodoLoops ==
  /\ CapGpios \in Seq(Pins) /\ CapGpios # <<>> /\ <<>> \in Seq(Pins)
  /\ \A s \in Seq(Pins) : s # <<>> => Head(s) \in Pins /\ Tail(s) \in Seq(Pins)
<1>1. CapGpios \in Seq(Pins) /\ CapGpios # <<>>
  BY DEF CapGpios
<1>2. <<>> \in Seq(Pins)
  OBVIOUS
<1>3. ASSUME NEW s \in Seq(Pins), s # <<>>
      PROVE  Head(s) \in Pins /\ Tail(s) \in Seq(Pins)
  BY <1>3
<1> QED BY <1>1, <1>2, <1>3

(* Nothing pending: the pins are as the program found them.                *)
LEMMA NothingPending ==
  ASSUME PowerTypeOK, PinShape, restorePending = {}
  PROVE  pin = originalPin
BY DEF PowerTypeOK, PinTypes, PinShape

(* Initially nothing is changed and nothing is pending.                    *)
LEMMA PowerInitially == PowerInit => PowerInv
<1> SUFFICES ASSUME PowerInit PROVE PowerInv
  OBVIOUS
<1>1. PowerTypeOK
  BY TodoLoops DEF PowerInit, PowerTypeOK, PinTypes, FlagTypes, ControlTypes
<1>2. LinesShape /\ PinShape /\ RailShape
  BY DEF PowerInit, LinesShape, PinShape, RailShape
<1> QED BY <1>1, <1>2 DEF PowerInv

(* The snapshot is of the pins as they were found.                         *)
LEMMA SnapshotKeeps ==
  ASSUME PowerInv, Snapshot
  PROVE  PowerInv'
<1>1. PinTypes'
  <2>1. pin' \in [Pins -> PinFns]
    BY PinFnsAssumption DEF PowerInv, PowerTypeOK, PinTypes, Snapshot, Return
  <2> QED
    BY <2>1 DEF PowerInv, PowerTypeOK, PinTypes, FlagTypes, LinesShape,
       Snapshot, Return
<1>2. FlagTypes'
  BY DEF PowerInv, PowerTypeOK, FlagTypes, Snapshot, Return
<1>3. ControlTypes'
  BY DEF PowerInv, PowerTypeOK, FlagTypes, ControlTypes, Snapshot, Return
<1>4. todo' \in Seq(Pins) /\ (pc = "set" => todo # <<>>)'
  BY TodoLoops DEF PowerInv, PowerTypeOK, FlagTypes, Snapshot, Return
<1>5. LinesShape'
  BY DEF PowerInv, PowerTypeOK, PinTypes, FlagTypes, ControlTypes,
     LinesShape, PinShape, RailShape, Snapshot, Return
<1>6. PinShape'
  BY NothingPending DEF PowerInv, PowerTypeOK, PinTypes, FlagTypes,
     ControlTypes, LinesShape, PinShape, RailShape, Snapshot, Return
<1>7. RailShape'
  BY DEF PowerInv, PowerTypeOK, PinTypes, FlagTypes, ControlTypes,
     LinesShape, PinShape, RailShape, Snapshot, Return
<1> QED BY <1>1, <1>2, <1>3, <1>4, <1>5, <1>6, <1>7 DEF PowerInv, PowerTypeOK

(* A pin that is set is pending.                                           *)
LEMMA SetPinKeeps ==
  ASSUME PowerInv, SetPin
  PROVE  PowerInv'
<1>1. PinTypes'
  <2>1. pin' \in [Pins -> PinFns]
    BY PinFnsAssumption, TodoLoops DEF PowerInv, PowerTypeOK, PinTypes,
       SetPin, PinctrlSet, PinctrlFails, Configured, BeginDisable
  <2> QED
    BY <2>1 DEF PowerInv, PowerTypeOK, PinTypes, FlagTypes, LinesShape,
       SetPin, PinctrlSet, PinctrlFails, Configured, BeginDisable
<1>2. FlagTypes'
  BY DEF PowerInv, PowerTypeOK, FlagTypes, SetPin, PinctrlSet, PinctrlFails,
     Configured, BeginDisable
<1>3. ControlTypes'
  BY DEF PowerInv, PowerTypeOK, FlagTypes, ControlTypes, SetPin, PinctrlSet,
     PinctrlFails, Configured, BeginDisable
<1>4. todo' \in Seq(Pins) /\ (pc = "set" => todo # <<>>)'
  BY TodoLoops DEF PowerInv, PowerTypeOK, FlagTypes, SetPin, PinctrlSet,
     PinctrlFails, Configured, BeginDisable
<1>5. LinesShape'
  BY DEF PowerInv, PowerTypeOK, PinTypes, FlagTypes, ControlTypes,
     LinesShape, PinShape, RailShape, SetPin, PinctrlSet, PinctrlFails,
     Configured, BeginDisable
<1>6. PinShape'
  BY TodoLoops DEF PowerInv, PowerTypeOK, PinTypes, FlagTypes, ControlTypes,
     LinesShape, PinShape, RailShape, SetPin, PinctrlSet, PinctrlFails,
     Configured, BeginDisable
<1>7. RailShape'
  BY DEF PowerInv, PowerTypeOK, PinTypes, FlagTypes, ControlTypes,
     LinesShape, PinShape, RailShape, SetPin, PinctrlSet, PinctrlFails,
     Configured, BeginDisable
<1> QED BY <1>1, <1>2, <1>3, <1>4, <1>5, <1>6, <1>7 DEF PowerInv, PowerTypeOK

(* GPIO26 is pending when its line is requested.                           *)
LEMMA RequestGpio26Keeps ==
  ASSUME PowerInv, RequestGpio26
  PROVE  PowerInv'
<1>1. PinTypes'
  <2>1. pin' \in [Pins -> PinFns]
    BY PinFnsAssumption DEF PowerInv, PowerTypeOK, PinTypes, RequestGpio26,
       PinctrlSet, BeginDisable
  <2> QED
    BY <2>1 DEF PowerInv, PowerTypeOK, PinTypes, FlagTypes, LinesShape,
       RequestGpio26, PinctrlSet, BeginDisable
<1>2. FlagTypes'
  BY DEF PowerInv, PowerTypeOK, FlagTypes, RequestGpio26, PinctrlSet,
     BeginDisable
<1>3. ControlTypes'
  BY DEF PowerInv, PowerTypeOK, FlagTypes, ControlTypes, RequestGpio26,
     PinctrlSet, BeginDisable
<1>4. todo' \in Seq(Pins) /\ (pc = "set" => todo # <<>>)'
  BY TodoLoops DEF PowerInv, PowerTypeOK, FlagTypes, RequestGpio26,
     PinctrlSet, BeginDisable
<1>5. LinesShape'
  BY DEF PowerInv, PowerTypeOK, PinTypes, FlagTypes, ControlTypes,
     LinesShape, PinShape, RailShape, RequestGpio26, PinctrlSet, BeginDisable
<1>6. PinShape'
  BY DEF PowerInv, PowerTypeOK, PinTypes, FlagTypes, ControlTypes,
     LinesShape, PinShape, RailShape, RequestGpio26, PinctrlSet, BeginDisable
<1>7. RailShape'
  BY DEF PowerInv, PowerTypeOK, PinTypes, FlagTypes, ControlTypes,
     LinesShape, PinShape, RailShape, RequestGpio26, PinctrlSet, BeginDisable
<1> QED BY <1>1, <1>2, <1>3, <1>4, <1>5, <1>6, <1>7 DEF PowerInv, PowerTypeOK

(* The former state of the supply is noted before it is written.           *)
LEMMA EnableLedClassKeeps ==
  ASSUME PowerInv, EnableLedClass
  PROVE  PowerInv'
<1>1. PinTypes'
  <2>1. pin' \in [Pins -> PinFns]
    BY PinFnsAssumption DEF PowerInv, PowerTypeOK, PinTypes, EnableLedClass,
       Enabled, SwitchOn, Return, BeginDisable
  <2> QED
    BY <2>1 DEF PowerInv, PowerTypeOK, PinTypes, FlagTypes, LinesShape,
       EnableLedClass, Enabled, SwitchOn, Return, BeginDisable
<1>2. FlagTypes'
  BY DEF PowerInv, PowerTypeOK, FlagTypes, EnableLedClass, Enabled, SwitchOn,
     Return, BeginDisable
<1>3. ControlTypes'
  BY DEF PowerInv, PowerTypeOK, FlagTypes, ControlTypes, EnableLedClass,
     Enabled, SwitchOn, Return, BeginDisable
<1>4. todo' \in Seq(Pins) /\ (pc = "set" => todo # <<>>)'
  BY TodoLoops DEF PowerInv, PowerTypeOK, FlagTypes, EnableLedClass, Enabled,
     SwitchOn, Return, BeginDisable
<1>5. LinesShape'
  BY DEF PowerInv, PowerTypeOK, PinTypes, FlagTypes, ControlTypes,
     LinesShape, PinShape, RailShape, EnableLedClass, Enabled, SwitchOn,
     Return, BeginDisable
<1>6. PinShape'
  BY DEF PowerInv, PowerTypeOK, PinTypes, FlagTypes, ControlTypes,
     LinesShape, PinShape, RailShape, EnableLedClass, Enabled, SwitchOn,
     Return, BeginDisable
<1>7. RailShape'
  BY DEF PowerInv, PowerTypeOK, PinTypes, FlagTypes, ControlTypes,
     LinesShape, PinShape, RailShape, EnableLedClass, Enabled, SwitchOn,
     Return, BeginDisable
<1> QED BY <1>1, <1>2, <1>3, <1>4, <1>5, <1>6, <1>7 DEF PowerInv, PowerTypeOK

(* The legacy line is known as soon as it is requested.                    *)
LEMMA EnableLegacyGpioKeeps ==
  ASSUME PowerInv, EnableLegacyGpio
  PROVE  PowerInv'
<1>1. PinTypes'
  <2>1. pin' \in [Pins -> PinFns]
    BY PinFnsAssumption DEF PowerInv, PowerTypeOK, PinTypes, EnableLegacyGpio,
       Enabled, Return, BeginDisable
  <2> QED
    BY <2>1 DEF PowerInv, PowerTypeOK, PinTypes, FlagTypes, LinesShape,
       EnableLegacyGpio, Enabled, Return, BeginDisable
<1>2. FlagTypes'
  BY DEF PowerInv, PowerTypeOK, FlagTypes, EnableLegacyGpio, Enabled, Return,
     BeginDisable
<1>3. ControlTypes'
  BY DEF PowerInv, PowerTypeOK, FlagTypes, ControlTypes, EnableLegacyGpio,
     Enabled, Return, BeginDisable
<1>4. todo' \in Seq(Pins) /\ (pc = "set" => todo # <<>>)'
  BY TodoLoops DEF PowerInv, PowerTypeOK, FlagTypes, EnableLegacyGpio,
     Enabled, Return, BeginDisable
<1>5. LinesShape'
  BY DEF PowerInv, PowerTypeOK, PinTypes, FlagTypes, ControlTypes,
     LinesShape, PinShape, RailShape, EnableLegacyGpio, Enabled, Return,
     BeginDisable
<1>6. PinShape'
  BY DEF PowerInv, PowerTypeOK, PinTypes, FlagTypes, ControlTypes,
     LinesShape, PinShape, RailShape, EnableLegacyGpio, Enabled, Return,
     BeginDisable
<1>7. RailShape'
  BY DEF PowerInv, PowerTypeOK, PinTypes, FlagTypes, ControlTypes,
     LinesShape, PinShape, RailShape, EnableLegacyGpio, Enabled, Return,
     BeginDisable
<1> QED BY <1>1, <1>2, <1>3, <1>4, <1>5, <1>6, <1>7 DEF PowerInv, PowerTypeOK

(* What the released pin is matters no more: it is pending.                *)
LEMMA ReleaseGpio26Keeps ==
  ASSUME PowerInv, ReleaseGpio26
  PROVE  PowerInv'
<1>1. PinTypes'
  <2>1. pin' \in [Pins -> PinFns]
    BY PinFnsAssumption DEF PowerInv, PowerTypeOK, PinTypes, ReleaseGpio26,
       Released
  <2> QED
    BY <2>1 DEF PowerInv, PowerTypeOK, PinTypes, FlagTypes, LinesShape,
       ReleaseGpio26, Released
<1>2. FlagTypes'
  BY DEF PowerInv, PowerTypeOK, FlagTypes, ReleaseGpio26, Released
<1>3. ControlTypes'
  BY DEF PowerInv, PowerTypeOK, FlagTypes, ControlTypes, ReleaseGpio26,
     Released
<1>4. todo' \in Seq(Pins) /\ (pc = "set" => todo # <<>>)'
  BY TodoLoops DEF PowerInv, PowerTypeOK, FlagTypes, ReleaseGpio26, Released
<1>5. LinesShape'
  BY DEF PowerInv, PowerTypeOK, PinTypes, FlagTypes, ControlTypes,
     LinesShape, PinShape, RailShape, ReleaseGpio26, Released
<1>6. PinShape'
  BY DEF PowerInv, PowerTypeOK, PinTypes, FlagTypes, ControlTypes,
     LinesShape, PinShape, RailShape, ReleaseGpio26, Released
<1>7. RailShape'
  BY DEF PowerInv, PowerTypeOK, PinTypes, FlagTypes, ControlTypes,
     LinesShape, PinShape, RailShape, ReleaseGpio26, Released
<1> QED BY <1>1, <1>2, <1>3, <1>4, <1>5, <1>6, <1>7 DEF PowerInv, PowerTypeOK

(* EXT5V is left on, restored, or still to be restored.                    *)
LEMMA LedClassOffKeeps ==
  ASSUME PowerInv, LedClassOff
  PROVE  PowerInv'
<1>1. PinTypes'
  <2>1. pin' \in [Pins -> PinFns]
    BY PinFnsAssumption DEF PowerInv, PowerTypeOK, PinTypes, LedClassOff,
       BeginRestore
  <2> QED
    BY <2>1 DEF PowerInv, PowerTypeOK, PinTypes, FlagTypes, LinesShape,
       LedClassOff, BeginRestore
<1>2. FlagTypes'
  BY DEF PowerInv, PowerTypeOK, FlagTypes, LedClassOff, BeginRestore
<1>3. ControlTypes'
  BY DEF PowerInv, PowerTypeOK, FlagTypes, ControlTypes, LedClassOff,
     BeginRestore
<1>4. todo' \in Seq(Pins) /\ (pc = "set" => todo # <<>>)'
  BY TodoLoops DEF PowerInv, PowerTypeOK, FlagTypes, LedClassOff, BeginRestore
<1>5. LinesShape'
  BY DEF PowerInv, PowerTypeOK, PinTypes, FlagTypes, ControlTypes,
     LinesShape, PinShape, RailShape, LedClassOff, BeginRestore
<1>6. PinShape'
  BY DEF PowerInv, PowerTypeOK, PinTypes, FlagTypes, ControlTypes,
     LinesShape, PinShape, RailShape, LedClassOff, BeginRestore
<1>7. RailShape'
  BY DEF PowerInv, PowerTypeOK, PinTypes, FlagTypes, ControlTypes,
     LinesShape, PinShape, RailShape, LedClassOff, BeginRestore
<1> QED BY <1>1, <1>2, <1>3, <1>4, <1>5, <1>6, <1>7 DEF PowerInv, PowerTypeOK

(* The legacy line is released in every case.                              *)
LEMMA LegacyGpioOffKeeps ==
  ASSUME PowerInv, LegacyGpioOff
  PROVE  PowerInv'
<1>1. PinTypes'
  <2>1. pin' \in [Pins -> PinFns]
    BY PinFnsAssumption DEF PowerInv, PowerTypeOK, PinTypes, LegacyGpioOff,
       BeginRestore
  <2> QED
    BY <2>1 DEF PowerInv, PowerTypeOK, PinTypes, FlagTypes, LinesShape,
       LegacyGpioOff, BeginRestore
<1>2. FlagTypes'
  BY DEF PowerInv, PowerTypeOK, FlagTypes, LegacyGpioOff, BeginRestore
<1>3. ControlTypes'
  BY DEF PowerInv, PowerTypeOK, FlagTypes, ControlTypes, LegacyGpioOff,
     BeginRestore
<1>4. todo' \in Seq(Pins) /\ (pc = "set" => todo # <<>>)'
  BY TodoLoops DEF PowerInv, PowerTypeOK, FlagTypes, LegacyGpioOff,
     BeginRestore
<1>5. LinesShape'
  BY DEF PowerInv, PowerTypeOK, PinTypes, FlagTypes, ControlTypes,
     LinesShape, PinShape, RailShape, LegacyGpioOff, BeginRestore
<1>6. PinShape'
  BY DEF PowerInv, PowerTypeOK, PinTypes, FlagTypes, ControlTypes,
     LinesShape, PinShape, RailShape, LegacyGpioOff, BeginRestore
<1>7. RailShape'
  BY DEF PowerInv, PowerTypeOK, PinTypes, FlagTypes, ControlTypes,
     LinesShape, PinShape, RailShape, LegacyGpioOff, BeginRestore
<1> QED BY <1>1, <1>2, <1>3, <1>4, <1>5, <1>6, <1>7 DEF PowerInv, PowerTypeOK

(* Nothing was changed, so nothing is restored.                            *)
LEMMA NothingToSwitchOffKeeps ==
  ASSUME PowerInv, NothingToSwitchOff
  PROVE  PowerInv'
<1>1. PinTypes'
  <2>1. pin' \in [Pins -> PinFns]
    BY PinFnsAssumption DEF PowerInv, PowerTypeOK, PinTypes,
       NothingToSwitchOff, BeginRestore
  <2> QED
    BY <2>1 DEF PowerInv, PowerTypeOK, PinTypes, FlagTypes, LinesShape,
       NothingToSwitchOff, BeginRestore
<1>2. FlagTypes'
  BY DEF PowerInv, PowerTypeOK, FlagTypes, NothingToSwitchOff, BeginRestore
<1>3. ControlTypes'
  BY DEF PowerInv, PowerTypeOK, FlagTypes, ControlTypes, NothingToSwitchOff,
     BeginRestore
<1>4. todo' \in Seq(Pins) /\ (pc = "set" => todo # <<>>)'
  BY TodoLoops DEF PowerInv, PowerTypeOK, FlagTypes, NothingToSwitchOff,
     BeginRestore
<1>5. LinesShape'
  BY DEF PowerInv, PowerTypeOK, PinTypes, FlagTypes, ControlTypes,
     LinesShape, PinShape, RailShape, NothingToSwitchOff, BeginRestore
<1>6. PinShape'
  BY DEF PowerInv, PowerTypeOK, PinTypes, FlagTypes, ControlTypes,
     LinesShape, PinShape, RailShape, NothingToSwitchOff, BeginRestore
<1>7. RailShape'
  BY DEF PowerInv, PowerTypeOK, PinTypes, FlagTypes, ControlTypes,
     LinesShape, PinShape, RailShape, NothingToSwitchOff, BeginRestore
<1> QED BY <1>1, <1>2, <1>3, <1>4, <1>5, <1>6, <1>7 DEF PowerInv, PowerTypeOK

(* A pin is restored to what it was found as, or stays pending.            *)
LEMMA RestorePinKeeps ==
  ASSUME PowerInv, RestorePin
  PROVE  PowerInv'
<1>1. PinTypes'
  <2>1. pin' \in [Pins -> PinFns]
    BY PinFnsAssumption, TodoLoops DEF PowerInv, PowerTypeOK, PinTypes,
       RestorePin, PinctrlSet, PinctrlFails
  <2> QED
    BY <2>1 DEF PowerInv, PowerTypeOK, PinTypes, FlagTypes, LinesShape,
       RestorePin, PinctrlSet, PinctrlFails
<1>2. FlagTypes'
  BY DEF PowerInv, PowerTypeOK, FlagTypes, RestorePin, PinctrlSet,
     PinctrlFails
<1>3. ControlTypes'
  BY DEF PowerInv, PowerTypeOK, FlagTypes, ControlTypes, RestorePin,
     PinctrlSet, PinctrlFails
<1>4. todo' \in Seq(Pins) /\ (pc = "set" => todo # <<>>)'
  BY TodoLoops DEF PowerInv, PowerTypeOK, FlagTypes, RestorePin, PinctrlSet,
     PinctrlFails
<1>5. LinesShape'
  BY DEF PowerInv, PowerTypeOK, PinTypes, FlagTypes, ControlTypes,
     LinesShape, PinShape, RailShape, RestorePin, PinctrlSet, PinctrlFails
<1>6. PinShape'
  BY TodoLoops DEF PowerInv, PowerTypeOK, PinTypes, FlagTypes, ControlTypes,
     LinesShape, PinShape, RailShape, RestorePin, PinctrlSet, PinctrlFails
<1>7. RailShape'
  BY DEF PowerInv, PowerTypeOK, PinTypes, FlagTypes, ControlTypes,
     LinesShape, PinShape, RailShape, RestorePin, PinctrlSet, PinctrlFails
<1> QED BY <1>1, <1>2, <1>3, <1>4, <1>5, <1>6, <1>7 DEF PowerInv, PowerTypeOK

(* Only when nothing is pending does a retry go on to a snapshot.          *)
LEMMA EndDisableKeeps ==
  ASSUME PowerInv, EndDisable
  PROVE  PowerInv'
<1>1. PinTypes'
  <2>1. pin' \in [Pins -> PinFns]
    BY PinFnsAssumption DEF PowerInv, PowerTypeOK, PinTypes, EndDisable,
       Return
  <2> QED
    BY <2>1 DEF PowerInv, PowerTypeOK, PinTypes, FlagTypes, LinesShape,
       EndDisable, Return
<1>2. FlagTypes'
  BY DEF PowerInv, PowerTypeOK, FlagTypes, EndDisable, Return
<1>3. ControlTypes'
  BY DEF PowerInv, PowerTypeOK, FlagTypes, ControlTypes, EndDisable, Return
<1>4. todo' \in Seq(Pins) /\ (pc = "set" => todo # <<>>)'
  BY TodoLoops DEF PowerInv, PowerTypeOK, FlagTypes, EndDisable, Return
<1>5. LinesShape'
  BY DEF PowerInv, PowerTypeOK, PinTypes, FlagTypes, ControlTypes,
     LinesShape, PinShape, RailShape, EndDisable, Return
<1>6. PinShape'
  BY DEF PowerInv, PowerTypeOK, PinTypes, FlagTypes, ControlTypes,
     LinesShape, PinShape, RailShape, EndDisable, Return
<1>7. RailShape'
  BY DEF PowerInv, PowerTypeOK, PinTypes, FlagTypes, ControlTypes,
     LinesShape, PinShape, RailShape, EndDisable, Return
<1> QED BY <1>1, <1>2, <1>3, <1>4, <1>5, <1>6, <1>7 DEF PowerInv, PowerTypeOK

(* Cleanup comes first if anything is left.                                *)
LEMMA CallEnableKeeps ==
  ASSUME PowerInv, CallEnable
  PROVE  PowerInv'
<1>1. PinTypes'
  <2>1. pin' \in [Pins -> PinFns]
    BY PinFnsAssumption DEF PowerInv, PowerTypeOK, PinTypes, CallEnable,
       BeginEnable, Unclean, BeginDisable
  <2> QED
    BY <2>1 DEF PowerInv, PowerTypeOK, PinTypes, FlagTypes, LinesShape,
       CallEnable, BeginEnable, Unclean, BeginDisable
<1>2. FlagTypes'
  BY DEF PowerInv, PowerTypeOK, FlagTypes, CallEnable, BeginEnable, Unclean,
     BeginDisable
<1>3. ControlTypes'
  BY DEF PowerInv, PowerTypeOK, FlagTypes, ControlTypes, CallEnable,
     BeginEnable, Unclean, BeginDisable
<1>4. todo' \in Seq(Pins) /\ (pc = "set" => todo # <<>>)'
  BY TodoLoops DEF PowerInv, PowerTypeOK, FlagTypes, CallEnable, BeginEnable,
     Unclean, BeginDisable
<1>5. LinesShape'
  BY DEF PowerInv, PowerTypeOK, PinTypes, FlagTypes, ControlTypes,
     LinesShape, PinShape, RailShape, CallEnable, BeginEnable, Unclean,
     BeginDisable
<1>6. PinShape'
  BY DEF PowerInv, PowerTypeOK, PinTypes, FlagTypes, ControlTypes,
     LinesShape, PinShape, RailShape, CallEnable, BeginEnable, Unclean,
     BeginDisable
<1>7. RailShape'
  BY DEF PowerInv, PowerTypeOK, PinTypes, FlagTypes, ControlTypes,
     LinesShape, PinShape, RailShape, CallEnable, BeginEnable, Unclean,
     BeginDisable
<1> QED BY <1>1, <1>2, <1>3, <1>4, <1>5, <1>6, <1>7 DEF PowerInv, PowerTypeOK

(* While the cap is enabled every pin is pending.                          *)
LEMMA UseLineKeeps ==
  ASSUME PowerInv, NEW h \in RadioPins, UseLine(h)
  PROVE  PowerInv'
<1>1. PinTypes'
  <2>1. pin' \in [Pins -> PinFns]
    BY PinFnsAssumption DEF PowerInv, PowerTypeOK, PinTypes, UseLine,
       PinctrlSet, idleVars, control
  <2> QED
    BY <2>1 DEF PowerInv, PowerTypeOK, PinTypes, FlagTypes, LinesShape,
       UseLine, PinctrlSet, idleVars, control
<1>2. FlagTypes'
  BY DEF PowerInv, PowerTypeOK, FlagTypes, UseLine, PinctrlSet, idleVars,
     control
<1>3. ControlTypes'
  BY DEF PowerInv, PowerTypeOK, FlagTypes, ControlTypes, UseLine, PinctrlSet,
     idleVars, control
<1>4. todo' \in Seq(Pins) /\ (pc = "set" => todo # <<>>)'
  BY TodoLoops DEF PowerInv, PowerTypeOK, FlagTypes, UseLine, PinctrlSet,
     idleVars, control
<1>5. LinesShape'
  BY DEF PowerInv, PowerTypeOK, PinTypes, FlagTypes, ControlTypes,
     LinesShape, PinShape, RailShape, UseLine, PinctrlSet, idleVars, control
<1>6. PinShape'
  BY DEF PowerInv, PowerTypeOK, PinTypes, FlagTypes, ControlTypes,
     LinesShape, PinShape, RailShape, UseLine, PinctrlSet, idleVars, control
<1>7. RailShape'
  BY DEF PowerInv, PowerTypeOK, PinTypes, FlagTypes, ControlTypes,
     LinesShape, PinShape, RailShape, UseLine, PinctrlSet, idleVars, control
<1> QED BY <1>1, <1>2, <1>3, <1>4, <1>5, <1>6, <1>7 DEF PowerInv, PowerTypeOK

(* The same of releasing a line.                                           *)
LEMMA ReleaseLineKeeps ==
  ASSUME PowerInv, NEW h \in RadioPins, ReleaseLine(h)
  PROVE  PowerInv'
<1>1. PinTypes'
  <2>1. pin' \in [Pins -> PinFns]
    BY PinFnsAssumption DEF PowerInv, PowerTypeOK, PinTypes, ReleaseLine,
       PinctrlSet, idleVars, control
  <2> QED
    BY <2>1 DEF PowerInv, PowerTypeOK, PinTypes, FlagTypes, LinesShape,
       ReleaseLine, PinctrlSet, idleVars, control
<1>2. FlagTypes'
  BY DEF PowerInv, PowerTypeOK, FlagTypes, ReleaseLine, PinctrlSet, idleVars,
     control
<1>3. ControlTypes'
  BY DEF PowerInv, PowerTypeOK, FlagTypes, ControlTypes, ReleaseLine,
     PinctrlSet, idleVars, control
<1>4. todo' \in Seq(Pins) /\ (pc = "set" => todo # <<>>)'
  BY TodoLoops DEF PowerInv, PowerTypeOK, FlagTypes, ReleaseLine, PinctrlSet,
     idleVars, control
<1>5. LinesShape'
  BY DEF PowerInv, PowerTypeOK, PinTypes, FlagTypes, ControlTypes,
     LinesShape, PinShape, RailShape, ReleaseLine, PinctrlSet, idleVars,
     control
<1>6. PinShape'
  BY DEF PowerInv, PowerTypeOK, PinTypes, FlagTypes, ControlTypes,
     LinesShape, PinShape, RailShape, ReleaseLine, PinctrlSet, idleVars,
     control
<1>7. RailShape'
  BY DEF PowerInv, PowerTypeOK, PinTypes, FlagTypes, ControlTypes,
     LinesShape, PinShape, RailShape, ReleaseLine, PinctrlSet, idleVars,
     control
<1> QED BY <1>1, <1>2, <1>3, <1>4, <1>5, <1>6, <1>7 DEF PowerInv, PowerTypeOK

(* The caller has released its lines.                                      *)
LEMMA CallDisableKeeps ==
  ASSUME PowerInv, NEW preserve \in BOOLEAN, CallDisable(preserve)
  PROVE  PowerInv'
<1>1. PinTypes'
  <2>1. pin' \in [Pins -> PinFns]
    BY PinFnsAssumption DEF PowerInv, PowerTypeOK, PinTypes, CallDisable,
       BeginDisable
  <2> QED
    BY <2>1 DEF PowerInv, PowerTypeOK, PinTypes, FlagTypes, LinesShape,
       CallDisable, BeginDisable
<1>2. FlagTypes'
  BY DEF PowerInv, PowerTypeOK, FlagTypes, CallDisable, BeginDisable
<1>3. ControlTypes'
  BY DEF PowerInv, PowerTypeOK, FlagTypes, ControlTypes, CallDisable,
     BeginDisable
<1>4. todo' \in Seq(Pins) /\ (pc = "set" => todo # <<>>)'
  BY TodoLoops DEF PowerInv, PowerTypeOK, FlagTypes, CallDisable, BeginDisable
<1>5. LinesShape'
  BY DEF PowerInv, PowerTypeOK, PinTypes, FlagTypes, ControlTypes,
     LinesShape, PinShape, RailShape, CallDisable, BeginDisable
<1>6. PinShape'
  BY DEF PowerInv, PowerTypeOK, PinTypes, FlagTypes, ControlTypes,
     LinesShape, PinShape, RailShape, CallDisable, BeginDisable
<1>7. RailShape'
  BY DEF PowerInv, PowerTypeOK, PinTypes, FlagTypes, ControlTypes,
     LinesShape, PinShape, RailShape, CallDisable, BeginDisable
<1> QED BY <1>1, <1>2, <1>3, <1>4, <1>5, <1>6, <1>7 DEF PowerInv, PowerTypeOK

(* Every step of the power object and of its user keeps the invariant.     *)
LEMMA PowerStepKeeps == PowerInv /\ [PowerNext]_powerVars => PowerInv'
<1> SUFFICES ASSUME PowerInv, [PowerNext]_powerVars PROVE PowerInv'
  OBVIOUS
<1>1. CASE EnableStep
  BY <1>1, SnapshotKeeps, SetPinKeeps, RequestGpio26Keeps, EnableLedClassKeeps,
     EnableLegacyGpioKeeps DEF EnableStep
<1>2. CASE DisableStep
  BY <1>2, ReleaseGpio26Keeps, LedClassOffKeeps, LegacyGpioOffKeeps,
     NothingToSwitchOffKeeps, RestorePinKeeps, EndDisableKeeps DEF DisableStep
<1>3. CASE CallEnable
  BY <1>3, CallEnableKeeps
<1>4. ASSUME NEW preserve \in BOOLEAN, CallDisable(preserve)
      PROVE  PowerInv'
  BY <1>4, CallDisableKeeps
<1>5. ASSUME NEW g \in RadioPins, UseLine(g) \/ ReleaseLine(g)
      PROVE  PowerInv'
  BY <1>5, UseLineKeeps, ReleaseLineKeeps
<1>6. CASE UNCHANGED powerVars
  BY <1>6 DEF powerVars, control, PowerInv, PowerTypeOK, PinTypes, FlagTypes,
     ControlTypes, LinesShape, PinShape, RailShape
<1> QED BY <1>1, <1>2, <1>3, <1>4, <1>5, <1>6 DEF PowerNext, PowerStep

(* The inductive invariant holds throughout, whoever uses the object.      *)
THEOREM PowerInvariant == PowerSpec => []PowerInv
BY PowerInitially, PowerStepKeeps, PTL DEF PowerSpec

(* No failure makes the object forget a pin that it changed, or take what  *)
(* an earlier attempt left for the state the program found.                *)
THEOREM PinsAreNeverForgotten == PowerSpec => []PinsAreRemembered
<1>1. PowerInv => PinsAreRemembered
  BY DEF PowerInv, PinShape, PinsAreRemembered
<1> QED BY <1>1, PowerInvariant, PTL

(* The same of the supply and the legacy line.                             *)
THEOREM RailIsNeverForgotten == PowerSpec => []RailIsRemembered
<1>1. PowerInv => RailIsRemembered
  BY DEF PowerInv, RailShape, RailIsRemembered
<1> QED BY <1>1, PowerInvariant, PTL

(* An enabled cap has everything that enable() is to set up.               *)
THEOREM EnabledCapIsWhole == PowerSpec => []EnabledAsAWhole
<1>1. PowerInv => EnabledAsAWhole
  BY DEF PowerInv, PinShape, EnabledAsAWhole
<1> QED BY <1>1, PowerInvariant, PTL

(* A pin is restored only once its line is released.                       *)
THEOREM PinsAreRestoredWhenReleased == PowerSpec => RestoredWhenReleased
<1>1. ASSUME PowerInv, [PowerNext]_powerVars,
             NEW g \in restorePending \ restorePending'
      PROVE  g \notin lines
  <2>1. RestorePin
    BY <1>1 DEF PowerNext, PowerStep, EnableStep, DisableStep, powerVars, control,
       idleVars, Snapshot, SetPin, RequestGpio26, EnableLedClass, EnableLegacyGpio,
       ReleaseGpio26, LedClassOff, LegacyGpioOff, NothingToSwitchOff, EndDisable,
       CallEnable, BeginEnable, CallDisable, UseLine, ReleaseLine,
       PowerInv, PowerTypeOK, PinTypes
  <2> QED BY <1>1, <2>1 DEF RestorePin, PowerInv, PowerTypeOK, PinTypes, LinesShape
<1>2. PowerInv /\ [PowerNext]_powerVars
        => [\A g \in restorePending \ restorePending' : g \notin lines]_powerVars
  BY <1>1
<1> QED BY <1>2, PowerInvariant, PTL DEF PowerSpec, RestoredWhenReleased
-----------------------------------------------------------------------------
(* The backend on top of it.                                               *)

(* The names of the steps and calls.                                       *)
USE DEF OpenPcs, ClosePcs, Closers, RadioPcs, NoRadioPcs

(* What a user of the power object does with the lines of the radio pins.  *)
LEMMA UserSteps ==
  /\ UseLine("G14") => PowerNext
  /\ UseLine("G15") => PowerNext
  /\ ReleaseLine("G14") => PowerNext
  /\ ReleaseLine("G15") => PowerNext
<1>1. "G14" \in RadioPins /\ "G15" \in RadioPins
  BY DEF RadioPins
<1> QED BY <1>1 DEF PowerNext

(* Released pins have functions.                                           *)
LEMMA ReleasedIsSet ==
  ASSUME PowerTypeOK, NEW g \in Pins, Release(g)
  PROVE  \E fn \in PinFns : PinctrlSet(g, fn)
<1>1. pin[g] \in PinFns /\ Input \in PinFns
  BY PinFnsAssumption DEF PowerTypeOK, PinTypes
<1>2. pin = [pin EXCEPT ![g] = pin[g]]
  BY DEF PowerTypeOK, PinTypes
<1> QED BY <1>1, <1>2 DEF Release, Released, PinctrlSet

(* Neither enable() nor disable() requests a line of a radio pin.          *)
LEMMA PowerLeavesRadioLines ==
  ASSUME PowerStep
  PROVE  lines' \cap RadioPins \subseteq lines \cap RadioPins /\ pc # "idle"
<1>1. CASE EnableStep
  BY <1>1 DEF EnableStep, Snapshot, SetPin, RequestGpio26, EnableLedClass,
     EnableLegacyGpio
<1>2. CASE DisableStep
  BY <1>2 DEF DisableStep, ReleaseGpio26, LedClassOff, LegacyGpioOff,
     NothingToSwitchOff, RestorePin, EndDisable
<1> QED BY <1>1, <1>2 DEF PowerStep

(* A disable() that preserves EXT5V goes to its end.                       *)
LEMMA PreservingEnds ==
  ASSUME PowerStep, pc \in DisablePcs, purpose = "preserve"
  PROVE  IF pc' = "idle" THEN ~enabled'
         ELSE pc' \in DisablePcs /\ purpose' = "preserve"
<1>1. DisableStep
  BY DEF PowerStep, EnableStep, Snapshot, SetPin, RequestGpio26, EnableLedClass,
     EnableLegacyGpio, DisablePcs
<1>2. CASE EndDisable
  BY <1>2 DEF EndDisable, Return
<1>3. CASE ReleaseGpio26 \/ LedClassOff \/ LegacyGpioOff \/ NothingToSwitchOff
  BY <1>3 DEF ReleaseGpio26, LedClassOff, LegacyGpioOff, NothingToSwitchOff,
     BeginRestore, DisablePcs
<1>4. CASE RestorePin
  BY <1>4 DEF RestorePin, DisablePcs
<1> QED BY <1>1, <1>2, <1>3, <1>4 DEF DisableStep

(* What a step of the power object does while open() or close() waits.     *)
LEMMA PoweringKeeps ==
  ASSUME LinuxInv, Powering
  PROVE  /\ [PowerNext]_powerVars
         /\ BackendTypes' /\ PowerShape' /\ RadioShape' /\ FlagShape'
<1>1. PowerStep /\ UNCHANGED <<open, listening, radio, spi, bpc, closer, foundRail>>
      /\ bpc \in {"openPower", "closePower"}
  BY DEF Powering, backendVars, flagVars, busVars, callVars
<1>2. BackendTypes'
  BY <1>1 DEF LinuxInv, BackendTypes
<1>3. PowerShape'
  BY <1>1, PreservingEnds, PowerLeavesRadioLines DEF LinuxInv, PowerShape
<1>4. RadioShape' /\ FlagShape'
  BY <1>1, PowerLeavesRadioLines DEF LinuxInv, RadioShape, FlagShape
<1> QED BY <1>1, <1>2, <1>3, <1>4 DEF PowerNext

(* open() begins with close().                                             *)
LEMMA CallOpenKeeps ==
  ASSUME LinuxInv, CallOpen
  PROVE  /\ [PowerNext]_powerVars
         /\ BackendTypes' /\ PowerShape' /\ RadioShape' /\ FlagShape'
<1>1. [PowerNext]_powerVars
  BY DEF CallOpen
<1>2. BackendTypes'
  BY DEF CallOpen, BeginClose, flagVars, busVars, callVars, LinuxInv,
     BackendTypes
<1>3. PowerShape'
  BY DEF CallOpen, BeginClose, powerVars, control, flagVars, busVars,
     callVars, LinuxInv, PowerShape, RadioShape, FlagShape
<1>4. RadioShape'
  BY DEF CallOpen, BeginClose, powerVars, control, flagVars, busVars,
     callVars, LinuxInv, PowerShape, RadioShape, FlagShape
<1>5. FlagShape'
  BY DEF CallOpen, BeginClose, powerVars, control, flagVars, busVars,
     callVars, LinuxInv, PowerShape, RadioShape, FlagShape
<1> QED BY <1>1, <1>2, <1>3, <1>4, <1>5

(* close() when the caller asks.                                           *)
LEMMA CallCloseKeeps ==
  ASSUME LinuxInv, CallClose
  PROVE  /\ [PowerNext]_powerVars
         /\ BackendTypes' /\ PowerShape' /\ RadioShape' /\ FlagShape'
<1>1. [PowerNext]_powerVars
  BY DEF CallClose
<1>2. BackendTypes'
  BY DEF CallClose, BeginClose, flagVars, busVars, callVars, LinuxInv,
     BackendTypes
<1>3. PowerShape'
  BY DEF CallClose, BeginClose, powerVars, control, flagVars, busVars,
     callVars, LinuxInv, PowerShape, RadioShape, FlagShape
<1>4. RadioShape'
  BY DEF CallClose, BeginClose, powerVars, control, flagVars, busVars,
     callVars, LinuxInv, PowerShape, RadioShape, FlagShape
<1>5. FlagShape'
  BY DEF CallClose, BeginClose, powerVars, control, flagVars, busVars,
     callVars, LinuxInv, PowerShape, RadioShape, FlagShape
<1> QED BY <1>1, <1>2, <1>3, <1>4, <1>5

(* Receiving ends first.                                                   *)
LEMMA CloseRadioKeeps ==
  ASSUME LinuxInv, CloseRadio
  PROVE  /\ [PowerNext]_powerVars
         /\ BackendTypes' /\ PowerShape' /\ RadioShape' /\ FlagShape'
<1>1. [PowerNext]_powerVars
  BY DEF CloseRadio
<1>2. BackendTypes'
  BY DEF CloseRadio, Then, flagVars, busVars, callVars, LinuxInv, BackendTypes
<1>3. PowerShape'
  BY DEF CloseRadio, Then, powerVars, control, flagVars, busVars, callVars,
     LinuxInv, PowerShape, RadioShape, FlagShape
<1>4. RadioShape'
  BY DEF CloseRadio, Then, powerVars, control, flagVars, busVars, callVars,
     LinuxInv, PowerShape, RadioShape, FlagShape
<1>5. FlagShape'
  BY DEF CloseRadio, Then, powerVars, control, flagVars, busVars, callVars,
     LinuxInv, PowerShape, RadioShape, FlagShape
<1> QED BY <1>1, <1>2, <1>3, <1>4, <1>5

(* RF_SW0 is driven low on a cap that is still enabled.                    *)
LEMMA SwitchLowKeeps ==
  ASSUME LinuxInv, SwitchLow
  PROVE  /\ [PowerNext]_powerVars
         /\ BackendTypes' /\ PowerShape' /\ RadioShape' /\ FlagShape'
<1>1. [PowerNext]_powerVars
  <2>1. UseLine("G14") \/ UNCHANGED powerVars
    BY PinFnsAssumption DEF SwitchLow, Then, PinctrlSet, UseLine, powerVars,
       idleVars, LinuxInv, PowerShape, RadioShape
  <2> QED BY <2>1, UserSteps
<1>2. BackendTypes'
  BY DEF SwitchLow, Then, flagVars, busVars, callVars, LinuxInv, BackendTypes
<1>3. PowerShape'
  BY DEF SwitchLow, Then, PinctrlSet, idleVars, control, flagVars, busVars,
     callVars, LinuxInv, PowerShape, RadioShape, FlagShape
<1>4. RadioShape'
  BY DEF SwitchLow, Then, PinctrlSet, idleVars, control, flagVars, busVars,
     callVars, LinuxInv, PowerShape, RadioShape, FlagShape
<1>5. FlagShape'
  BY DEF SwitchLow, Then, PinctrlSet, idleVars, control, flagVars, busVars,
     callVars, LinuxInv, PowerShape, RadioShape, FlagShape
<1> QED BY <1>1, <1>2, <1>3, <1>4, <1>5

(* GDO0 is released on a cap that is still enabled.                        *)
LEMMA ReleaseGdo0Keeps ==
  ASSUME LinuxInv, ReleaseGdo0
  PROVE  /\ [PowerNext]_powerVars
         /\ BackendTypes' /\ PowerShape' /\ RadioShape' /\ FlagShape'
<1>1. [PowerNext]_powerVars
  <2>1. ReleaseLine("G15")
    <3>1. pc = "idle" /\ enabled /\ UNCHANGED idleVars /\ lines' = lines \ {"G15"}
      BY DEF ReleaseGdo0, Release, LinuxInv, PowerShape, RadioShape
    <3>2. \E fn \in PinFns : PinctrlSet("G15", fn)
      <4>1. "G15" \in Pins /\ Release("G15") /\ PowerTypeOK
        BY DEF ReleaseGdo0, LinuxInv, PowerInv, Pins
      <4> QED BY <4>1, ReleasedIsSet
    <3> QED BY <3>1, <3>2 DEF ReleaseLine
  <2> QED BY <2>1, UserSteps
<1>2. BackendTypes'
  BY DEF ReleaseGdo0, Then, Release, flagVars, busVars, callVars, LinuxInv,
     BackendTypes
<1>3. PowerShape'
  BY DEF ReleaseGdo0, Then, Release, Released, PinctrlSet, idleVars, control,
     flagVars, busVars, callVars, LinuxInv, PowerShape, RadioShape, FlagShape
<1>4. RadioShape'
  BY DEF ReleaseGdo0, Then, Release, Released, PinctrlSet, idleVars, control,
     flagVars, busVars, callVars, LinuxInv, PowerShape, RadioShape, FlagShape
<1>5. FlagShape'
  BY DEF ReleaseGdo0, Then, Release, Released, PinctrlSet, idleVars, control,
     flagVars, busVars, callVars, LinuxInv, PowerShape, RadioShape, FlagShape
<1> QED BY <1>1, <1>2, <1>3, <1>4, <1>5

(* So is RF_SW0, and with it the last line.                                *)
LEMMA ReleaseSwitchKeeps ==
  ASSUME LinuxInv, ReleaseSwitch
  PROVE  /\ [PowerNext]_powerVars
         /\ BackendTypes' /\ PowerShape' /\ RadioShape' /\ FlagShape'
<1>1. [PowerNext]_powerVars
  <2>1. ReleaseLine("G14")
    <3>1. pc = "idle" /\ enabled /\ UNCHANGED idleVars /\ lines' = lines \ {"G14"}
      BY DEF ReleaseSwitch, Release, LinuxInv, PowerShape, RadioShape
    <3>2. \E fn \in PinFns : PinctrlSet("G14", fn)
      <4>1. "G14" \in Pins /\ Release("G14") /\ PowerTypeOK
        BY DEF ReleaseSwitch, LinuxInv, PowerInv, Pins
      <4> QED BY <4>1, ReleasedIsSet
    <3> QED BY <3>1, <3>2 DEF ReleaseLine
  <2> QED BY <2>1, UserSteps
<1>2. BackendTypes'
  BY DEF ReleaseSwitch, Then, Release, flagVars, busVars, callVars, LinuxInv,
     BackendTypes
<1>3. PowerShape'
  BY DEF ReleaseSwitch, Then, Release, Released, PinctrlSet, idleVars,
     control, flagVars, busVars, callVars, LinuxInv, PowerShape, RadioShape,
     FlagShape
<1>4. RadioShape'
  <2>1. lines' \cap RadioPins = {}
    BY DEF ReleaseSwitch, Release, LinuxInv, RadioShape, RadioPins
  <2> QED BY <2>1 DEF ReleaseSwitch, Then, Release, Released, PinctrlSet, idleVars,
     control, flagVars, busVars, callVars, LinuxInv, PowerShape, RadioShape,
     FlagShape
<1>5. FlagShape'
  BY DEF ReleaseSwitch, Then, Release, Released, PinctrlSet, idleVars,
     control, flagVars, busVars, callVars, LinuxInv, PowerShape, RadioShape,
     FlagShape
<1> QED BY <1>1, <1>2, <1>3, <1>4, <1>5

(* The power is taken away once no line is held.                           *)
LEMMA CloseBusKeeps ==
  ASSUME LinuxInv, CloseBus
  PROVE  /\ [PowerNext]_powerVars
         /\ BackendTypes' /\ PowerShape' /\ RadioShape' /\ FlagShape'
<1>1. [PowerNext]_powerVars
  <2>1. CallDisable(TRUE)
    BY DEF CloseBus, CallDisable, LinuxInv, PowerShape, RadioShape
  <2> QED BY <2>1 DEF PowerNext
<1>2. BackendTypes'
  BY DEF CloseBus, Then, flagVars, busVars, callVars, LinuxInv, BackendTypes
<1>3. PowerShape'
  BY DEF CloseBus, Then, BeginDisable, DisablePcs, flagVars, LinuxInv,
     PowerShape, RadioShape, FlagShape
<1>4. RadioShape'
  BY DEF CloseBus, Then, BeginDisable, DisablePcs, flagVars, LinuxInv,
     PowerShape, RadioShape, FlagShape
<1>5. FlagShape'
  BY DEF CloseBus, Then, BeginDisable, DisablePcs, flagVars, LinuxInv,
     PowerShape, RadioShape, FlagShape
<1> QED BY <1>1, <1>2, <1>3, <1>4, <1>5

(* The power object has returned, disabled.                                *)
LEMMA EndCloseKeeps ==
  ASSUME LinuxInv, EndClose
  PROVE  /\ [PowerNext]_powerVars
         /\ BackendTypes' /\ PowerShape' /\ RadioShape' /\ FlagShape'
<1>1. [PowerNext]_powerVars
  BY DEF EndClose
<1>2. BackendTypes'
  BY DEF EndClose, flagVars, busVars, callVars, LinuxInv, BackendTypes
<1>3. PowerShape'
  BY DEF EndClose, powerVars, control, flagVars, busVars, callVars, LinuxInv,
     PowerShape, RadioShape, FlagShape
<1>4. RadioShape'
  BY DEF EndClose, powerVars, control, flagVars, busVars, callVars, LinuxInv,
     PowerShape, RadioShape, FlagShape
<1>5. FlagShape'
  BY DEF EndClose, powerVars, control, flagVars, busVars, callVars, LinuxInv,
     PowerShape, RadioShape, FlagShape
<1> QED BY <1>1, <1>2, <1>3, <1>4, <1>5

(* enable() is called of a disabled cap.                                   *)
LEMMA OpenSleepKeeps ==
  ASSUME LinuxInv, OpenSleep
  PROVE  /\ [PowerNext]_powerVars
         /\ BackendTypes' /\ PowerShape' /\ RadioShape' /\ FlagShape'
<1>1. [PowerNext]_powerVars
  BY DEF OpenSleep, PowerNext
<1>2. BackendTypes'
  BY DEF OpenSleep, Then, Fails, BeginClose, flagVars, busVars, callVars,
     LinuxInv, BackendTypes
<1>3. PowerShape'
  BY DEF OpenSleep, Then, Fails, BeginClose, CallEnable, BeginEnable,
     powerVars, control, flagVars, busVars, callVars, LinuxInv, PowerShape,
     RadioShape, FlagShape
<1>4. RadioShape'
  BY DEF OpenSleep, Then, Fails, BeginClose, CallEnable, BeginEnable,
     powerVars, control, flagVars, busVars, callVars, LinuxInv, PowerShape,
     RadioShape, FlagShape
<1>5. FlagShape'
  BY DEF OpenSleep, Then, Fails, BeginClose, CallEnable, BeginEnable,
     powerVars, control, flagVars, busVars, callVars, LinuxInv, PowerShape,
     RadioShape, FlagShape
<1> QED BY <1>1, <1>2, <1>3, <1>4, <1>5

(* open() goes on only with an enabled cap.                                *)
LEMMA OpenPoweredKeeps ==
  ASSUME LinuxInv, OpenPowered
  PROVE  /\ [PowerNext]_powerVars
         /\ BackendTypes' /\ PowerShape' /\ RadioShape' /\ FlagShape'
<1>1. [PowerNext]_powerVars
  BY DEF OpenPowered
<1>2. BackendTypes'
  BY DEF OpenPowered, Then, Fails, BeginClose, flagVars, busVars, callVars,
     LinuxInv, BackendTypes
<1>3. PowerShape'
  BY DEF OpenPowered, Then, Fails, BeginClose, powerVars, control, flagVars,
     busVars, callVars, LinuxInv, PowerShape, RadioShape, FlagShape
<1>4. RadioShape'
  BY DEF OpenPowered, Then, Fails, BeginClose, powerVars, control, flagVars,
     busVars, callVars, LinuxInv, PowerShape, RadioShape, FlagShape
<1>5. FlagShape'
  BY DEF OpenPowered, Then, Fails, BeginClose, powerVars, control, flagVars,
     busVars, callVars, LinuxInv, PowerShape, RadioShape, FlagShape
<1> QED BY <1>1, <1>2, <1>3, <1>4, <1>5

(* Waiting changes nothing.                                                *)
LEMMA OpenSettleKeeps ==
  ASSUME LinuxInv, OpenSettle
  PROVE  /\ [PowerNext]_powerVars
         /\ BackendTypes' /\ PowerShape' /\ RadioShape' /\ FlagShape'
<1>1. [PowerNext]_powerVars
  BY DEF OpenSettle
<1>2. BackendTypes'
  BY DEF OpenSettle, Then, Fails, BeginClose, flagVars, busVars, callVars,
     LinuxInv, BackendTypes
<1>3. PowerShape'
  BY DEF OpenSettle, Then, Fails, BeginClose, powerVars, control, flagVars,
     busVars, callVars, LinuxInv, PowerShape, RadioShape, FlagShape
<1>4. RadioShape'
  BY DEF OpenSettle, Then, Fails, BeginClose, powerVars, control, flagVars,
     busVars, callVars, LinuxInv, PowerShape, RadioShape, FlagShape
<1>5. FlagShape'
  BY DEF OpenSettle, Then, Fails, BeginClose, powerVars, control, flagVars,
     busVars, callVars, LinuxInv, PowerShape, RadioShape, FlagShape
<1> QED BY <1>1, <1>2, <1>3, <1>4, <1>5

(* Bus and radio appear on an enabled cap.                                 *)
LEMMA OpenSpiKeeps ==
  ASSUME LinuxInv, OpenSpi
  PROVE  /\ [PowerNext]_powerVars
         /\ BackendTypes' /\ PowerShape' /\ RadioShape' /\ FlagShape'
<1>1. [PowerNext]_powerVars
  BY DEF OpenSpi
<1>2. BackendTypes'
  BY DEF OpenSpi, Then, Fails, BeginClose, flagVars, busVars, callVars,
     LinuxInv, BackendTypes
<1>3. PowerShape'
  BY DEF OpenSpi, Then, Fails, BeginClose, powerVars, control, flagVars,
     busVars, callVars, LinuxInv, PowerShape, RadioShape, FlagShape
<1>4. RadioShape'
  BY DEF OpenSpi, Then, Fails, BeginClose, powerVars, control, flagVars,
     busVars, callVars, LinuxInv, PowerShape, RadioShape, FlagShape
<1>5. FlagShape'
  BY DEF OpenSpi, Then, Fails, BeginClose, powerVars, control, flagVars,
     busVars, callVars, LinuxInv, PowerShape, RadioShape, FlagShape
<1> QED BY <1>1, <1>2, <1>3, <1>4, <1>5

(* The first line is requested.                                            *)
LEMMA BeginSwitchKeeps ==
  ASSUME LinuxInv, BeginSwitch
  PROVE  /\ [PowerNext]_powerVars
         /\ BackendTypes' /\ PowerShape' /\ RadioShape' /\ FlagShape'
<1>1. [PowerNext]_powerVars
  <2>1. UseLine("G14") \/ UNCHANGED powerVars
    BY PinFnsAssumption DEF BeginSwitch, Request, PinctrlFails, PinctrlSet,
       Then, Fails, BeginClose, UseLine, powerVars, idleVars, LinuxInv,
       PowerShape, RadioShape
  <2> QED BY <2>1, UserSteps
<1>2. BackendTypes'
  BY DEF BeginSwitch, Request, PinctrlFails, Then, Fails, BeginClose,
     flagVars, busVars, callVars, LinuxInv, BackendTypes
<1>3. PowerShape'
  BY DEF BeginSwitch, Request, PinctrlFails, PinctrlSet, Then, Fails,
     BeginClose, idleVars, control, flagVars, busVars, callVars, LinuxInv,
     PowerShape, RadioShape, FlagShape
<1>4. RadioShape'
  BY DEF BeginSwitch, Request, PinctrlFails, PinctrlSet, Then, Fails,
     BeginClose, idleVars, control, flagVars, busVars, callVars, LinuxInv,
     PowerShape, RadioShape, FlagShape
<1>5. FlagShape'
  BY DEF BeginSwitch, Request, PinctrlFails, PinctrlSet, Then, Fails,
     BeginClose, idleVars, control, flagVars, busVars, callVars, LinuxInv,
     PowerShape, RadioShape, FlagShape
<1> QED BY <1>1, <1>2, <1>3, <1>4, <1>5

(* The second line is requested.                                           *)
LEMMA BeginGdo0Keeps ==
  ASSUME LinuxInv, BeginGdo0
  PROVE  /\ [PowerNext]_powerVars
         /\ BackendTypes' /\ PowerShape' /\ RadioShape' /\ FlagShape'
<1>1. [PowerNext]_powerVars
  <2>1. UseLine("G15") \/ UNCHANGED powerVars
    BY PinFnsAssumption DEF BeginGdo0, Request, PinctrlFails, PinctrlSet,
       Then, Fails, BeginClose, UseLine, powerVars, idleVars, LinuxInv,
       PowerShape, RadioShape
  <2> QED BY <2>1, UserSteps
<1>2. BackendTypes'
  BY DEF BeginGdo0, Request, PinctrlFails, Then, Fails, BeginClose, flagVars,
     busVars, callVars, LinuxInv, BackendTypes
<1>3. PowerShape'
  BY DEF BeginGdo0, Request, PinctrlFails, PinctrlSet, Then, Fails,
     BeginClose, idleVars, control, flagVars, busVars, callVars, LinuxInv,
     PowerShape, RadioShape, FlagShape
<1>4. RadioShape'
  <2>1. bpc' = "configure" => RadioPins \subseteq lines'
    BY DEF BeginGdo0, Request, Fails, BeginClose, LinuxInv, RadioShape, RadioPins
  <2> QED BY <2>1 DEF BeginGdo0, Request, PinctrlFails, PinctrlSet, Then, Fails,
     BeginClose, idleVars, control, flagVars, busVars, callVars, LinuxInv,
     PowerShape, RadioShape, FlagShape
<1>5. FlagShape'
  BY DEF BeginGdo0, Request, PinctrlFails, PinctrlSet, Then, Fails,
     BeginClose, idleVars, control, flagVars, busVars, callVars, LinuxInv,
     PowerShape, RadioShape, FlagShape
<1> QED BY <1>1, <1>2, <1>3, <1>4, <1>5

(* The radio is configured with both lines held.                           *)
LEMMA ConfigureKeeps ==
  ASSUME LinuxInv, Configure
  PROVE  /\ [PowerNext]_powerVars
         /\ BackendTypes' /\ PowerShape' /\ RadioShape' /\ FlagShape'
<1>1. [PowerNext]_powerVars
  <2>1. UseLine("G14") \/ UNCHANGED powerVars
    BY PinFnsAssumption DEF Configure, Request, PinctrlFails, PinctrlSet,
       Then, Fails, BeginClose, UseLine, powerVars, idleVars, LinuxInv,
       PowerShape, RadioShape
  <2> QED BY <2>1, UserSteps
<1>2. BackendTypes'
  BY DEF Configure, Request, PinctrlFails, Then, Fails, BeginClose, flagVars,
     busVars, callVars, LinuxInv, BackendTypes
<1>3. PowerShape'
  BY DEF Configure, Request, PinctrlFails, PinctrlSet, Then, Fails,
     BeginClose, idleVars, control, flagVars, busVars, callVars, LinuxInv,
     PowerShape, RadioShape, FlagShape
<1>4. RadioShape'
  BY DEF Configure, Request, PinctrlFails, PinctrlSet, Then, Fails,
     BeginClose, idleVars, control, flagVars, busVars, callVars, LinuxInv,
     PowerShape, RadioShape, FlagShape
<1>5. FlagShape'
  BY DEF Configure, Request, PinctrlFails, PinctrlSet, Then, Fails,
     BeginClose, idleVars, control, flagVars, busVars, callVars, LinuxInv,
     PowerShape, RadioShape, FlagShape
<1> QED BY <1>1, <1>2, <1>3, <1>4, <1>5

(* _open is set last.                                                      *)
LEMMA OpenInfoKeeps ==
  ASSUME LinuxInv, OpenInfo
  PROVE  /\ [PowerNext]_powerVars
         /\ BackendTypes' /\ PowerShape' /\ RadioShape' /\ FlagShape'
<1>1. [PowerNext]_powerVars
  BY DEF OpenInfo
<1>2. BackendTypes'
  BY DEF OpenInfo, Then, Fails, BeginClose, flagVars, busVars, callVars,
     LinuxInv, BackendTypes
<1>3. PowerShape'
  BY DEF OpenInfo, Then, Fails, BeginClose, powerVars, control, flagVars,
     busVars, callVars, LinuxInv, PowerShape, RadioShape, FlagShape
<1>4. RadioShape'
  BY DEF OpenInfo, Then, Fails, BeginClose, powerVars, control, flagVars,
     busVars, callVars, LinuxInv, PowerShape, RadioShape, FlagShape
<1>5. FlagShape'
  BY DEF OpenInfo, Then, Fails, BeginClose, powerVars, control, flagVars,
     busVars, callVars, LinuxInv, PowerShape, RadioShape, FlagShape
<1> QED BY <1>1, <1>2, <1>3, <1>4, <1>5

(* Receiving begins on an open backend.                                    *)
LEMMA StartReceiveKeeps ==
  ASSUME LinuxInv, StartReceive
  PROVE  /\ [PowerNext]_powerVars
         /\ BackendTypes' /\ PowerShape' /\ RadioShape' /\ FlagShape'
<1>1. [PowerNext]_powerVars
  BY DEF StartReceive
<1>2. BackendTypes'
  BY DEF StartReceive, RequireOpen, flagVars, busVars, callVars, LinuxInv,
     BackendTypes
<1>3. PowerShape'
  BY DEF StartReceive, RequireOpen, powerVars, control, flagVars, busVars,
     callVars, LinuxInv, PowerShape, RadioShape, FlagShape
<1>4. RadioShape'
  BY DEF StartReceive, RequireOpen, powerVars, control, flagVars, busVars,
     callVars, LinuxInv, PowerShape, RadioShape, FlagShape
<1>5. FlagShape'
  BY DEF StartReceive, RequireOpen, powerVars, control, flagVars, busVars,
     callVars, LinuxInv, PowerShape, RadioShape, FlagShape
<1> QED BY <1>1, <1>2, <1>3, <1>4, <1>5

(* Receiving ends.                                                         *)
LEMMA StopReceiveKeeps ==
  ASSUME LinuxInv, StopReceive
  PROVE  /\ [PowerNext]_powerVars
         /\ BackendTypes' /\ PowerShape' /\ RadioShape' /\ FlagShape'
<1>1. [PowerNext]_powerVars
  BY DEF StopReceive
<1>2. BackendTypes'
  BY DEF StopReceive, RequireOpen, flagVars, busVars, callVars, LinuxInv,
     BackendTypes
<1>3. PowerShape'
  BY DEF StopReceive, RequireOpen, powerVars, control, flagVars, busVars,
     callVars, LinuxInv, PowerShape, RadioShape, FlagShape
<1>4. RadioShape'
  BY DEF StopReceive, RequireOpen, powerVars, control, flagVars, busVars,
     callVars, LinuxInv, PowerShape, RadioShape, FlagShape
<1>5. FlagShape'
  BY DEF StopReceive, RequireOpen, powerVars, control, flagVars, busVars,
     callVars, LinuxInv, PowerShape, RadioShape, FlagShape
<1> QED BY <1>1, <1>2, <1>3, <1>4, <1>5

LEMMA LinuxInitially == LinuxInit => LinuxInv
<1> SUFFICES ASSUME LinuxInit PROVE LinuxInv
  OBVIOUS
<1>1. PowerInv
  BY PowerInitially DEF LinuxInit
<1>2. BackendTypes
  BY <1>1 DEF LinuxInit, BackendTypes, PowerInv, PowerTypeOK, FlagTypes
<1>3. PowerShape /\ RadioShape /\ FlagShape
  BY DEF LinuxInit, PowerInit, PowerShape, RadioShape, FlagShape
<1> QED BY <1>1, <1>2, <1>3 DEF LinuxInv

(* Every step of the backend is a step of a user of the power object.      *)
LEMMA LinuxStepKeeps ==
  ASSUME LinuxInv, [LinuxNext]_linuxVars
  PROVE  LinuxInv' /\ [PowerNext]_powerVars
<1>1. CASE LinuxNext
  <2>1. /\ [PowerNext]_powerVars
        /\ BackendTypes' /\ PowerShape' /\ RadioShape' /\ FlagShape'
    <3>1. CASE CloseStep
      BY <3>1, CloseRadioKeeps, SwitchLowKeeps, ReleaseGdo0Keeps, ReleaseSwitchKeeps,
         CloseBusKeeps, EndCloseKeeps DEF CloseStep
    <3>2. CASE OpenStep
      BY <3>2, OpenSleepKeeps, OpenPoweredKeeps, OpenSettleKeeps, OpenSpiKeeps,
         BeginSwitchKeeps, BeginGdo0Keeps, ConfigureKeeps, OpenInfoKeeps DEF OpenStep
    <3>3. CASE CallOpen \/ CallClose \/ Powering \/ StartReceive \/ StopReceive
      BY <3>3, CallOpenKeeps, CallCloseKeeps, PoweringKeeps, StartReceiveKeeps,
         StopReceiveKeeps
    <3> QED BY <1>1, <3>1, <3>2, <3>3 DEF LinuxNext
  <2>2. PowerInv'
    BY <2>1, PowerStepKeeps DEF LinuxInv
  <2> QED BY <2>1, <2>2 DEF LinuxInv
<1>2. CASE UNCHANGED linuxVars
  <2>1. UNCHANGED powerVars
    BY <1>2 DEF linuxVars
  <2>2. PowerInv'
    BY <2>1, PowerStepKeeps DEF LinuxInv
  <2>3. BackendTypes' /\ PowerShape' /\ RadioShape' /\ FlagShape'
    BY <1>2 DEF linuxVars, powerVars, control, backendVars, flagVars, busVars,
       callVars, LinuxInv, BackendTypes, PowerShape, RadioShape, FlagShape
  <2> QED BY <2>1, <2>2, <2>3 DEF LinuxInv
<1> QED BY <1>1, <1>2

(* The invariant, and with it the type invariant, of every call sequence.  *)
THEOREM LinuxInvariant == LinuxSpec => []LinuxInv
BY LinuxInitially, LinuxStepKeeps, PTL DEF LinuxSpec

(* The types: with them every line is held by one of its users, and the    *)
(* power object is called by one of the calls of the backend.              *)
THEOREM BackendTypeCorrect == LinuxSpec => []LinuxTypeOK
<1>1. LinuxInv => LinuxTypeOK
  BY DEF LinuxInv, PowerInv, LinuxTypeOK
<1> QED BY <1>1, LinuxInvariant, PTL

(* Whichever step of open() fails or is cancelled, the backend uses the    *)
(* pins only of a powered cap and releases them before it takes the power  *)
(* away: what is proved of CapPower holds of the program.                  *)
THEOREM UsesPowerAsSpecified == LinuxSpec => PowerUsedAsSpecified
<1>1. LinuxInit => PowerInit
  BY DEF LinuxInit
<1>2. LinuxInv /\ [LinuxNext]_linuxVars => [PowerNext]_powerVars
  BY LinuxStepKeeps
<1> QED BY <1>1, <1>2, LinuxInvariant, PTL DEF LinuxSpec, PowerUsedAsSpecified, PowerSpec

(* So a pin that the program changed and has not restored is never         *)
(* forgotten, through any sequence of opens, closes, failures and retries. *)
THEOREM BackendForgetsNoPin == LinuxSpec => []PinsAreRemembered
BY UsesPowerAsSpecified, PinsAreNeverForgotten, PTL DEF PowerUsedAsSpecified

(* Between calls the backend is open as a whole or closed as a whole.      *)
THEOREM BackendIsWholeOrNothing == LinuxSpec => []WholeOrNothing
<1>1. LinuxInv => WholeOrNothing
  <2> SUFFICES ASSUME LinuxInv, bpc = "idle"
               PROVE  IF open THEN radio /\ spi /\ enabled /\ RadioPins \subseteq lines
                      ELSE ~radio /\ ~spi /\ ~enabled /\ lines = {} /\ ~listening
    BY DEF WholeOrNothing
  <2>1. CASE open
    BY <2>1 DEF LinuxInv, FlagShape, RadioShape
  <2>2. CASE ~open
    <3>1. ~radio /\ ~spi /\ ~enabled /\ ~listening /\ pc = "idle"
      BY <2>2 DEF LinuxInv, FlagShape, PowerShape
    <3>2. lines = {}
      BY <3>1 DEF LinuxInv, PowerInv, LinesShape
    <3> QED BY <2>2, <3>1, <3>2
  <2> QED BY <2>1, <2>2
<1> QED BY <1>1, LinuxInvariant, PTL

(* The backend keeps what RadioWorker relies on.                           *)
THEOREM BackendKeepsContract == LinuxSpec => KeepsContract
<1>1. LinuxInit => Contract!Init
  BY DEF LinuxInit, Contract!Init
<1>2. ASSUME LinuxInv, [LinuxNext]_linuxVars
      PROVE  Contract!Next \/ UNCHANGED <<open, listening>>
  <2>1. CASE CloseRadio \/ StopReceive
    BY <2>1 DEF CloseRadio, StopReceive, callVars, Contract!Next, Contract!StopReceive
  <2>2. CASE EndClose
    <3>1. listening' = FALSE
      BY <1>2, <2>2 DEF EndClose, LinuxInv, FlagShape, BackendTypes
    <3> QED BY <2>2, <3>1 DEF EndClose, Contract!Next, Contract!Close
  <2>3. CASE OpenInfo
    <3>1. ~open /\ ~listening /\ UNCHANGED listening
      BY <1>2, <2>3 DEF OpenInfo, LinuxInv, FlagShape
    <3> QED BY <2>3, <3>1 DEF OpenInfo, Contract!Next, Contract!Open
  <2>4. CASE StartReceive
    BY <2>4 DEF StartReceive, RequireOpen, Contract!Next, Contract!StartReceive,
       Contract!StopReceive
  <2>5. CASE \/ CallOpen \/ CallClose \/ Powering
             \/ SwitchLow \/ ReleaseGdo0 \/ ReleaseSwitch \/ CloseBus
    BY <2>5 DEF CallOpen, CallClose, Powering, SwitchLow, ReleaseGdo0, ReleaseSwitch,
       CloseBus, backendVars, flagVars
  <2>6. CASE \/ OpenSleep \/ OpenPowered \/ OpenSettle \/ OpenSpi
             \/ BeginSwitch \/ BeginGdo0 \/ Configure
    BY <2>6 DEF OpenSleep, OpenPowered, OpenSettle, OpenSpi, BeginSwitch, BeginGdo0,
       Configure, flagVars
  <2>7. CASE UNCHANGED linuxVars
    BY <2>7 DEF linuxVars, backendVars, flagVars
  <2> QED BY <1>2, <2>1, <2>2, <2>3, <2>4, <2>5, <2>6, <2>7
          DEF LinuxNext, CloseStep, OpenStep
<1>3. LinuxInv /\ [LinuxNext]_linuxVars => [Contract!Next]_Contract!backend
  BY <1>2 DEF Contract!backend
<1> QED BY <1>1, <1>3, LinuxInvariant, PTL DEF LinuxSpec, KeepsContract, Contract!Spec
-----------------------------------------------------------------------------
(* The children of its commands.                                           *)

LEMMA ChildLeftNot == ChildSpec => []NoChildLeft
<1>1. ChildInit => NoChildLeft
  BY DEF ChildInit, NoChildLeft
<1>2. ASSUME NoChildLeft, [ChildNext]_allVars
      PROVE  NoChildLeft'
  <2>1. CASE SpawnSet \/ SpawnCapture
    BY <1>2, <2>1 DEF SpawnSet, SpawnCapture, Spawn, NoChildLeft
  <2>2. CASE ChildActs
    BY <1>2, <2>2 DEF ChildActs, NoChildLeft
  <2>3. CASE ChildEnds
    BY <1>2, <2>3 DEF ChildEnds, NoChildLeft
  <2>4. CASE ReapSet \/ ReapCapture
    BY <2>4 DEF ReapSet, ReapCapture, Reap, NoChildLeft
  <2>5. CASE GiveUpSet \/ GiveUpCapture
    BY <2>5 DEF GiveUpSet, GiveUpCapture, Kill, NoChildLeft
  <2>6. CASE NextCapture
    BY <1>2, <2>6 DEF NextCapture, NoChildLeft
  <2>7. CASE Conclude
    BY <1>2, <2>7 DEF Conclude, NoChildLeft
  <2>8. CASE Elsewhere
    BY <1>2, <2>8 DEF Elsewhere, NoChildLeft, childVars
  <2>9. CASE UNCHANGED allVars
    BY <1>2, <2>9 DEF NoChildLeft, allVars, childVars
  <2> QED
    BY <1>2, <2>1, <2>2, <2>3, <2>4, <2>5, <2>6, <2>7, <2>8, <2>9 DEF ChildNext
<1> QED
  BY <1>1, <1>2, PTL DEF ChildSpec

LEMMA ChildStep ==
  ASSUME NoChildLeft, [ChildNext]_allVars
  PROVE  [LinuxNext]_linuxVars
<1>1. CASE ChildActs
  <2>1. call = "waits"
    BY <1>1 DEF ChildActs, NoChildLeft
  <2>2. pin' = pin
    BY <1>1, <2>1 DEF ChildActs, PinsAfter
  <2> QED
    BY <1>1, <2>2 DEF ChildActs, linuxVars, powerVars
<1>2. CASE Conclude
  BY <1>2 DEF Conclude, LinuxNext
<1>3. CASE Elsewhere
  BY <1>3 DEF Elsewhere
<1>4. CASE SpawnSet \/ SpawnCapture
  BY <1>4 DEF SpawnSet, SpawnCapture, Spawn
<1>5. CASE ReapSet \/ ReapCapture
  BY <1>5 DEF ReapSet, ReapCapture, Reap
<1>6. CASE GiveUpSet \/ GiveUpCapture
  BY <1>6 DEF GiveUpSet, GiveUpCapture
<1>7. CASE ChildEnds \/ NextCapture
  BY <1>7 DEF ChildEnds, NextCapture
<1>8. CASE UNCHANGED allVars
  BY <1>8 DEF allVars
<1> QED
  BY <1>1, <1>2, <1>3, <1>4, <1>5, <1>6, <1>7, <1>8 DEF ChildNext
-----------------------------------------------------------------------------
(* Whatever ends a command, a child that it started is dead and waited for *)
(* when it returns (cardputerzero_cc1101_power.cpp:404-443, 561-620).      *)
THEOREM NoChildOutlivesItsCommand == ChildSpec => []NoChildLeft
BY ChildLeftNot

(* The commands may be taken as one step each: with all that happens while *)
(* a child is waited for the backend is LinuxBackend's.                    *)
THEOREM CommandsAreSteps == ChildSpec => LinuxSpec
<1>1. ChildInit => LinuxInit
  BY DEF ChildInit
<1>2. NoChildLeft /\ [ChildNext]_allVars => [LinuxNext]_linuxVars
  BY ChildStep
<1> QED
  BY <1>1, <1>2, ChildLeftNot, PTL DEF ChildSpec, LinuxSpec

(* No child that is killed or left behind changes a pin that the program   *)
(* has forgotten (cardputerzero_cc1101_power.cpp:219-225, 341-365).        *)
THEOREM ChildrenForgetNoPin == ChildSpec => []PinsAreRemembered
BY CommandsAreSteps, BackendForgetsNoPin, PTL

(* And none sets a pin but in a step in which the power object does.       *)
THEOREM ChildrenUsePowerAsSpecified == ChildSpec => PowerUsedAsSpecified
BY CommandsAreSteps, UsesPowerAsSpecified
=============================================================================
