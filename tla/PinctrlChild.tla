---------------------------- MODULE PinctrlChild ----------------------------
(***************************************************************************)
(* The commands by which the power object reads and sets pins: runPinctrl() *)
(* and runPinctrlCapture() of src/src/hal/cardputerzero_cc1101_power.cpp,  *)
(* under the backend of LinuxBackend.  Each starts a pinctrl child and     *)
(* polls for its end until it is cancelled or a deadline passes, while the *)
(* child does what it was told whenever it comes to it.                    *)
(*                                                                         *)
(* CapPower has a command as one step, after which it has had its effect   *)
(* or never will.  Here that is to be shown: a child that outlived its     *)
(* command might set a pin that has been restored and forgotten since.     *)
(*                                                                         *)
(* Nothing looks at a pin while a command is waited for, and what the      *)
(* child then does to it is held back in `carried' until the command ends. *)
(***************************************************************************)
EXTENDS Naturals, LinuxBackend

VARIABLES
  call,      (* none, waits, or what it came to: ok or failed              *)
  child,     (* none, running, or ended and not waited for yet             *)
  order,     (* the pin it is to set, and to which function                *)
  carried,   (* it has carried out the order                               *)
  captured   (* how many pins the snapshot in progress has                 *)

childVars == <<call, child, order, carried, captured>>
allVars   == <<linuxVars, childVars>>

NoPin   == "none"
NoOrder == [pin |-> NoPin, fn |-> Input]

ChildInit ==
  /\ LinuxInit
  /\ call = "none" /\ child = "none" /\ order = NoOrder /\ carried = FALSE /\ captured = 0

(* The power object is at a command; a query sets no pin.                  *)
Due ==
  \/ pc \in {"snapshot", "set"}
  \/ pc = "restore" /\ todo # <<>> /\ Head(todo) \in restorePending

Order ==
  CASE pc = "snapshot" -> NoOrder
    [] pc = "set"      -> [pin |-> Head(todo), fn |-> Configured(Head(todo))]
    [] pc = "restore"  -> [pin |-> Head(todo), fn |-> previousPin[Head(todo)]]

(* The pins once an order is carried out.                                  *)
PinsAfter(done) ==
  IF done /\ order # NoOrder THEN [pin EXCEPT ![order.pin] = order.fn] ELSE pin
-----------------------------------------------------------------------------
(* posix_spawnp(), or a failure of it or of what prepares it.              *)
Spawn ==
  /\ call = "none"
  /\ order' = Order /\ carried' = FALSE
  /\ \/ call' = "waits" /\ child' = "running"
     \/ call' = "failed" /\ UNCHANGED child
  /\ UNCHANGED <<linuxVars, captured>>

SpawnSet     == Due /\ pc # "snapshot" /\ Spawn
SpawnCapture == Due /\ pc = "snapshot" /\ Spawn

ChildActs ==
  /\ child = "running" /\ ~carried
  /\ carried' = TRUE
  /\ pin' = PinsAfter(call # "waits")
  /\ UNCHANGED <<lines, rail, enabled, gpio26Requested, ext5vVars, pinVars, control, outside,
                 originalRail, backendVars, call, child, order, captured>>

(* It may fail after it has done its work, but does not succeed before.    *)
ChildEnds ==
  /\ child = "running"
  /\ child' = "failed" \/ (carried /\ child' = "ok")
  /\ UNCHANGED <<linuxVars, call, order, carried, captured>>

(* waitpid() gives the status of a child that has ended; of a query, what  *)
(* it printed counts too: nothing, or too much, is a failure.              *)
Reap(outcomes) ==
  /\ call = "waits" /\ child \in {"ok", "failed"}
  /\ call' \in outcomes /\ child' = "none"
  /\ UNCHANGED <<linuxVars, order, carried, captured>>

ReapSet     == pc # "snapshot" /\ Reap({child})
ReapCapture == pc = "snapshot" /\ Reap({child, "failed"})

(* Cancelled, too late, or unable to wait: whatever has become of the      *)
(* child by now, it is killed and waited for.  Mutant: it is let run on.   *)
LetRun == call = "waits" /\ call' = "failed" /\ UNCHANGED child

Kill == call = "waits" /\ call' = "failed" /\ child' = "none"

GiveUpSet ==
  /\ pc # "snapshot" /\ Kill
  /\ UNCHANGED <<linuxVars, order, carried, captured>>

(* A query's child is waited for again when a signal interrupts the wait.  *)
GiveUpCapture ==
  /\ pc = "snapshot" /\ Kill
  /\ UNCHANGED <<linuxVars, order, carried, captured>>

(* runPinctrlCapture() for one pin after the other.                        *)
NextCapture ==
  /\ pc = "snapshot" /\ call = "ok" /\ captured + 1 < Len(CapGpios)
  /\ captured' = captured + 1 /\ call' = "none"
  /\ UNCHANGED <<linuxVars, child, order, carried>>

(* What the power object makes of the outcome of a command.  An answer     *)
(* that cannot be parsed is a failure too.                                 *)
Outcome ==
  CASE pc = "snapshot" -> (pc' = "set" => call = "ok" /\ captured + 1 = Len(CapGpios))
    [] pc = "set"      -> (pc' = "release26") = (call = "failed")
    [] pc = "restore"  -> (Head(todo) \in restorePending') = (call = "failed")

Conclude ==
  /\ Due /\ call \in {"ok", "failed"}
  /\ Powering /\ Outcome /\ pin' = PinsAfter(carried)
  /\ call' = "none" /\ captured' = 0
  /\ IF child = "none" THEN order' = NoOrder /\ carried' = FALSE /\ UNCHANGED child
                       ELSE UNCHANGED <<order, carried, child>>

Elsewhere == ~Due /\ LinuxNext /\ UNCHANGED childVars

ChildNext ==
  \/ SpawnSet \/ ReapSet \/ GiveUpSet
  \/ SpawnCapture \/ ReapCapture \/ GiveUpCapture \/ NextCapture
  \/ ChildActs \/ ChildEnds
  \/ Conclude \/ Elsewhere

ChildSpec == ChildInit /\ [][ChildNext]_allVars
-----------------------------------------------------------------------------
(* No child outlives its command.                                          *)
NoChildLeft == child # "none" => call = "waits"
=============================================================================
