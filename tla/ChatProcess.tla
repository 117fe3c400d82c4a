----------------------------- MODULE ChatProcess ------------------------------
(***************************************************************************)
(* The process, src/src/main.cpp, on the device: its main loop, the        *)
(* signals that ask it to end, and the alarm that ends it by force if it   *)
(* takes too long over that.  No key of the device ends it: it is the      *)
(* launcher that sends a signal.  The nickname is saved by a key that the  *)
(* loop polls, so that a signal, the alarm or a crash may come at any step *)
(* of Nickname's.  Some of the calls may never return.                     *)
(***************************************************************************)
EXTENDS Nickname

CONSTANTS
  SomeTokens,  (* bound: tokens                                            *)
  Payloads     (* bound: messages                                          *)

ASSUME ProcessAssumption ==
  /\ SomeTokens \subseteq Tokens
  /\ Payloads \subseteq {p \in Seq(Bytes) : Len(p) \in 1..MaxMessage}

VARIABLES
  phase,   (* what main() does; off: there is no process                   *)
  signal,  (* g_signal_exit_requested                                      *)
  alarm,   (* the alarm is set                                             *)
  stuck    (* the call that main() makes does not return                   *)

flags == <<signal, alarm>>
vars  == <<nickVars, phase, flags, stuck>>

Running == phase # "off"
Phases  == {"off", "start", "loop", "poll", "handler", "tick", "stop", "hal"}

Init ==
  /\ NickInit /\ phase = "off"
  /\ signal = FALSE /\ alarm = FALSE /\ stuck = FALSE

Does(from, to) == phase = from /\ ~stuck /\ phase' = to

Launch ==
  /\ Does("off", "start")
  /\ signal' = FALSE
  /\ UNCHANGED <<nickVars, alarm, stuck>>

(* The display and the keys are there, and the application starts.         *)
Start ==
  /\ Does("start", "loop") /\ Load
  /\ UNCHANGED <<account, fileVars, saveVars, flags, stuck>>

StartFails ==
  /\ Does("start", "off") /\ alarm' = FALSE
  /\ UNCHANGED <<nickVars, signal, stuck>>

LoopOn ==
  /\ ~signal /\ Does("loop", "poll")
  /\ UNCHANGED <<nickVars, flags, stuck>>

(* Keys: the one that matters here saves the draft as a name.              *)
SaveKey ==
  /\ phase = "poll" /\ ~stuck /\ (\E draft \in Edits(name) : BeginSave(draft))
  /\ UNCHANGED <<phase, flags, stuck>>

Saves ==
  /\ phase = "poll" /\ ~stuck /\ SaveStep
  /\ UNCHANGED <<phase, flags, stuck>>

Polled ==
  /\ step = "none" /\ ~signal /\ Does("poll", "handler")
  /\ UNCHANGED <<nickVars, flags, stuck>>

Handled ==
  /\ ~signal /\ Does("handler", "tick")
  /\ UNCHANGED <<nickVars, flags, stuck>>

Ticked ==
  /\ Does("tick", "loop")
  /\ UNCHANGED <<nickVars, flags, stuck>>

(* The loop is left, and the alarm set anew.                               *)
LeaveLoop ==
  /\ signal
  /\ \/ Does("loop", "stop")
     \/ step = "none" /\ Does("poll", "stop")
     \/ Does("handler", "stop")
  /\ alarm' = TRUE
  /\ UNCHANGED <<nickVars, signal, stuck>>

(* app.stop(), which joins the worker.                                     *)
Stopped ==
  /\ Does("stop", "hal")
  /\ UNCHANGED <<nickVars, flags, stuck>>

(* The keypad and the display are closed, and the alarm is called off.     *)
End ==
  /\ Does("hal", "off") /\ name' = <<>> /\ alarm' = FALSE
  /\ UNCHANGED <<account, fileVars, saveVars, signal, stuck>>

Main == \/ Start \/ StartFails \/ LoopOn \/ Saves \/ Polled \/ Handled \/ Ticked
        \/ LeaveLoop \/ Stopped \/ End
-----------------------------------------------------------------------------
(* A worker that missed its wake-up is never joined; a system call on a    *)
(* device or a file may hang.                                              *)
GetsStuck ==
  /\ phase \in {"start", "poll", "handler", "stop", "hal"} /\ stuck' = TRUE
  /\ UNCHANGED <<nickVars, phase, flags>>

(* requestExitFromSignal().  Mutant: the alarm is left to the end of the   *)
(* loop.                                                                   *)
RequestExitOnly == signal' = TRUE /\ UNCHANGED alarm
RequestExit     == signal' = TRUE /\ alarm' = TRUE

Signalled ==
  /\ Running /\ RequestExit
  /\ UNCHANGED <<nickVars, phase, stuck>>

Gone == phase' = "off" /\ alarm' = FALSE /\ stuck' = FALSE /\ UNCHANGED signal

(* SIGALRM: forceExitAfterShutdownTimeout().                               *)
AlarmFires == Running /\ alarm /\ NickDies /\ Gone

Killed == Running /\ NickDies /\ Gone

PowerFails == NickPowerFails /\ Gone

WritesBack == disk # {file} /\ WriteBack /\ UNCHANGED <<phase, flags, stuck>>

Next ==
  \/ Launch \/ SaveKey \/ Main
  \/ GetsStuck \/ Signalled \/ AlarmFires \/ Killed \/ PowerFails \/ WritesBack

Spec == Init /\ [][Next]_vars

(* main() goes on unless it is stuck, and time passes.                     *)
FairSpec == Spec /\ WF_vars(Main) /\ WF_vars(AlarmFires)
-----------------------------------------------------------------------------
(* The type invariant.                                                     *)
ProcessTypeOK ==
  /\ phase \in Phases
  /\ signal \in BOOLEAN /\ alarm \in BOOLEAN /\ stuck \in BOOLEAN
  /\ NickTypeOK

(* Between saves the name in use is the one that the next start will find; *)
(* a save that failed anywhere changes neither.  There is one exception: a *)
(* name that was made of an account's that is not printable, and is not    *)
(* printable either, is saved and used, but only until the next start,     *)
(* which returns to the account's (chat_model.cpp:439-443, 526-550, 78,    *)
(* 239-245).                                                               *)
NameIsSaved ==
  phase \notin {"off", "start"} /\ step = "none" =>
    \/ name = Loaded(file)
    \/ name = file /\ ~IsPrintable(name) /\ ~IsPrintable(account)

(* The name in use goes with every message for which there is room, and    *)
(* with none does it change the message: whatever is sent is decoded as it *)
(* was sent.  A name that is not printable, an account's or one that was   *)
(* made of it, is refused with the message (chat_protocol.cpp:61-79,       *)
(* 94-135).                                                                *)
NameIsCarried ==
  name # <<>> =>
    \A token \in SomeTokens, payload \in Payloads :
      IF IsPrintable(name)
      THEN ~LooksNamed(payload) => CarriesBoth(token, payload, name)
      ELSE EncodeNamed(token, payload, name) = Refused

(* A process that is asked to end does end, even if the worker or a device *)
(* hangs it (main.cpp:19-46, 93-120).                                      *)
EndsWhenAsked == Running /\ signal ~> ~Running
=============================================================================
