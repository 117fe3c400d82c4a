---------------------------- MODULE RadioWorker ----------------------------
(***************************************************************************)
(* The radio worker of src/src/radio/radio_worker.cpp: a UI thread that    *)
(* starts, stops, commands and drains the worker, and the worker thread    *)
(* that drives a RadioBackend.  The two share a bounded command queue with *)
(* a condition variable, a bounded event queue that evicts when full, and  *)
(* two atomic flags.                                                       *)
(*                                                                         *)
(* Grain of atomicity: one step per critical section of either thread, per *)
(* access to an atomic flag that decides something, and per backend call.  *)
(* The worker pushes its events one at a time: a step leaves the events it *)
(* is about to push in `out', and no other worker step is taken until they *)
(* are in the queue, so the UI thread can run between any two of them.     *)
(*                                                                         *)
(* A backend call returns, throws, or, once a stop is requested, throws    *)
(* RadioCancelled: the three outcomes are disjuncts of every action that   *)
(* makes one.                                                              *)
(***************************************************************************)
EXTENDS Naturals, Sequences, SequencesExt

CONSTANTS
  SendIds,          (* ids of the send commands the UI may post, each once *)
  PeerTokens,       (* protocol tokens of the data frames peers transmit   *)
  UiCommands,       (* the commands the UI posts in this instance          *)
  CommandCapacity,  (* kCommandQueueCapacity                               *)
  EventCapacity,    (* kEventQueueCapacity                                 *)
  MaxAttempts,      (* kMaximumSendAttempts                                *)
  TokenWindow,      (* kRecentTokenCapacity                                *)
  DropLimit,        (* where the model's count of evicted events saturates *)
  NoSend            (* no send is being handled                            *)

SendCommand(id) == [type |-> "Send", arg |-> id]
RetryCommand    == [type |-> "Retry", arg |-> "none"]
ReceiveOn       == [type |-> "SetReceive", arg |-> "on"]
ReceiveOff      == [type |-> "SetReceive", arg |-> "off"]
Commands        == {SendCommand(id) : id \in SendIds}
                     \cup {RetryCommand, ReceiveOn, ReceiveOff}

ASSUME CapacityAssumption ==
  /\ CommandCapacity \in Nat \ {0}
  /\ EventCapacity \in Nat \ {0}
  /\ MaxAttempts \in Nat \ {0}
  /\ TokenWindow \in Nat \ {0}
  /\ DropLimit \in Nat \ {0}
ASSUME CommandAssumption == UiCommands \subseteq Commands
ASSUME NoSendAssumption  == NoSend \notin SendIds

RadioStates == {"Initializing", "Receiving", "Idle", "Sending", "Error",
                "Stopping", "Stopped"}
Operations  == {"initialize", "set receive", "receive", "restore receive"}

StateEvent(s)  == [type |-> "State", arg |-> s]
ErrorEvent(o)  == [type |-> "Error", arg |-> o]
InitializedEvt == [type |-> "Initialized", arg |-> "info"]
RxPacket(t)    == [type |-> "RxPacket", arg |-> t]
LegacyPacket   == [type |-> "RxPacket", arg |-> "legacy"]
TxStarted(id)   == [type |-> "TxStarted", arg |-> id]
TxCompleted(id) == [type |-> "TxCompleted", arg |-> id]
TxFailed(id)    == [type |-> "TxFailed", arg |-> id]

TxEndTypes == {"TxCompleted", "TxFailed"}
Events == [type : {"State"}, arg : RadioStates]
            \cup [type : {"Error"}, arg : Operations]
            \cup {InitializedEvt, LegacyPacket}
            \cup [type : {"RxPacket"}, arg : PeerTokens]
            \cup [type : {"TxStarted"} \cup TxEndTypes, arg : SendIds]

VARIABLES
  ui,                (* what the UI thread is in the middle of             *)
  running,           (* _running                                           *)
  stopRequested,     (* _stop_requested                                    *)
  commands,          (* _commands                                          *)
  events,            (* _events                                            *)
  dropped,           (* _pending_dropped_events, saturating at DropLimit   *)
  pc,                (* where the worker thread is                         *)
  out,               (* events the worker is about to push, in order       *)
  initialized,       (* run()'s local                                      *)
  receiveRequested,  (* run()'s local                                      *)
  sendId, attempt,   (* handleSend()'s command.id and attempt              *)
  recent,            (* _recent_rx_tokens                                  *)
  open, listening    (* the backend's _open and _receiving                 *)

(* History of the session, read by the properties only.                    *)
VARIABLES
  phase,      (* what has become of each send id                           *)
  lastState,  (* the last state event pushed                               *)
  warned      (* the UI has popped an overflow notice in this session      *)

threadVars  == <<running, stopRequested>>
queueVars   == <<events, dropped>>
sendVars    == <<sendId, attempt>>
modeVars    == <<initialized, receiveRequested>>
backendVars == <<open, listening>>
history     == <<phase, lastState, warned>>
workerVars  == <<pc, out, modeVars, sendVars, recent, backendVars>>
vars == <<ui, threadVars, commands, queueVars, workerVars, history>>

Phases == {"fresh", "accepted", "concluded", "seen", "abandoned", "twice"}

SendPcs == {"txStop", "transmit", "txStart", "txWait", "backoff", "txReset"}
AckPcs  == {"ackStop", "ackTransmit", "ackStart"}
WaitPcs == {"waitCheck", "parking", "parked"}
Pcs == {"none", "init", "initClose", "initOpen", "initStart", "initFail", "loop",
        "dequeue", "rx", "setReceive", "restore", "failClose", "stopping",
        "finalClose", "exit", "exited"} \cup SendPcs \cup AckPcs \cup WaitPcs

Init ==
  /\ ui = "idle" /\ running = FALSE /\ stopRequested = FALSE
  /\ commands = <<>> /\ events = <<>> /\ dropped = 0
  /\ pc = "none" /\ out = <<>>
  /\ initialized = FALSE /\ receiveRequested = FALSE
  /\ sendId = NoSend /\ attempt = 0 /\ recent = <<>>
  /\ open = FALSE /\ listening = FALSE
  /\ phase = [id \in SendIds |-> "fresh"]
  /\ lastState = "None" /\ warned = FALSE
-----------------------------------------------------------------------------
(* The event queue: a full queue gives up its oldest received packet, or,  *)
(* without one, its oldest event.                                          *)

RxIndices(q) == {i \in 1..Len(q) : q[i].type = "RxPacket"}

Victim(q) == IF RxIndices(q) = {} THEN 1 ELSE Min(RxIndices(q))

Full(q) == Len(q) >= EventCapacity

Pushed(q, e) == Append(IF Full(q) THEN RemoveAt(q, Victim(q)) ELSE q, e)

(* Mutant of DroppedBy: only evicted packets are counted.                  *)
DroppedPacketsOnly(q) ==
  IF Full(q) /\ RxIndices(q) # {} /\ dropped < DropLimit THEN dropped + 1 ELSE dropped

DroppedBy(q) == IF Full(q) /\ dropped < DropLimit THEN dropped + 1 ELSE dropped

(* pushEvent of the next pending event, with the history it makes.         *)
Push ==
  /\ out # <<>>
  /\ LET e == Head(out) IN
     /\ events' = Pushed(events, e)
     /\ dropped' = DroppedBy(events)
     /\ lastState' = IF e.type = "State" THEN e.arg ELSE lastState
     /\ phase' = IF e.type \in TxEndTypes
                 THEN [phase EXCEPT ![e.arg] =
                         IF @ = "accepted" THEN "concluded" ELSE "twice"]
                 ELSE phase
  /\ out' = Tail(out)
  /\ UNCHANGED <<ui, threadVars, commands, pc, modeVars, sendVars, recent,
                 backendVars, warned>>
-----------------------------------------------------------------------------
(* The UI thread.  It makes one call at a time: ui is "idle" between calls *)
(* and names the rest of a call that is not atomic.                        *)

(* start(): the thread may fail to start.                                  *)
Start(receiveOnStart) ==
  /\ ui = "idle" /\ ~running
  /\ commands' = <<>> /\ events' = <<>> /\ dropped' = 0
  /\ recent' = <<>> /\ stopRequested' = FALSE
  /\ \/ running' = TRUE /\ pc' = "init"
     \/ running' = FALSE /\ pc' = "none"
  /\ receiveRequested' = receiveOnStart /\ initialized' = FALSE
  /\ phase' = [id \in SendIds |-> IF phase[id] \in {"accepted", "concluded"}
                                  THEN "abandoned" ELSE phase[id]]
  /\ lastState' = "None" /\ warned' = FALSE
  /\ UNCHANGED <<ui, out, sendVars, backendVars>>

(* The command mutex is free unless the worker holds it on its way to      *)
(* sleep.  Mutant: post() does not take it.                                *)
MutexIgnored == TRUE

MutexFree == pc # "parking"

(* post() of a send, retry or receive command.  A full queue refuses.      *)
Post(c) ==
  /\ ui = "idle" /\ running /\ MutexFree
  /\ Len(commands) < CommandCapacity
  /\ c.type = "Send" => phase[c.arg] = "fresh"
  /\ commands' = Append(commands, c)
  /\ phase' = IF c.type = "Send" THEN [phase EXCEPT ![c.arg] = "accepted"]
                                 ELSE phase
  /\ ui' = "notify"
  /\ UNCHANGED <<threadVars, queueVars, workerVars, lastState, warned>>

(* post() of a shutdown command, which takes no lock and queues nothing.   *)
PostShutdown ==
  /\ ui = "idle" /\ running
  /\ stopRequested' = TRUE
  /\ ui' = "notify"
  /\ UNCHANGED <<running, commands, queueVars, workerVars, history>>

(* The notify that ends a post(), or the one in the middle of a stop():    *)
(* it reaches the worker only if the worker is asleep by now.              *)
Notify ==
  /\ ui \in {"notify", "stopNotify"}
  /\ ui' = IF ui = "notify" THEN "idle" ELSE "join"
  /\ pc' = IF pc = "parked" THEN "waitCheck" ELSE pc
  /\ UNCHANGED <<threadVars, commands, queueVars, out, modeVars, sendVars,
                 recent, backendVars, history>>

(* stop() sets the flag, notifies, and joins the thread.                   *)
Stop ==
  /\ ui = "idle"
  /\ stopRequested' = TRUE
  /\ ui' = "stopNotify"
  /\ UNCHANGED <<running, commands, queueVars, workerVars, history>>

Join ==
  /\ ui = "join" /\ pc \in {"none", "exited"}
  /\ ui' = "idle" /\ pc' = "none" /\ running' = FALSE
  /\ UNCHANGED <<stopRequested, commands, queueVars, out, modeVars, sendVars,
                 recent, backendVars, history>>

(* tryPopEvent(): the overflow notice goes first.                          *)
PopOverflow ==
  /\ ui = "idle" /\ dropped # 0
  /\ dropped' = 0 /\ warned' = TRUE
  /\ UNCHANGED <<ui, threadVars, commands, events, workerVars, phase, lastState>>

PopEvent ==
  /\ ui = "idle" /\ dropped = 0 /\ events # <<>>
  /\ events' = Tail(events)
  /\ phase' = IF Head(events).type \in TxEndTypes
              THEN [phase EXCEPT ![Head(events).arg] =
                      IF @ = "concluded" THEN "seen" ELSE @]
              ELSE phase
  /\ UNCHANGED <<ui, threadVars, commands, dropped, workerVars, lastState, warned>>
-----------------------------------------------------------------------------
(* The worker thread.  At(p): it is at p with nothing left to push.        *)

At(p) == pc = p /\ out = <<>>

Goto(p, pushes) == pc' = p /\ out' = pushes

shared == <<ui, threadVars, commands, queueVars, history>>

StopsAtCancel == stopRequested /\ Goto("stopping", <<>>)

(* What the backend's calls leave behind when they return, and when        *)
(* startReceive() throws; the others leave nothing behind when they throw. *)
Closes        == open' = FALSE /\ listening' = FALSE
StartsReceive == open /\ listening' = TRUE /\ UNCHANGED open
StartThrows   == listening' = FALSE /\ UNCHANGED open
StopsReceive  == open /\ listening' = FALSE /\ UNCHANGED open

(* The state a settled, initialized radio reports.                         *)
SettledState == IF receiveRequested THEN "Receiving" ELSE "Idle"

(* initializeBackend(), called once by run() and once per retry command.   *)
InitBegin ==
  /\ At("init")
  /\ Goto("initClose", <<StateEvent("Initializing")>>)
  /\ UNCHANGED <<shared, modeVars, sendVars, recent, backendVars>>

InitClose ==
  /\ At("initClose")
  /\ Closes
  /\ Goto("initOpen", <<>>)
  /\ UNCHANGED <<shared, modeVars, sendVars, recent>>

InitOpen ==
  /\ At("initOpen")
  /\ \/ /\ open' = TRUE
        /\ IF receiveRequested
           THEN Goto("initStart", <<InitializedEvt>>) /\ UNCHANGED initialized
           ELSE /\ Goto("loop", <<InitializedEvt, StateEvent("Idle")>>)
                /\ initialized' = TRUE
     \/ Goto("initFail", <<>>) /\ UNCHANGED <<open, initialized>>
     \/ StopsAtCancel /\ UNCHANGED <<open, initialized>>
  /\ UNCHANGED <<shared, receiveRequested, sendVars, recent, listening>>

InitStartReceive ==
  /\ At("initStart")
  /\ \/ /\ StartsReceive
        /\ Goto("loop", <<StateEvent("Receiving")>>) /\ initialized' = TRUE
     \/ StartThrows /\ Goto("initFail", <<>>) /\ UNCHANGED initialized
     \/ StopsAtCancel /\ UNCHANGED <<backendVars, initialized>>
  /\ UNCHANGED <<shared, receiveRequested, sendVars, recent>>

InitFail ==
  /\ At("initFail")
  /\ Closes
  /\ Goto("loop", <<ErrorEvent("initialize"), StateEvent("Error")>>)
  /\ initialized' = FALSE
  /\ UNCHANGED <<shared, receiveRequested, sendVars, recent>>

(* The loop of run(): the stop flag is read before the queue is.           *)
LoopTop ==
  /\ At("loop")
  /\ Goto(IF stopRequested THEN "stopping" ELSE "dequeue", <<>>)
  /\ UNCHANGED <<shared, modeVars, sendVars, recent, backendVars>>

(* What a send gets while the radio is not initialized.  Mutant: nothing.  *)
NoRefusal(id) == <<>>

Refusal(id) == <<TxFailed(id)>>

(* handleCommand(), up to the first backend call of the command.           *)
Handle(c) ==
  CASE c.type = "Retry" ->
         Goto("init", <<>>) /\ UNCHANGED <<receiveRequested, sendVars>>
    [] c.type = "SetReceive" ->
         /\ receiveRequested' = (c.arg = "on")
         /\ Goto(IF initialized THEN "setReceive" ELSE "loop", <<>>)
         /\ UNCHANGED sendVars
    [] c.type = "Send" /\ ~initialized ->
         /\ Goto("loop", Refusal(c.arg))
         /\ UNCHANGED <<receiveRequested, sendVars>>
    [] c.type = "Send" /\ initialized ->
         /\ sendId' = c.arg /\ attempt' = 1
         /\ Goto("txStop", <<TxStarted(c.arg), StateEvent("Sending")>>)
         /\ UNCHANGED receiveRequested

Dequeue ==
  /\ At("dequeue")
  /\ IF commands # <<>>
     THEN commands' = Tail(commands) /\ Handle(Head(commands))
     ELSE /\ Goto(IF initialized /\ receiveRequested THEN "rx" ELSE "waitCheck", <<>>)
          /\ UNCHANGED <<commands, receiveRequested, sendVars>>
  /\ UNCHANGED <<ui, threadVars, queueVars, history, initialized, recent, backendVars>>

SetReceive ==
  /\ At("setReceive")
  /\ \/ /\ IF receiveRequested THEN StartsReceive ELSE StopsReceive
        /\ Goto("loop", <<StateEvent(SettledState)>>)
     \/ /\ IF receiveRequested THEN StartThrows ELSE UNCHANGED backendVars
        /\ Goto("failClose", <<ErrorEvent("set receive")>>)
     \/ receiveRequested /\ StopsAtCancel /\ UNCHANGED backendVars
  /\ UNCHANGED <<shared, modeVars, sendVars, recent>>

(* Mutant of FailClose: the worker goes on believing it is initialized.    *)
FailCloseStaysInitialized ==
  /\ At("failClose")
  /\ Closes
  /\ Goto("loop", <<StateEvent("Error")>>)
  /\ UNCHANGED <<shared, modeVars, sendVars, recent>>

(* The end of every failure that leaves the radio uninitialized.           *)
FailClose ==
  /\ At("failClose")
  /\ Closes
  /\ Goto("loop", <<StateEvent("Error")>>)
  /\ initialized' = FALSE
  /\ UNCHANGED <<shared, receiveRequested, sendVars, recent>>

(* Waiting for a command: untimed while the radio is not initialized, for  *)
(* at most 100 ms while it is initialized and not receiving.  The command  *)
(* mutex is held from the check to the moment the thread is asleep.        *)
WaitCheck ==
  /\ At("waitCheck")
  /\ Goto(IF stopRequested \/ commands # <<>> THEN "loop" ELSE "parking", <<>>)
  /\ UNCHANGED <<shared, modeVars, sendVars, recent, backendVars>>

Park ==
  /\ At("parking")
  /\ Goto("parked", <<>>)
  /\ UNCHANGED <<shared, modeVars, sendVars, recent, backendVars>>

(* Mutant of WaitTimeout: the idle wait has no time limit either.          *)
WaitUntimed == FALSE /\ UNCHANGED vars

WaitTimeout ==
  /\ At("parked") /\ initialized
  /\ Goto("loop", <<>>)
  /\ UNCHANGED <<shared, modeVars, sendVars, recent, backendVars>>

SpuriousWakeup ==
  /\ At("parked")
  /\ Goto("waitCheck", <<>>)
  /\ UNCHANGED <<shared, modeVars, sendVars, recent, backendVars>>

(* The shutdown at the end of run().                                       *)
Stopping ==
  /\ At("stopping")
  /\ Goto("finalClose", <<StateEvent("Stopping")>>)
  /\ sendId' = NoSend /\ attempt' = 0
  /\ UNCHANGED <<shared, modeVars, recent, backendVars>>

(* Mutant of FinalClose: the thread ends without closing the backend.      *)
EndsWithoutClose ==
  /\ At("finalClose")
  /\ Goto("exit", <<StateEvent("Stopped")>>)
  /\ UNCHANGED <<shared, modeVars, sendVars, recent, backendVars>>

FinalClose ==
  /\ At("finalClose")
  /\ Closes
  /\ Goto("exit", <<StateEvent("Stopped")>>)
  /\ UNCHANGED <<shared, modeVars, sendVars, recent>>

Exit ==
  /\ At("exit")
  /\ running' = FALSE
  /\ Goto("exited", <<>>)
  /\ UNCHANGED <<ui, stopRequested, commands, queueVars, history,
                 modeVars, sendVars, recent, backendVars>>
-----------------------------------------------------------------------------
(* Receiving.  A packet is taken in the receive slice of run() or while    *)
(* handleSend() waits for its acknowledgement; both go through             *)
(* processReceivedPacket() and resume where they were.  A packet with a    *)
(* bad CRC, a malformed frame and an acknowledgement nobody waits for have *)
(* no effect.                                                              *)

sending == attempt > 0
resume  == IF sending THEN "txWait" ELSE "loop"

EndSend == sendId' = NoSend /\ attempt' = 0

(* The handlers an exception reaches: handleSend()'s, and run()'s.         *)
TxAbort ==
  /\ Goto(IF receiveRequested THEN "restore" ELSE "failClose", <<TxFailed(sendId)>>)
  /\ EndSend
ReceiveAbort == Goto("failClose", <<ErrorEvent("receive")>>) /\ UNCHANGED sendVars
Abort        == IF sending THEN TxAbort ELSE ReceiveAbort

Remembered(t) == Append(IF Len(recent) >= TokenWindow THEN Tail(recent) ELSE recent, t)

ReceiveNothing ==
  /\ At("rx") /\ open
  /\ Goto("loop", <<>>)
  /\ UNCHANGED <<shared, modeVars, sendVars, recent, backendVars>>

ReceiveLegacy ==
  /\ At("rx") \/ At("txWait")
  /\ open /\ listening
  /\ Goto(resume, <<LegacyPacket>>)
  /\ UNCHANGED <<shared, modeVars, sendVars, recent, backendVars>>

(* A data frame is shown once per token in the window, and acknowledged    *)
(* every time.                                                             *)
ReceiveData(t) ==
  /\ At("rx") \/ At("txWait")
  /\ open /\ listening
  /\ LET seen == t \in Range(recent) IN
     /\ recent' = IF seen THEN recent ELSE Remembered(t)
     /\ Goto(IF receiveRequested THEN "ackStop" ELSE resume,
             IF seen THEN <<>> ELSE <<RxPacket(t)>>)
  /\ UNCHANGED <<shared, modeVars, sendVars, backendVars>>

ReceiveThrows ==
  /\ At("rx") \/ At("txWait")
  /\ Abort
  /\ UNCHANGED <<shared, modeVars, recent, backendVars>>

ReceiveCancelled ==
  /\ At("rx") \/ At("txWait")
  /\ StopsAtCancel
  /\ UNCHANGED <<shared, modeVars, sendVars, recent, backendVars>>

(* acknowledge(): three backend calls, the first after a cancellable sleep. *)
AckStop ==
  /\ At("ackStop")
  /\ \/ StopsReceive /\ Goto("ackTransmit", <<>>) /\ UNCHANGED sendVars
     \/ Abort /\ UNCHANGED backendVars
     \/ StopsAtCancel /\ UNCHANGED <<backendVars, sendVars>>
  /\ UNCHANGED <<shared, modeVars, recent>>

(* Mutant of AckTransmit: receive mode is not turned on again.             *)
AckTransmitOnly ==
  /\ At("ackTransmit")
  /\ \/ open /\ Goto(resume, <<>>) /\ UNCHANGED sendVars
     \/ Abort
     \/ StopsAtCancel /\ UNCHANGED sendVars
  /\ UNCHANGED <<shared, modeVars, recent, backendVars>>

AckTransmit ==
  /\ At("ackTransmit")
  /\ \/ open /\ Goto("ackStart", <<>>) /\ UNCHANGED sendVars
     \/ Abort
     \/ StopsAtCancel /\ UNCHANGED sendVars
  /\ UNCHANGED <<shared, modeVars, recent, backendVars>>

AckStart ==
  /\ At("ackStart")
  /\ \/ StartsReceive /\ Goto(resume, <<>>) /\ UNCHANGED sendVars
     \/ StartThrows /\ Abort
     \/ StopsAtCancel /\ UNCHANGED <<backendVars, sendVars>>
  /\ UNCHANGED <<shared, modeVars, recent>>
-----------------------------------------------------------------------------
(* Sending: up to MaxAttempts transmissions, each followed, while receive  *)
(* mode is on, by a bounded wait for the acknowledgement.                  *)

(* Mutant of Conclude: the outcome is pushed, the new state is not.        *)
ConcludeSilently(event) ==
  /\ Goto("loop", <<event>>)
  /\ EndSend

Conclude(event) ==
  /\ Goto("loop", <<event, StateEvent(SettledState)>>)
  /\ EndSend

(* The first attempt begins with encodeData(), which throws on a sender    *)
(* name that is not printable; stopReceive() may throw on every attempt.   *)
TxStop ==
  /\ At("txStop")
  /\ \/ /\ IF receiveRequested THEN StopsReceive ELSE UNCHANGED backendVars
        /\ Goto("transmit", <<>>) /\ UNCHANGED sendVars
     \/ /\ receiveRequested \/ attempt = 1
        /\ TxAbort /\ UNCHANGED backendVars
  /\ UNCHANGED <<shared, modeVars, recent>>

Transmit ==
  /\ At("transmit")
  /\ \/ /\ open
        /\ IF receiveRequested THEN Goto("txStart", <<>>) /\ UNCHANGED sendVars
                               ELSE Conclude(TxCompleted(sendId))
     \/ TxAbort
     \/ StopsAtCancel /\ UNCHANGED sendVars
  /\ UNCHANGED <<shared, modeVars, recent, backendVars>>

TxStart ==
  /\ At("txStart")
  /\ \/ StartsReceive /\ Goto("txWait", <<>>) /\ UNCHANGED sendVars
     \/ StartThrows /\ TxAbort
     \/ StopsAtCancel /\ UNCHANGED <<backendVars, sendVars>>
  /\ UNCHANGED <<shared, modeVars, recent>>

(* The acknowledgement of this send arrives before the deadline ...        *)
Acknowledged ==
  /\ At("txWait") /\ open /\ listening
  /\ Conclude(TxCompleted(sendId))
  /\ UNCHANGED <<shared, modeVars, recent, backendVars>>

(* ... or the deadline passes.                                             *)
AckTimeout ==
  /\ At("txWait")
  /\ Goto(IF attempt < MaxAttempts THEN "backoff" ELSE "txReset", <<>>)
  /\ UNCHANGED <<shared, modeVars, sendVars, recent, backendVars>>

Backoff ==
  /\ At("backoff")
  /\ \/ Goto("txStop", <<>>) /\ attempt' = attempt + 1
     \/ StopsAtCancel /\ UNCHANGED attempt
  /\ UNCHANGED <<shared, modeVars, sendId, recent, backendVars>>

(* Mutant of TxReset: the failure is pushed before RX is reset, and pushed *)
(* again by the handler of the exception that the reset throws.            *)
TxResetAfterOutcome ==
  /\ At("txReset")
  /\ \/ StartsReceive /\ Conclude(TxFailed(sendId))
     \/ /\ StartThrows
        /\ Goto("restore", <<TxFailed(sendId), TxFailed(sendId)>>) /\ EndSend
     \/ StopsAtCancel /\ UNCHANGED <<backendVars, sendVars>>
  /\ UNCHANGED <<shared, modeVars, recent>>

TxReset ==
  /\ At("txReset")
  /\ \/ StartsReceive /\ Conclude(TxFailed(sendId))
     \/ StartThrows /\ TxAbort
     \/ StopsAtCancel /\ UNCHANGED <<backendVars, sendVars>>
  /\ UNCHANGED <<shared, modeVars, recent>>

(* After a failed send, receive mode is restored or the radio is closed.   *)
Restore ==
  /\ At("restore")
  /\ \/ StartsReceive /\ Goto("loop", <<StateEvent("Receiving")>>)
     \/ StartThrows /\ Goto("failClose", <<ErrorEvent("restore receive")>>)
     \/ StopsAtCancel /\ UNCHANGED backendVars
  /\ UNCHANGED <<shared, modeVars, sendVars, recent>>
-----------------------------------------------------------------------------
Initialize == InitBegin \/ InitClose \/ InitOpen \/ InitStartReceive \/ InitFail
Wait       == WaitCheck \/ Park \/ WaitTimeout
Receive    == \/ ReceiveNothing \/ ReceiveLegacy \/ ReceiveThrows \/ ReceiveCancelled
              \/ AckStop \/ AckTransmit \/ AckStart
              \/ \E t \in PeerTokens : ReceiveData(t)
Send       == \/ TxStop \/ Transmit \/ TxStart \/ Acknowledged \/ AckTimeout
              \/ Backoff \/ TxReset \/ Restore
Shutdown   == Stopping \/ FinalClose \/ Exit

WorkerStep == \/ Push \/ Initialize \/ LoopTop \/ Dequeue \/ SetReceive
              \/ FailClose \/ Wait \/ Receive \/ Send \/ Shutdown

UiStep == \/ \E b \in BOOLEAN : Start(b)
          \/ \E c \in UiCommands : Post(c)
          \/ PostShutdown \/ Notify \/ Stop \/ Join \/ PopOverflow \/ PopEvent

Next == UiStep \/ WorkerStep \/ SpuriousWakeup

Spec == Init /\ [][Next]_vars

(* The worker thread runs, and so does the UI thread inside a call.  The   *)
(* deadline of an acknowledgement wait passes however many packets arrive. *)
Fairness == WF_vars(WorkerStep) /\ WF_vars(Notify \/ Join) /\ SF_vars(AckTimeout)

FairSpec == Spec /\ Fairness
-----------------------------------------------------------------------------
(* The type invariant, with the bounds of both queues and of the window    *)
(* of remembered tokens.                                                   *)
TypeOK ==
  /\ ui \in {"idle", "notify", "stopNotify", "join"}
  /\ running \in BOOLEAN /\ stopRequested \in BOOLEAN
  /\ commands \in Seq(Commands) /\ Len(commands) <= CommandCapacity
  /\ events \in Seq(Events) /\ Len(events) <= EventCapacity
  /\ dropped \in 0..DropLimit
  /\ pc \in Pcs /\ out \in Seq(Events)
  /\ initialized \in BOOLEAN /\ receiveRequested \in BOOLEAN
  /\ sendId \in SendIds \cup {NoSend} /\ attempt \in 0..MaxAttempts
  /\ recent \in Seq(PeerTokens) /\ Len(recent) <= TokenWindow
  /\ open \in BOOLEAN /\ listening \in BOOLEAN
  /\ phase \in [SendIds -> Phases]
  /\ lastState \in RadioStates \cup {"None"} /\ warned \in BOOLEAN

(* The pcs at which the next step calls startReceive, stopReceive,         *)
(* transmit or receive.                                                    *)
BackendPcs == {"initStart", "setReceive", "rx", "restore"} \cup SendPcs \cup AckPcs

(* Whatever failed before, the worker never uses a backend that is closed: *)
(* `initialized' in run() stays in step with the backend across every      *)
(* failed open, receive, send and mode change (the test backend in         *)
(* radio_worker_test.cpp asserts it call by call).                         *)
UsedOnlyWhenOpen == pc \in BackendPcs => open

(* The radio is never deaf: an initialized worker that wants to receive is *)
(* listening whenever it is about to poll or to wait for an                *)
(* acknowledgement, after any mix of sends, acknowledgements, timeouts and *)
(* restores.  (receive() of a backend that is not receiving returns at     *)
(* once, so the loop would also spin.)                                     *)
NeverDeaf == pc \in {"loop", "dequeue", "rx", "txWait"} /\ initialized /\ receiveRequested
               => listening

(* Once the worker has settled and pushed everything, the last state event *)
(* it pushed is the state it is in: no handler forgets its state event or  *)
(* pushes a wrong one last.                                                *)
StateEventsTruthful ==
  pc \in {"dequeue", "rx"} \cup WaitPcs
    => lastState = IF initialized THEN SettledState ELSE "Error"

TxEndOf(id) == {TxCompleted(id), TxFailed(id)}

(* Unless a stop is requested, a send that post() accepted and that has no *)
(* outcome yet is still somewhere: queued, being handled, or its outcome   *)
(* is about to be pushed.                                                  *)
NoSendForgotten ==
  \A id \in SendIds :
    phase[id] = "accepted" /\ ~stopRequested
      => \/ SendCommand(id) \in Range(commands)
         \/ sendId = id /\ sending
         \/ Range(out) \cap TxEndOf(id) # {}

(* No send is given two outcomes, whichever of its handlers ends it.       *)
OneOutcome == \A id \in SendIds : phase[id] # "twice"

(* An outcome that the full event queue evicted before the UI saw it never *)
(* goes unnoticed: an overflow notice is due or was popped.                *)
LossIsReported ==
  \A id \in SendIds :
    phase[id] = "concluded"
      => \/ Range(events) \cap TxEndOf(id) # {}
         \/ dropped # 0
         \/ warned

(* When the thread has ended, by any path, the backend is closed, and the  *)
(* UI finds the Stopped state as the last event.                           *)
EndsClosed ==
  /\ pc \in {"none", "exited"} => ~open /\ ~listening /\ ~running
  /\ pc = "exited" => /\ lastState = "Stopped"
                      /\ events # <<>> => Last(events) = StateEvent("Stopped")

(* Every accepted send gets an outcome, unless a stop is requested.        *)
SendConcludes ==
  \A id \in SendIds :
    phase[id] = "accepted" ~> (phase[id] # "accepted" \/ stopRequested)

(* stop() returns when it finds the radio initialized.                     *)
StopReturnsWhenInitialized == ui = "join" /\ initialized ~> ui # "join"

(* stop() always returns.                                                  *)
StopReturns == ui = "join" ~> ui # "join"
-----------------------------------------------------------------------------
(* The inductive strengthening of the invariants above.  RadioWorkerProofs *)
(* proves it for every value of the constants.                             *)

(* A send in progress has an id, the pcs of handleSend() are those of a    *)
(* send in progress, and only an attempt that is not the last backs off.   *)
SendShape ==
  /\ sending => sendId \in SendIds
  /\ pc \in SendPcs => sending
  /\ pc = "backoff" => attempt < MaxAttempts

QuietPcs       == {"loop", "dequeue"} \cup WaitPcs
InitializedPcs == {"rx", "setReceive", "restore"} \cup SendPcs \cup AckPcs
ReceivePcs     == {"rx", "restore", "initStart", "txStart", "txWait", "backoff", "txReset"}
                    \cup AckPcs

(* Where the worker is tells what it believes, and what it believes is     *)
(* what the backend is.                                                    *)
BackendShape ==
  /\ sending => pc \in SendPcs \cup AckPcs \cup {"stopping"}
  /\ pc \in InitializedPcs => initialized
  /\ pc \in ReceivePcs => receiveRequested
  /\ pc \in InitializedPcs \cup QuietPcs /\ initialized => open
  /\ pc = "initStart" => open
  /\ pc \in QuietPcs /\ initialized /\ receiveRequested => listening
  /\ pc \in {"rx", "txWait"} => listening

(* The thread runs from start() to its last statement, and leaves the      *)
(* backend closed.                                                         *)
LifecycleShape ==
  /\ running <=> pc \notin {"none", "exited"}
  /\ pc \in {"none", "exit", "exited"} => ~open /\ ~listening
  /\ pc \in {"none", "exited", "dequeue", "rx"} \cup WaitPcs => out = <<>>

(* x is the last state reported once the pushes are made after s.          *)
ReportsAfter(s, pushes, x) ==
  \/ pushes # <<>> /\ Last(pushes) = StateEvent(x)
  \/ (\A i \in 1..Len(pushes) : pushes[i].type # "State") /\ s = x

Reports(x) == ReportsAfter(lastState, out, x)

ReportShape ==
  /\ pc \in QuietPcs \cup {"rx"}
       => Reports(IF initialized THEN SettledState ELSE "Error")
  /\ pc \in AckPcs /\ ~sending => Reports("Receiving")
  /\ pc = "exit" => \/ out = <<StateEvent("Stopped")>>
                    \/ /\ out = <<>> /\ lastState = "Stopped"
                       /\ events # <<>> => Last(events) = StateEvent("Stopped")
  /\ pc = "exited" => /\ lastState = "Stopped"
                      /\ events # <<>> => Last(events) = StateEvent("Stopped")

WorkerInv == TypeOK /\ SendShape /\ BackendShape /\ LifecycleShape /\ ReportShape

(* What strengthens the invariants about outcomes.  An accepted send is in *)
(* one place only: once in the queue, or being handled, or about to be     *)
(* given its outcome, of which no two are ever about to be pushed.         *)
IsEnd(e) == e.type \in TxEndTypes

QueuedOnce ==
  \A i \in 1..Len(commands) : commands[i].type = "Send" =>
    /\ phase[commands[i].arg] = "accepted"
    /\ \A j \in 1..Len(commands) : commands[j] = commands[i] => j = i
    /\ sending => sendId # commands[i].arg
    /\ \A k \in 1..Len(out) : IsEnd(out[k]) => out[k].arg # commands[i].arg

HandledOnce ==
  sending => phase[sendId] = "accepted" /\ \A k \in 1..Len(out) : ~IsEnd(out[k])

EndedOnce ==
  \A k \in 1..Len(out) : IsEnd(out[k]) =>
    /\ phase[out[k].arg] = "accepted"
    /\ \A l \in 1..Len(out) : IsEnd(out[l]) => l = k

(* A send is dropped only once a stop is requested.                        *)
StopShape == pc \in {"stopping", "finalClose", "exit", "exited"} => stopRequested

OutcomeInv == /\ QueuedOnce /\ HandledOnce /\ EndedOnce /\ StopShape
              /\ NoSendForgotten /\ OneOutcome /\ LossIsReported
=============================================================================
