---------------------------- MODULE ChatSession -----------------------------
(***************************************************************************)
(* The chat model on top of the radio worker: one run of the application   *)
(* from ChatModel::start() to ChatModel::stop(), with the UI thread that   *)
(* sends, retries and takes events in ticks of at most EventsPerTick, and  *)
(* the worker thread of RadioWorker.  main() starts and stops the model    *)
(* once, always in receive mode, and posts sends and retries only.         *)
(***************************************************************************)
EXTENDS RadioWorker

CONSTANTS
  HistoryLimit,   (* kMessageHistoryLimit                                  *)
  Peer,           (* in place of a transaction id: a message received      *)
  EventsPerTick   (* kMaxEventsPerTick                                     *)

ASSUME TickAssumption    == EventsPerTick \in Nat \ {0}
ASSUME SessionAssumption ==
  /\ SendIds \subseteq Nat \ {0} /\ Peer \notin SendIds
  /\ HistoryLimit \in Nat \ {0}
  /\ {RetryCommand} \cup {SendCommand(id) : id \in SendIds} \subseteq UiCommands

VARIABLES
  started, info, messages, pending, nextTxId,   (* those of ChatModel      *)
  budget,    (* how many more events the tick in progress may take         *)
  outcome    (* history: how the worker ended each send                    *)

Model == INSTANCE ChatModel WITH TxIds <- SendIds

modelVars   == <<started, info, messages, pending, nextTxId>>
sessionVars == <<vars, modelVars, budget, outcome>>

SessionInit ==
  /\ Init /\ Model!Init
  /\ budget = 0
  /\ outcome = [id \in SendIds |-> "none"]

(* The UI thread begins a call: it is in no other.                         *)
Free == ui = "idle" /\ budget = 0

SessionStart ==
  /\ Free /\ info.state # "Stopped"
  /\ Start(TRUE)
  /\ Model!ModelStart(running')
  /\ UNCHANGED <<budget, outcome>>

SendDraft ==
  /\ Free /\ started /\ MutexFree
  /\ nextTxId \in SendIds
  /\ \/ Post(SendCommand(nextTxId)) /\ Model!SendAccepted
     \/ /\ ~running \/ Len(commands) >= CommandCapacity
        /\ Model!SendRefused /\ UNCHANGED vars
  /\ UNCHANGED <<budget, outcome>>

RetryRadio ==
  /\ Free /\ started
  /\ \/ Post(RetryCommand) /\ Model!ModelRetry(TRUE)
     \/ /\ running /\ MutexFree /\ Len(commands) >= CommandCapacity
        /\ Model!ModelRetry(FALSE) /\ UNCHANGED vars
     \/ Start(TRUE) /\ Model!ModelRetry(running')
  /\ UNCHANGED <<budget, outcome>>

(* The notify that ends a post() or comes in the middle of a stop().       *)
Notified == Notify /\ UNCHANGED <<modelVars, budget, outcome>>

(* tick(): events are taken one by one, while the worker runs on, until    *)
(* there is none or the tick has had its share.                            *)
TickBegin ==
  /\ Free /\ started
  /\ budget' = EventsPerTick
  /\ UNCHANGED <<vars, modelVars, outcome>>

TickEvent ==
  /\ budget > 0
  /\ \/ PopOverflow /\ UNCHANGED modelVars
     \/ PopEvent /\ Model!HandleEvent(Head(events))
  /\ budget' = budget - 1
  /\ UNCHANGED outcome

TickEnd ==
  /\ budget > 0 /\ dropped = 0 /\ events = <<>>
  /\ budget' = 0
  /\ UNCHANGED <<vars, modelVars, outcome>>

SessionStop == Free /\ started /\ Stop /\ UNCHANGED <<modelVars, budget, outcome>>

SessionStopped == Join /\ Model!ModelStopped /\ UNCHANGED <<budget, outcome>>

(* The worker thread, with the outcome it pushes.                          *)
Worker ==
  /\ WorkerStep \/ SpuriousWakeup
  /\ outcome' = IF out # <<>> /\ Head(out).type \in TxEndTypes
                THEN [outcome EXCEPT ![Head(out).arg] = Head(out).type]
                ELSE outcome
  /\ UNCHANGED <<modelVars, budget>>

Tick        == TickBegin \/ TickEvent \/ TickEnd
SessionNext == \/ SessionStart \/ SendDraft \/ RetryRadio \/ Notified \/ Tick
               \/ SessionStop \/ SessionStopped \/ Worker

SessionSpec == SessionInit /\ [][SessionNext]_sessionVars

TakesEvent == TickEvent /\ PopEvent

(* The main loop ticks between any two rounds of keys and ends the calls   *)
(* it began; the worker thread runs and its deadlines pass.  Not all that  *)
(* the UI takes are overflow notices, which go first: within a tick one    *)
(* call follows the other in less time than a packet needs to arrive and   *)
(* be lost again.                                                          *)
SessionFairSpec ==
  /\ SessionSpec
  /\ SF_sessionVars(Tick) /\ SF_sessionVars(TakesEvent) /\ WF_sessionVars(Notified)
  /\ WF_sessionVars(WorkerStep /\ Worker) /\ SF_sessionVars(AckTimeout /\ Worker)
-----------------------------------------------------------------------------
(* Nothing is left to do or to say: the worker has settled with no command *)
(* waiting, and the UI thread has taken every event.                       *)
Settled ==
  /\ Free /\ commands = <<>> /\ events = <<>> /\ dropped = 0
  /\ pc \in {"dequeue", "rx"} \cup WaitPcs /\ started

(* What the screen shows is what the worker is: once everything has        *)
(* settled, the screen says ready exactly when the radio is, and does not  *)
(* stay at Sending or Initializing, whatever events the full queue evicted *)
(* and however stale the ones taken after a retry were                     *)
(* (chat_model.cpp:312-352, 393-398, 559-588).  The sends of the session   *)
(* are fewer than the queue holds: the refusals of as many more could      *)
(* evict the state event of a failed radio before the UI takes an event.   *)
ScreenTruthful ==
  Settled => /\ info.ready = initialized
             /\ info.state = IF initialized THEN "Receiving" ELSE "Error"

(* A message is left at "sending" only by a loss the user was told of:     *)
(* once everything has settled no message is pending, unless an overflow   *)
(* notice was taken.                                                       *)
StuckOnlyAfterOverflow ==
  Settled /\ ~warned => \A i \in DOMAIN messages : messages[i].status # "pending"

(* The history never shows an outcome that its own send did not have, even *)
(* after a refused send used up an id or an overflow lost an outcome.      *)
StatusIsTheOutcome ==
  \A i \in DOMAIN messages :
    /\ messages[i].status = "sent" => outcome[messages[i].tx] = "TxCompleted"
    /\ messages[i].status = "failed" => outcome[messages[i].tx] = "TxFailed"

HistoryMatchesPending == Model!HistoryMatchesPending

(* The type invariant of the model's part and of the tick.                 *)
SessionTypeOK ==
  /\ Model!ModelTypeOK
  /\ budget \in 0..EventsPerTick
  /\ outcome \in [SendIds -> TxEndTypes \cup {"none"}]

(* Once the user has given up retrying, the screen does not stay at        *)
(* Initializing or Sending: the worker's next settled state reaches it,    *)
(* whatever the queue lost, unless the session is stopped.                 *)
ScreenSettles ==
  <>[][~RetryRadio]_sessionVars
    => (started /\ info.state \in {"Initializing", "Sending"}
          ~> (info.state \in {"Receiving", "Error"} \/ stopRequested))

(* Every message sent leaves "sending", or the history, or the user was    *)
(* told that events were lost, unless the session is stopped.              *)
MessagesResolve ==
  \A id \in SendIds :
    (\E i \in DOMAIN messages : messages[i] = Model!Message(id, "pending"))
      ~> (\/ \A i \in DOMAIN messages : messages[i] # Model!Message(id, "pending")
          \/ warned \/ stopRequested)
=============================================================================
