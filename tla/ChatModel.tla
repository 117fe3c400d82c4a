----------------------------- MODULE ChatModel ------------------------------
(***************************************************************************)
(* The chat model of src/src/models/chat_model.cpp: the message history,   *)
(* the sends that wait for an outcome, and the snapshot of the radio that  *)
(* the screen shows.  It runs on the UI thread.  The operators below say   *)
(* what each of its calls does to its own state; ChatSession joins them    *)
(* with the calls they make to the radio worker.                           *)
(*                                                                         *)
(* A message of ours is named by the transaction id of its send, which is  *)
(* given once per session: _pending_messages, a map from transaction ids   *)
(* to message ids, is then the set of the transactions that wait.          *)
(***************************************************************************)
EXTENDS Naturals, Sequences

CONSTANTS
  TxIds,         (* the transaction ids of this instance                   *)
  HistoryLimit,  (* kMessageHistoryLimit                                   *)
  Peer           (* in place of a transaction id: a message received       *)

VARIABLES
  started,    (* _started                                                  *)
  info,       (* _radio_info: its state, ready and initializationFailed    *)
  messages,   (* _messages                                                 *)
  pending,    (* the keys of _pending_messages                             *)
  nextTxId    (* _next_tx_id                                               *)

RadioUiStates == {"Initializing", "Receiving", "Sending", "Error", "Stopped"}
Infos    == [state : RadioUiStates, ready : BOOLEAN, initFailed : BOOLEAN]
Statuses == {"pending", "sent", "failed", "received"}
Messages == [tx : TxIds \cup {Peer}, status : Statuses]

Info(s, ready, initFailed) == [state |-> s, ready |-> ready, initFailed |-> initFailed]
Message(tx, status)        == [tx |-> tx, status |-> status]

Init ==
  /\ started = FALSE /\ info = Info("Initializing", FALSE, FALSE)
  /\ messages = <<>> /\ pending = {} /\ nextTxId = 1

(* appendMessage(): a full history forgets its oldest message, whatever    *)
(* its status.                                                             *)
Appended(m) ==
  Append(IF Len(messages) >= HistoryLimit THEN Tail(messages) ELSE messages, m)

(* updateMessageStatus(): the message may have left the history.  Mutant:  *)
(* the first message still pending is taken for the one that ended.        *)
FirstPendingUpdated(tx, status) ==
  LET waiting == {i \in DOMAIN messages : messages[i].status = "pending"} IN
  [i \in DOMAIN messages |->
     IF i \in waiting /\ \A j \in waiting : i <= j
     THEN Message(messages[i].tx, status) ELSE messages[i]]

StatusUpdated(tx, status) ==
  [i \in DOMAIN messages |->
     IF messages[i].tx = tx THEN Message(tx, status) ELSE messages[i]]
-----------------------------------------------------------------------------
(* How tick() takes an event.                                              *)

(* The worker's Idle is shown as Receiving; a worker that stops by itself  *)
(* is an error to the screen.                                              *)
Shown == [Initializing |-> "Initializing", Idle |-> "Receiving",
          Receiving |-> "Receiving", Sending |-> "Sending",
          Error |-> "Error", Stopping |-> "Error", Stopped |-> "Error"]

ReadyStates == {"Idle", "Receiving", "Sending"}
FailedEnds  == {"Error", "Stopping", "Stopped"}

(* Mutant of StateShown: an error does not take the readiness back.        *)
StateShownStillReady(s) ==
  Info(Shown[s], info.ready \/ s \in ReadyStates, s \in FailedEnds /\ info.initFailed)

(* Mutant of StateShown: a radio that is back in receive mode has nothing  *)
(* to show.                                                                *)
StateShownUnlessReceiving(s) ==
  Info(IF s \in {"Idle", "Receiving"} THEN info.state ELSE Shown[s], s \in ReadyStates,
       s \in FailedEnds /\ info.initFailed)

StateShown(s) ==
  Info(Shown[s], s \in ReadyStates, s \in FailedEnds /\ info.initFailed)

InfoAfter(e) ==
  CASE e.type = "State"       -> StateShown(e.arg)
    [] e.type = "Initialized" -> Info(info.state, TRUE, FALSE)
    [] e.type = "Error"       -> [info EXCEPT !.initFailed = (e.arg = "initialize")]
    [] e.type = "TxStarted"   -> Info("Sending", TRUE, info.initFailed)
    [] OTHER                  -> info

(* Mutant of MessagesAfter: only a success is looked up in the history.    *)
FailureNotShown(e) ==
  CASE e.type = "RxPacket" -> Appended(Message(Peer, "received"))
    [] e.type = "TxCompleted" /\ e.arg \in pending -> StatusUpdated(e.arg, "sent")
    [] OTHER -> messages

MessagesAfter(e) ==
  CASE e.type = "RxPacket" -> Appended(Message(Peer, "received"))
    [] e.type = "TxCompleted" /\ e.arg \in pending -> StatusUpdated(e.arg, "sent")
    [] e.type = "TxFailed" /\ e.arg \in pending    -> StatusUpdated(e.arg, "failed")
    [] OTHER -> messages

HandleEvent(e) ==
  /\ info' = InfoAfter(e)
  /\ messages' = MessagesAfter(e)
  /\ pending' = IF e.type \in {"TxCompleted", "TxFailed"} THEN pending \ {e.arg} ELSE pending
  /\ UNCHANGED <<started, nextTxId>>
-----------------------------------------------------------------------------
(* The calls of the view model and of the application.                     *)

(* start(): `launched' says whether the worker's thread could be started.  *)
ModelStart(launched) ==
  /\ ~started /\ started' = TRUE
  /\ messages' = <<>> /\ pending' = {} /\ nextTxId' = 1
  /\ info' = IF launched THEN Info("Initializing", FALSE, FALSE)
                         ELSE Info("Error", FALSE, TRUE)

(* What stop() does once the worker has stopped.                           *)
ModelStopped ==
  /\ started /\ started' = FALSE
  /\ pending' = {} /\ info' = Info("Stopped", FALSE, info.initFailed)
  /\ UNCHANGED <<messages, nextTxId>>

(* sendDraft() of a draft that is neither empty nor too long.  The other   *)
(* two, and a radio that is not ready, leave all of this unchanged.  A     *)
(* refused post has used up its transaction id.                            *)
SendAccepted ==
  /\ info.ready
  /\ nextTxId' = nextTxId + 1
  /\ messages' = Appended(Message(nextTxId, "pending"))
  /\ pending' = pending \cup {nextTxId}
  /\ UNCHANGED <<started, info>>

(* Mutant: the message was appended before the post.                       *)
SendRefusedShown ==
  /\ info.ready
  /\ nextTxId' = nextTxId + 1
  /\ messages' = Appended(Message(nextTxId, "pending"))
  /\ UNCHANGED <<started, info, pending>>

SendRefused ==
  /\ info.ready
  /\ nextTxId' = nextTxId + 1
  /\ UNCHANGED <<started, info, messages, pending>>

(* retryRadio(), with or without success.                                  *)
ModelRetry(accepted) ==
  /\ started
  /\ info' = Info(IF accepted THEN "Initializing" ELSE "Error", FALSE, FALSE)
  /\ UNCHANGED <<started, messages, pending, nextTxId>>
-----------------------------------------------------------------------------
(* The type invariant, with the bound of the history.                      *)
ModelTypeOK ==
  /\ started \in BOOLEAN /\ info \in Infos
  /\ messages \in Seq(Messages) /\ Len(messages) <= HistoryLimit
  /\ pending \subseteq TxIds
  /\ nextTxId \in Nat \ {0}

(* The history and the map of waiting sends agree: a message is shown as   *)
(* being sent exactly while its transaction waits, unless the history has  *)
(* forgotten it (chat_model.cpp:399-416, 515-520, 590-616).                *)
HistoryMatchesPending ==
  started => \A i \in DOMAIN messages :
               messages[i].status = "pending" <=> messages[i].tx \in pending
=============================================================================
