------------------------- MODULE ChatSessionProofs --------------------------
(***************************************************************************)
(* Theorems about ChatSession, for every value of the constants.  The      *)
(* session does to the radio worker only what RadioWorker allows its UI    *)
(* thread to do, so that what RadioWorkerProofs proves of the worker holds *)
(* in every session; the message history agrees with the sends that wait   *)
(* for an outcome, and with the outcomes that they had; and the screen     *)
(* says what the radio is, or the user was told that events were lost.     *)
(***************************************************************************)
EXTENDS ChatSession, RadioWorkerProofs, FiniteSetTheorems

(* A step of the session is a step of the worker and its UI thread, or     *)
(* leaves both alone.                                                      *)
LEMMA SessionStep == [SessionNext]_sessionVars => [Next]_vars
<1>. SUFFICES ASSUME [SessionNext]_sessionVars PROVE [Next]_vars
  OBVIOUS
<1>1. CASE SessionStart
  BY <1>1 DEF SessionStart, Next, UiStep
<1>2. CASE SendDraft
  <2>1. CASE Post(SendCommand(nextTxId))
    <3>1. SendCommand(nextTxId) \in UiCommands
      BY <1>2, SessionAssumption DEF SendDraft
    <3>. QED BY <2>1, <3>1 DEF Next, UiStep
  <2>2. CASE UNCHANGED vars
    BY <2>2
  <2>. QED BY <1>2, <2>1, <2>2 DEF SendDraft
<1>3. CASE RetryRadio
  <2>1. CASE Post(RetryCommand)
    BY <2>1, SessionAssumption DEF Next, UiStep
  <2>2. CASE UNCHANGED vars
    BY <2>2
  <2>3. CASE Start(TRUE)
    BY <2>3 DEF Next, UiStep
  <2>. QED BY <1>3, <2>1, <2>2, <2>3 DEF RetryRadio
<1>4. CASE Notified
  BY <1>4 DEF Notified, Next, UiStep
<1>5. CASE Tick
  <2>1. CASE TickBegin \/ TickEnd
    BY <2>1 DEF TickBegin, TickEnd
  <2>2. CASE TickEvent
    BY <2>2 DEF TickEvent, Next, UiStep
  <2>. QED BY <1>5, <2>1, <2>2 DEF Tick
<1>6. CASE SessionStop
  BY <1>6 DEF SessionStop, Next, UiStep
<1>7. CASE SessionStopped
  BY <1>7 DEF SessionStopped, Next, UiStep
<1>8. CASE Worker
  BY <1>8 DEF Worker, Next
<1>9. CASE UNCHANGED sessionVars
  BY <1>9 DEF sessionVars
<1>. QED BY <1>1, <1>2, <1>3, <1>4, <1>5, <1>6, <1>7, <1>8, <1>9 DEF SessionNext

(* The chat model uses the radio worker as RadioWorker lets it be used.    *)
THEOREM SessionImplementsWorker == SessionSpec => Spec
<1>1. SessionInit => Init
  BY DEF SessionInit
<1>. QED BY <1>1, SessionStep, PTL DEF SessionSpec, Spec

(* Whatever the user does, the worker of a session keeps its invariant:    *)
(* the backend is used only when it is open, is never deaf, and is closed  *)
(* at the end.                                                             *)
THEOREM SessionWorkerInvariant == SessionSpec => []WorkerInv
BY SessionImplementsWorker, WorkerInvariant, PTL
-----------------------------------------------------------------------------
(* What makes HistoryMatchesPending inductive: the transaction ids that    *)
(* were given away are below the next one.                                 *)
IdsGiven ==
  /\ nextTxId \in Nat \ {0}
  /\ messages \in Seq(Model!Messages)
  /\ pending \subseteq {id \in SendIds : id < nextTxId}
  /\ \A i \in 1..Len(messages) : messages[i].tx # Peer => messages[i].tx < nextTxId

HistoryInv == IdsGiven /\ HistoryMatchesPending

(* Appending keeps messages and makes one, and only the new one is new.    *)
LEMMA AppendedProperties ==
  ASSUME messages \in Seq(Model!Messages), NEW m \in Model!Messages
  PROVE  /\ Model!Appended(m) \in Seq(Model!Messages)
         /\ \A i \in 1..Len(Model!Appended(m)) :
              \/ Model!Appended(m)[i] = m
              \/ \E j \in 1..Len(messages) : Model!Appended(m)[i] = messages[j]
<1>1. CASE Len(messages) >= HistoryLimit
  <2>1. messages # <<>>
    BY <1>1, SessionAssumption
  <2>2. /\ Tail(messages) \in Seq(Model!Messages)
        /\ Len(Tail(messages)) = Len(messages) - 1
        /\ \A i \in 1..Len(Tail(messages)) : Tail(messages)[i] = messages[i + 1]
    BY <2>1
  <2>3. Model!Appended(m) = Append(Tail(messages), m)
    BY <1>1 DEF Model!Appended
  <2>4. \A i \in 1..Len(Tail(messages)) : i + 1 \in 1..Len(messages)
    BY <2>2
  <2>5. /\ Append(Tail(messages), m) \in Seq(Model!Messages)
        /\ Len(Append(Tail(messages), m)) = Len(Tail(messages)) + 1
        /\ Append(Tail(messages), m)[Len(Tail(messages)) + 1] = m
        /\ \A i \in 1..Len(Tail(messages)) :
             Append(Tail(messages), m)[i] = Tail(messages)[i]
    BY <2>2
  <2>6. \A i \in 1..(Len(Tail(messages)) + 1) :
          i = Len(Tail(messages)) + 1 \/ i \in 1..Len(Tail(messages))
    <3>1. Len(Tail(messages)) \in Nat
      BY <2>2
    <3>. QED BY <3>1
  <2>. QED BY <2>2, <2>3, <2>4, <2>5, <2>6
<1>2. CASE ~(Len(messages) >= HistoryLimit)
  BY <1>2 DEF Model!Appended
<1>. QED BY <1>1, <1>2

(* Updating a status changes the messages of that transaction only.        *)
LEMMA StatusUpdatedProperties ==
  ASSUME messages \in Seq(Model!Messages),
         NEW tx \in SendIds, NEW status \in Model!Statuses
  PROVE  /\ Model!StatusUpdated(tx, status) \in Seq(Model!Messages)
         /\ Len(Model!StatusUpdated(tx, status)) = Len(messages)
         /\ \A i \in 1..Len(messages) :
              Model!StatusUpdated(tx, status)[i] =
                IF messages[i].tx = tx THEN [tx |-> tx, status |-> status] ELSE messages[i]
<1> DEFINE updated == Model!StatusUpdated(tx, status)
           M == Model!Messages
<1>1. [tx |-> tx, status |-> status] \in M
  BY DEF Model!Messages
<1>2. /\ DOMAIN messages = 1..Len(messages) /\ Len(messages) \in Nat
      /\ \A i \in 1..Len(messages) : messages[i] \in M
  OBVIOUS
<1>3. updated = [i \in 1..Len(messages) |->
                   IF messages[i].tx = tx THEN [tx |-> tx, status |-> status] ELSE messages[i]]
  BY <1>2 DEF Model!StatusUpdated, Model!Message
<1>. HIDE DEF updated, M
<1>4. updated \in [1..Len(messages) -> M]
  BY <1>1, <1>2, <1>3
<1>5. updated \in Seq(M) /\ Len(updated) = Len(messages)
  BY <1>2, <1>4
<1>. QED BY <1>3, <1>5 DEF updated, M

LEMMA HistoryInit == SessionInit => HistoryInv
BY DEF SessionInit, Model!Init, HistoryInv, IdsGiven, HistoryMatchesPending,
       Model!HistoryMatchesPending

(* A message received.                                                     *)
LEMMA ReceivedHistory ==
  ASSUME HistoryInv, UNCHANGED <<started, pending, nextTxId>>,
         messages' = Model!Appended(Model!Message(Peer, "received"))
  PROVE  HistoryInv'
<1> DEFINE m == [tx |-> Peer, status |-> "received"]
<1>1. m \in Model!Messages /\ Model!Message(Peer, "received") = m
  BY DEF Model!Messages, Model!Statuses, Model!Message
<1>2. /\ messages' \in Seq(Model!Messages)
      /\ \A i \in 1..Len(messages') :
           \/ messages'[i] = m
           \/ \E j \in 1..Len(messages) : messages'[i] = messages[j]
  <2>1. messages \in Seq(Model!Messages)
    BY DEF HistoryInv, IdsGiven
  <2>2. messages' = Model!Appended(m)
    BY <1>1
  <2>. QED BY <1>1, <2>1, <2>2, AppendedProperties
<1>3. IdsGiven'
  BY <1>2 DEF HistoryInv, IdsGiven
<1>4. Peer \notin pending
  BY SessionAssumption DEF HistoryInv, IdsGiven
<1>5. HistoryMatchesPending'
  BY <1>2, <1>4 DEF HistoryInv, IdsGiven, HistoryMatchesPending, Model!HistoryMatchesPending
<1>. QED BY <1>3, <1>5 DEF HistoryInv

(* The outcome of a send.                                                  *)
LEMMA OutcomeHistory ==
  ASSUME HistoryInv, UNCHANGED <<started, nextTxId>>,
         NEW tx \in SendIds, NEW status \in {"sent", "failed"},
         messages' = IF tx \in pending THEN Model!StatusUpdated(tx, status) ELSE messages,
         pending' = pending \ {tx}
  PROVE  HistoryInv'
<1>1. CASE tx \notin pending
  <2>1. UNCHANGED <<messages, pending>>
    BY <1>1
  <2>. QED BY <2>1 DEF HistoryInv, IdsGiven, HistoryMatchesPending, Model!HistoryMatchesPending
<1>2. CASE tx \in pending
  <2>1. /\ messages' \in Seq(Model!Messages) /\ Len(messages') = Len(messages)
        /\ \A i \in 1..Len(messages) :
             messages'[i] = IF messages[i].tx = tx THEN [tx |-> tx, status |-> status]
                                                   ELSE messages[i]
    <3>1. messages \in Seq(Model!Messages) /\ status \in Model!Statuses
      BY DEF HistoryInv, IdsGiven, Model!Statuses
    <3>2. messages' = Model!StatusUpdated(tx, status)
      BY <1>2
    <3>. QED BY <3>1, <3>2, StatusUpdatedProperties
  <2>2. \A i \in 1..Len(messages) : messages'[i].tx = messages[i].tx
    BY <2>1
  <2>3. IdsGiven'
    BY <2>1, <2>2 DEF HistoryInv, IdsGiven
  <2>4. HistoryMatchesPending'
    BY <2>1, <2>2 DEF HistoryInv, IdsGiven, HistoryMatchesPending, Model!HistoryMatchesPending
  <2>. QED BY <2>3, <2>4 DEF HistoryInv
<1>. QED BY <1>1, <1>2

(* One event.                                                              *)
LEMMA EventHistory ==
  ASSUME HistoryInv, NEW e \in Events, Model!HandleEvent(e)
  PROVE  HistoryInv'
<1>1. CASE e.type = "RxPacket"
  BY <1>1, ReceivedHistory DEF Model!HandleEvent, Model!MessagesAfter
<1>2. CASE e.type = "TxCompleted"
  <2>1. e.arg \in SendIds
    BY <1>2 DEF Events, TxEndTypes, InitializedEvt, LegacyPacket
  <2>. QED BY <1>2, <2>1, OutcomeHistory DEF Model!HandleEvent, Model!MessagesAfter
<1>3. CASE e.type = "TxFailed"
  <2>1. e.arg \in SendIds
    BY <1>3 DEF Events, TxEndTypes, InitializedEvt, LegacyPacket
  <2>. QED BY <1>3, <2>1, OutcomeHistory DEF Model!HandleEvent, Model!MessagesAfter
<1>4. CASE e.type \notin {"RxPacket", "TxCompleted", "TxFailed"}
  <2>1. UNCHANGED <<started, messages, pending, nextTxId>>
    BY <1>4 DEF Model!HandleEvent, Model!MessagesAfter
  <2>. QED BY <2>1 DEF HistoryInv, IdsGiven, HistoryMatchesPending, Model!HistoryMatchesPending
<1>. QED BY <1>1, <1>2, <1>3, <1>4

(* The ids given away stay below the next one when that one grows.         *)
LEMMA IdsStayGiven ==
  ASSUME IdsGiven
  PROVE  /\ \A id \in pending : id < nextTxId + 1
         /\ \A i \in 1..Len(messages) :
              messages[i].tx # Peer =>
                messages[i].tx \in SendIds /\ messages[i].tx < nextTxId + 1
<1>1. \A id \in SendIds : id < nextTxId => id < nextTxId + 1
  BY SessionAssumption DEF IdsGiven
<1>2. \A i \in 1..Len(messages) : messages[i] \in Model!Messages
  BY DEF IdsGiven
<1>3. \A i \in 1..Len(messages) : messages[i].tx # Peer => messages[i].tx \in SendIds
  BY <1>2 DEF Model!Messages
<1>. QED BY <1>1, <1>3 DEF IdsGiven

(* An accepted send: its id is new, so no other message has it.            *)
LEMMA SendHistory ==
  ASSUME HistoryInv, nextTxId \in SendIds, Model!SendAccepted
  PROVE  HistoryInv'
<1> DEFINE m == [tx |-> nextTxId, status |-> "pending"]
<1>1. m \in Model!Messages /\ Model!Message(nextTxId, "pending") = m
  BY DEF Model!Messages, Model!Statuses, Model!Message
<1>2. /\ messages' \in Seq(Model!Messages)
      /\ \A i \in 1..Len(messages') :
           \/ messages'[i] = m
           \/ \E j \in 1..Len(messages) : messages'[i] = messages[j]
  BY <1>1, AppendedProperties DEF HistoryInv, IdsGiven, Model!SendAccepted
<1>3. nextTxId # Peer /\ nextTxId \in Nat \ {0} /\ nextTxId' = nextTxId + 1
  BY SessionAssumption DEF HistoryInv, IdsGiven, Model!SendAccepted
<1>4. pending' = pending \cup {nextTxId} /\ started' = started
  BY DEF Model!SendAccepted
<1>5. IdsGiven'
  <2>1. pending' \subseteq {id \in SendIds : id < nextTxId'}
    <3>1. \A id \in pending : id \in SendIds /\ id < nextTxId + 1
      BY IdsStayGiven DEF HistoryInv, IdsGiven
    <3>2. nextTxId < nextTxId + 1
      BY <1>3
    <3>. QED BY <1>3, <1>4, <3>1, <3>2
  <2>2. ASSUME NEW i \in 1..Len(messages'), messages'[i].tx # Peer
        PROVE  messages'[i].tx < nextTxId'
    <3>1. CASE messages'[i] = m
      BY <1>3, <3>1
    <3>2. ASSUME NEW j \in 1..Len(messages), messages'[i] = messages[j]
          PROVE  messages'[i].tx < nextTxId'
      BY <1>3, <2>2, <3>2, IdsStayGiven DEF HistoryInv
    <3>. QED BY <1>2, <3>1, <3>2
  <2>. QED BY <1>2, <1>3, <2>1, <2>2 DEF IdsGiven
<1>6. HistoryMatchesPending'
  <2>1. SUFFICES ASSUME started, NEW i \in 1..Len(messages')
                 PROVE  messages'[i].status = "pending" <=> messages'[i].tx \in pending'
    BY <1>2, <1>4 DEF HistoryMatchesPending, Model!HistoryMatchesPending
  <2>2. CASE messages'[i] = m
    BY <1>4, <2>2
  <2>3. ASSUME NEW j \in 1..Len(messages), messages'[i] = messages[j]
        PROVE  messages'[i].status = "pending" <=> messages'[i].tx \in pending'
    <3>1. messages[j].status = "pending" <=> messages[j].tx \in pending
      BY <2>1 DEF HistoryInv, IdsGiven, HistoryMatchesPending, Model!HistoryMatchesPending
    <3>2. messages[j].tx # nextTxId
      BY <1>3 DEF HistoryInv, IdsGiven
    <3>. QED BY <1>4, <2>3, <3>1, <3>2
  <2>. QED BY <1>2, <2>2, <2>3
<1>. QED BY <1>5, <1>6 DEF HistoryInv

LEMMA HistoryStep ==
  ASSUME HistoryInv, TypeOK, [SessionNext]_sessionVars
  PROVE  HistoryInv'
<1> USE DEF modelVars
<1>1. CASE SessionStart
  BY <1>1 DEF SessionStart, Model!ModelStart, HistoryInv, IdsGiven, HistoryMatchesPending,
              Model!HistoryMatchesPending
<1>2. CASE SendDraft
  <2>1. CASE Model!SendAccepted
    BY <1>2, <2>1, SendHistory DEF SendDraft
  <2>2. CASE Model!SendRefused
    <3>1. UNCHANGED <<started, messages, pending>> /\ nextTxId' = nextTxId + 1
      BY <2>2 DEF Model!SendRefused
    <3>2. IdsGiven'
      BY <3>1, IdsStayGiven DEF HistoryInv, IdsGiven
    <3>. QED BY <3>1, <3>2 DEF HistoryInv, HistoryMatchesPending, Model!HistoryMatchesPending
  <2>. QED BY <1>2, <2>1, <2>2 DEF SendDraft
<1>3. CASE RetryRadio
  <2>1. UNCHANGED <<started, messages, pending, nextTxId>>
    BY <1>3 DEF RetryRadio, Model!ModelRetry
  <2>. QED BY <2>1 DEF HistoryInv, IdsGiven, HistoryMatchesPending, Model!HistoryMatchesPending
<1>4. CASE TickEvent /\ PopEvent
  <2>1. Head(events) \in Events
    BY <1>4 DEF PopEvent, TypeOK
  <2>2. Model!HandleEvent(Head(events))
    BY <1>4 DEF TickEvent, PopEvent, PopOverflow
  <2>. QED BY <2>1, <2>2, EventHistory
<1>5. CASE SessionStopped
  BY <1>5 DEF SessionStopped, Model!ModelStopped, HistoryInv, IdsGiven, HistoryMatchesPending,
              Model!HistoryMatchesPending
<1>6. CASE UNCHANGED modelVars
  BY <1>6 DEF HistoryInv, IdsGiven, HistoryMatchesPending, Model!HistoryMatchesPending
<1>. QED BY <1>1, <1>2, <1>3, <1>4, <1>5, <1>6
         DEF SessionNext, Notified, Tick, TickBegin, TickEvent, TickEnd, SessionStop, Worker,
             sessionVars

(* In every session the history shows a message as being sent exactly      *)
(* while its send waits for an outcome.                                    *)
THEOREM HistoryIsConsistent == SessionSpec => []HistoryMatchesPending
<1>1. WorkerInv => TypeOK
  BY DEF WorkerInv
<1>2. HistoryInv /\ TypeOK /\ [SessionNext]_sessionVars => HistoryInv'
  BY HistoryStep
<1>3. HistoryInv => HistoryMatchesPending
  BY DEF HistoryInv
<1>. QED BY HistoryInit, SessionWorkerInvariant, <1>1, <1>2, <1>3, PTL DEF SessionSpec
-----------------------------------------------------------------------------
(* The outcomes of the worker in a session.                                *)

(* What holds of the worker and its sends holds in every session.          *)
THEOREM SessionOutcomes == SessionSpec => []OutcomeInv
BY SessionImplementsWorker, OutcomeInvariant, PTL

(* The session ends a call of its UI thread with a step of the worker's.   *)
LEMMA WorkerParts ==
  ASSUME TypeOK, WorkerInv, OutcomeInv, WorkerStep \/ SpuriousWakeup, ~Push
  PROVE  /\ out = <<>> /\ pc # "none" /\ pc' # "none"
         /\ UNCHANGED <<ui, stopRequested, events, dropped, history>>
         /\ running' = running \/ stopRequested
<1>. USE DEF At, Goto, Closes, shared, threadVars, queueVars, history
<1>1. CASE Initialize
  BY <1>1 DEF Initialize, InitBegin, InitClose, InitOpen, InitStartReceive, InitFail,
              StopsAtCancel
<1>2. CASE LoopTop \/ SetReceive \/ FailClose \/ Wait \/ SpuriousWakeup
  BY <1>2 DEF LoopTop, SetReceive, FailClose, Wait, WaitCheck, Park, WaitTimeout,
              SpuriousWakeup, StopsAtCancel
<1>3. CASE Dequeue
  <2>1. out = <<>> /\ pc = "dequeue"
        /\ UNCHANGED <<ui, threadVars, queueVars, history>>
    BY <1>3 DEF Dequeue
  <2>2. pc' # "none"
    <3>1. CASE commands = <<>>
      BY <1>3, <3>1 DEF Dequeue
    <3>2. CASE commands # <<>>
      <4>1. Head(commands) \in Commands /\ Handle(Head(commands))
        BY <1>3, <3>2, HeadTailProperties DEF Dequeue, TypeOK
      <4>2. Head(commands).type \in {"Send", "Retry", "SetReceive"}
        BY <4>1, CommandArguments
      <4>. QED BY <4>1, <4>2 DEF Handle, TypeOK
    <3>. QED BY <3>1, <3>2
  <2>. QED BY <2>1, <2>2
<1>4. CASE Receive
  BY <1>4 DEF Receive, ReceiveNothing, ReceiveLegacy, ReceiveThrows, ReceiveCancelled,
              AckStop, AckTransmit, AckStart, ReceiveData, StopsAtCancel, Abort, TxAbort,
              ReceiveAbort, resume
<1>5. CASE Send
  BY <1>5 DEF Send, TxStop, Transmit, TxStart, Acknowledged, AckTimeout, Backoff, TxReset,
              Restore, StopsAtCancel, TxAbort, Conclude
<1>6. CASE Shutdown
  BY <1>6 DEF Shutdown, Stopping, FinalClose, Exit, OutcomeInv, StopShape
<1>. QED BY <1>1, <1>2, <1>3, <1>4, <1>5, <1>6 DEF WorkerStep

(* The record of the outcomes: a send that has none is recorded with none, *)
(* and each outcome in the event queue is the one recorded, and is there   *)
(* once.                                                                   *)
RecordShape ==
  /\ outcome \in [SendIds -> TxEndTypes \cup {"none"}]
  /\ \A id \in SendIds : phase[id] \in {"fresh", "accepted"} => outcome[id] = "none"
  /\ \A k \in 1..Len(events) : IsEnd(events[k]) =>
       /\ outcome[events[k].arg] = events[k].type
       /\ \A l \in 1..Len(events) :
            IsEnd(events[l]) /\ events[l].arg = events[k].arg => l = k

(* The messages say of their sends what is recorded of them.               *)
StatusShape ==
  \A i \in 1..Len(messages) :
    /\ messages[i].tx = Peer => messages[i].status = "received"
    /\ messages[i].status = "sent" => outcome[messages[i].tx] = "TxCompleted"
    /\ messages[i].status = "failed" => outcome[messages[i].tx] = "TxFailed"

(* A send that waits for an outcome was accepted and its outcome, if there *)
(* is one, was not taken; none waits while there is no thread.             *)
PendingShape ==
  /\ started => \A id \in pending : phase[id] \in {"accepted", "concluded"}
  /\ started /\ stopRequested => ui \in {"stopNotify", "join"}
  /\ started /\ ~running /\ ~stopRequested => pending = {}

SessionInv == HistoryInv /\ RecordShape /\ StatusShape /\ PendingShape

(* The rest of an end event's arguments.                                   *)
LEMMA EndArguments ==
  ASSUME NEW e \in Events, IsEnd(e)
  PROVE  e.arg \in SendIds /\ e.arg # Peer /\ e.type \in TxEndTypes
BY EventArguments, SessionAssumption DEF IsEnd

LEMMA RecordPush ==
  ASSUME TypeOK, OutcomeInv, RecordShape, StatusShape, IdsGiven, Push,
         outcome' = IF out # <<>> /\ Head(out).type \in TxEndTypes
                    THEN [outcome EXCEPT ![Head(out).arg] = Head(out).type]
                    ELSE outcome,
         UNCHANGED messages
  PROVE  RecordShape' /\ StatusShape'
<1> DEFINE e == Head(out)
           n == Len(events')
<1>1. /\ out # <<>> /\ e \in Events /\ e = out[1] /\ 1 \in 1..Len(out)
      /\ events' = Pushed(events, e) /\ events \in Seq(Events) /\ Len(events) <= EventCapacity
  BY RangeOfTail, HeadTailProperties DEF TypeOK, Push
<1>2. /\ n \in Nat \ {0} /\ events'[n] = e
      /\ \A i \in 1..(n - 1) : /\ Origin(events, i) \in 1..Len(events)
                               /\ events'[i] = events[Origin(events, i)]
  <2>1. n = Len(Pushed(events, e))
    BY <1>1
  <2>. HIDE DEF n, e
  <2>. QED BY <1>1, <2>1, PushedElements
<1>3. /\ outcome' = IF IsEnd(e) THEN [outcome EXCEPT ![e.arg] = e.type] ELSE outcome
      /\ phase' = IF IsEnd(e)
                  THEN [phase EXCEPT ![e.arg] = IF @ = "accepted" THEN "concluded" ELSE "twice"]
                  ELSE phase
      /\ phase \in [SendIds -> Phases]
  BY <1>1 DEF Push, IsEnd, TypeOK
<1>4. IsEnd(e) => /\ e.arg \in SendIds /\ e.arg # Peer /\ e.type \in TxEndTypes
                  /\ outcome[e.arg] = "none"
  <2>1. IsEnd(e) => e.arg \in SendIds /\ e.arg # Peer /\ e.type \in TxEndTypes
    BY <1>1, EndArguments
  <2>2. IsEnd(e) => phase[e.arg] = "accepted"
    BY <1>1 DEF OutcomeInv, EndedOnce
  <2>. QED BY <2>1, <2>2 DEF RecordShape
<1>5. \A k \in 1..Len(events) : IsEnd(events[k]) =>
        /\ events[k].arg \in SendIds /\ events[k].type \in TxEndTypes
        /\ IsEnd(e) => events[k].arg # e.arg
  <2>1. ASSUME NEW k \in 1..Len(events), IsEnd(events[k])
        PROVE  /\ events[k].arg \in SendIds /\ events[k].type \in TxEndTypes
               /\ IsEnd(e) => events[k].arg # e.arg
    <3>1. events[k] \in Events
      BY <1>1, ElementOfSeq
    <3>2. events[k].arg \in SendIds /\ events[k].type \in TxEndTypes
      BY <2>1, <3>1, EndArguments
    <3>3. outcome[events[k].arg] # "none"
      BY <2>1, <3>2 DEF RecordShape, TxEndTypes
    <3>. QED BY <1>4, <3>2, <3>3
  <2>. QED BY <2>1
<1> HIDE DEF e, n
<1>6. outcome' \in [SendIds -> TxEndTypes \cup {"none"}]
  BY <1>3, <1>4 DEF RecordShape
<1>7. ASSUME NEW id \in SendIds, phase'[id] \in {"fresh", "accepted"}
      PROVE  outcome'[id] = "none"
  <2>1. phase[id] \in {"fresh", "accepted"} /\ ~(IsEnd(e) /\ e.arg = id)
    BY <1>3, <1>7
  <2>2. outcome[id] = "none"
    BY <2>1 DEF RecordShape
  <2>. QED BY <1>3, <1>4, <2>1, <2>2 DEF RecordShape
<1>8. ASSUME NEW k \in 1..n, IsEnd(events'[k])
      PROVE  /\ outcome'[events'[k].arg] = events'[k].type
             /\ \A l \in 1..n : IsEnd(events'[l]) /\ events'[l].arg = events'[k].arg => l = k
  <2>1. \A l \in 1..n : l = n \/ l \in 1..(n - 1)
    BY <1>2
  <2>2. CASE k = n
    <3>1. outcome'[e.arg] = e.type
      BY <1>2, <1>3, <1>4, <1>8, <2>2 DEF RecordShape
    <3>2. \A l \in 1..(n - 1) : IsEnd(events'[l]) => events'[l].arg # e.arg
      BY <1>2, <1>5, <1>8, <2>2
    <3>. QED BY <1>2, <2>1, <2>2, <3>1, <3>2
  <2>3. CASE k \in 1..(n - 1)
    <3> DEFINE j == Origin(events, k)
    <3>1. j \in 1..Len(events) /\ events'[k] = events[j] /\ IsEnd(events[j])
      BY <1>2, <1>8, <2>3
    <3>2. /\ outcome[events[j].arg] = events[j].type
          /\ \A l \in 1..Len(events) :
               IsEnd(events[l]) /\ events[l].arg = events[j].arg => l = j
      BY <3>1 DEF RecordShape
    <3>3. outcome'[events[j].arg] = events[j].type
      BY <1>3, <1>5, <3>1, <3>2 DEF RecordShape
    <3>4. ASSUME NEW l \in 1..(n - 1), IsEnd(events'[l]), events'[l].arg = events'[k].arg
          PROVE  l = k
      <4>1. Origin(events, l) = j
        BY <1>2, <3>1, <3>2, <3>4
      <4>2. l \in Nat /\ k \in Nat
        BY <1>2, <2>3, <3>4
      <4>3. events # <<>> => Victim(events) \in Nat
        BY <1>1, VictimInQueue
      <4>4. events # <<>>
        BY <3>1, EmptySeq
      <4>. QED BY <4>1, <4>2, <4>3, <4>4 DEF Origin
    <3>5. IsEnd(e) => e.arg # events[j].arg
      BY <1>5, <3>1
    <3>. QED BY <1>2, <2>1, <3>1, <3>3, <3>4, <3>5
  <2>. QED BY <2>1, <2>2, <2>3
<1>9. RecordShape'
  BY <1>6, <1>7, <1>8 DEF RecordShape, n
<1>10. StatusShape'
  <2>1. ASSUME NEW i \in 1..Len(messages), messages[i].status \in {"sent", "failed"}
        PROVE  outcome'[messages[i].tx] = outcome[messages[i].tx]
    <3>1. messages[i] \in Model!Messages
      BY DEF IdsGiven
    <3>2. messages[i].tx \in SendIds /\ outcome[messages[i].tx] # "none"
      BY <2>1, <3>1 DEF StatusShape, Model!Messages
    <3>3. IsEnd(e) => e.arg # messages[i].tx
      BY <1>4, <3>2
    <3>. QED BY <1>3, <3>2, <3>3 DEF RecordShape
  <2>. QED BY <2>1 DEF StatusShape
<1>. QED BY <1>9, <1>10

(* Nothing of what the record is about changes.                            *)
LEMMA RecordFrame ==
  ASSUME RecordShape, StatusShape, UNCHANGED <<outcome, phase, events, messages>>
  PROVE  RecordShape' /\ StatusShape'
BY DEF RecordShape, StatusShape

(* A message is appended that does not say of its send how it ended.       *)
LEMMA StatusAppended ==
  ASSUME StatusShape, IdsGiven, UNCHANGED outcome,
         NEW m \in Model!Messages, messages' = Model!Appended(m),
         m.status \in {"pending", "received"}, m.tx = Peer => m.status = "received"
  PROVE  StatusShape'
<1>1. \A i \in 1..Len(messages') :
        messages'[i] = m \/ \E j \in 1..Len(messages) : messages'[i] = messages[j]
  BY AppendedProperties DEF IdsGiven
<1>. QED BY <1>1 DEF StatusShape

(* Taking an event: the status it gives a message is the one recorded.     *)
LEMMA RecordPop ==
  ASSUME TypeOK, RecordShape, StatusShape, IdsGiven, PopEvent,
         Model!HandleEvent(Head(events)), UNCHANGED outcome
  PROVE  RecordShape' /\ StatusShape'
<1> DEFINE e == Head(events)
<1>1. /\ events # <<>> /\ events \in Seq(Events) /\ events' = Tail(events)
      /\ Len(events') = Len(events) - 1 /\ Len(events) \in Nat
      /\ \A i \in 1..Len(events') : i + 1 \in 1..Len(events) /\ events'[i] = events[i + 1]
      /\ 1 \in 1..Len(events) /\ events[1] = e /\ e \in Events
  <2>1. events # <<>> /\ events \in Seq(Events) /\ events' = Tail(events)
    BY DEF TypeOK, PopEvent
  <2>. QED BY <2>1, RangeOfTail, HeadTailProperties, LenProperties
<1>2. \A id \in SendIds : phase'[id] \in {"fresh", "accepted"} => phase[id] = phase'[id]
  BY <1>1, EndArguments DEF PopEvent, TypeOK, IsEnd
<1>3. RecordShape'
  <2>1. \A id \in SendIds : phase'[id] \in {"fresh", "accepted"} => outcome'[id] = "none"
    BY <1>2 DEF RecordShape
  <2>2. ASSUME NEW k \in 1..Len(events'), IsEnd(events'[k])
        PROVE  /\ outcome'[events'[k].arg] = events'[k].type
               /\ \A l \in 1..Len(events') :
                    IsEnd(events'[l]) /\ events'[l].arg = events'[k].arg => l = k
    <3>1. k + 1 \in 1..Len(events) /\ events'[k] = events[k + 1]
      BY <1>1
    <3>2. /\ outcome[events[k + 1].arg] = events[k + 1].type
          /\ \A l \in 1..Len(events) :
               IsEnd(events[l]) /\ events[l].arg = events[k + 1].arg => l = k + 1
      BY <2>2, <3>1 DEF RecordShape
    <3>3. ASSUME NEW l \in 1..Len(events'), IsEnd(events'[l]), events'[l].arg = events'[k].arg
          PROVE  l = k
      <4>1. l + 1 = k + 1
        BY <1>1, <3>1, <3>2, <3>3
      <4>. QED BY <4>1
    <3>. QED BY <3>1, <3>2, <3>3
  <2>. QED BY <2>1, <2>2 DEF RecordShape
<1>4. IsEnd(e) => outcome[e.arg] = e.type /\ e.arg \in SendIds /\ e.arg # Peer
  BY <1>1, EndArguments DEF RecordShape
<1> HIDE DEF e
<1>5. ASSUME NEW status \in {"sent", "failed"}, IsEnd(e),
             messages' = Model!StatusUpdated(e.arg, status),
             outcome[e.arg] = IF status = "sent" THEN "TxCompleted" ELSE "TxFailed"
      PROVE  StatusShape'
  <2>1. /\ Len(messages') = Len(messages)
        /\ \A i \in 1..Len(messages) :
             messages'[i] = IF messages[i].tx = e.arg
                            THEN [tx |-> e.arg, status |-> status] ELSE messages[i]
    <3>1. messages \in Seq(Model!Messages) /\ status \in Model!Statuses /\ e.arg \in SendIds
      BY <1>4, <1>5 DEF IdsGiven, Model!Statuses
    <3>. QED BY <1>5, <3>1, StatusUpdatedProperties
  <2>2. ASSUME NEW i \in 1..Len(messages)
        PROVE  /\ messages'[i].tx = Peer => messages'[i].status = "received"
               /\ messages'[i].status = "sent" => outcome[messages'[i].tx] = "TxCompleted"
               /\ messages'[i].status = "failed" => outcome[messages'[i].tx] = "TxFailed"
    <3>1. CASE messages[i].tx = e.arg
      <4>1. messages'[i].tx = e.arg /\ messages'[i].status = status
        BY <2>1, <3>1
      <4>. QED BY <1>4, <1>5, <4>1
    <3>2. CASE messages[i].tx # e.arg
      <4>1. messages'[i] = messages[i]
        BY <2>1, <3>2
      <4>. QED BY <4>1 DEF StatusShape
    <3>. QED BY <3>1, <3>2
  <2>. QED BY <2>1, <2>2 DEF StatusShape
<1>6. CASE e.type = "RxPacket"
  <2>1. Model!Message(Peer, "received") = [tx |-> Peer, status |-> "received"]
    BY DEF Model!Message
  <2>2. [tx |-> Peer, status |-> "received"] \in Model!Messages
    BY DEF Model!Messages, Model!Statuses
  <2>3. messages' = Model!Appended(Model!Message(Peer, "received"))
    BY <1>6 DEF Model!HandleEvent, Model!MessagesAfter, e
  <2>4. StatusShape'
    BY <2>1, <2>2, <2>3, StatusAppended
  <2>. QED BY <1>3, <2>4
<1>7. CASE messages' = messages
  BY <1>3, <1>7 DEF StatusShape
<1>8. CASE e.type = "TxCompleted" /\ messages' # messages
  <2>1. messages' = Model!StatusUpdated(e.arg, "sent") /\ IsEnd(e)
    BY <1>8 DEF Model!HandleEvent, Model!MessagesAfter, e, IsEnd, TxEndTypes
  <2>2. outcome[e.arg] = "TxCompleted"
    BY <1>4, <1>8, <2>1
  <2>3. StatusShape'
    BY <1>5, <2>1, <2>2
  <2>. QED BY <1>3, <2>3
<1>9. CASE e.type = "TxFailed" /\ messages' # messages
  <2>1. messages' = Model!StatusUpdated(e.arg, "failed") /\ IsEnd(e)
    BY <1>9 DEF Model!HandleEvent, Model!MessagesAfter, e, IsEnd, TxEndTypes
  <2>2. outcome[e.arg] = "TxFailed"
    BY <1>4, <1>9, <2>1
  <2>3. StatusShape'
    BY <1>5, <2>1, <2>2
  <2>. QED BY <1>3, <2>3
<1>10. e.type \notin {"RxPacket", "TxCompleted", "TxFailed"} => messages' = messages
  BY DEF Model!HandleEvent, Model!MessagesAfter, e
<1>. QED BY <1>6, <1>7, <1>8, <1>9, <1>10

LEMMA RecordStart ==
  ASSUME RecordShape, NEW b, Start(b), UNCHANGED outcome
  PROVE  RecordShape'
<1>1. events' = <<>>
  BY DEF Start
<1>2. \A id \in SendIds : phase'[id] \in {"fresh", "accepted"} => phase[id] = "fresh"
  BY DEF Start
<1>. QED BY <1>1, <1>2 DEF RecordShape

LEMMA RecordPost ==
  ASSUME TypeOK, RecordShape, NEW c \in Commands, Post(c), UNCHANGED outcome
  PROVE  RecordShape'
<1>1. UNCHANGED events
  BY DEF Post, queueVars
<1>2. \A id \in SendIds : phase'[id] \in {"fresh", "accepted"} => phase[id] \in {"fresh", "accepted"}
  BY CommandArguments DEF Post, TypeOK
<1>. QED BY <1>1, <1>2 DEF RecordShape

LEMMA RecordStep ==
  ASSUME TypeOK, WorkerInv, OutcomeInv, IdsGiven, RecordShape, StatusShape,
         [SessionNext]_sessionVars
  PROVE  RecordShape' /\ StatusShape'
<1>. USE DEF modelVars, queueVars, history
<1>1. CASE SessionStart
  <2>1. messages' = <<>>
    BY <1>1 DEF SessionStart, Model!ModelStart
  <2>2. RecordShape'
    BY <1>1, RecordStart DEF SessionStart
  <2>. QED BY <2>1, <2>2 DEF StatusShape
<1>2. CASE SendDraft
  <2>1. CASE Post(SendCommand(nextTxId)) /\ Model!SendAccepted
    <3>1. SendCommand(nextTxId) \in Commands /\ nextTxId # Peer
      BY <1>2, SessionAssumption DEF SendDraft, Commands
    <3>2. RecordShape'
      BY <1>2, <2>1, <3>1, RecordPost DEF SendDraft
    <3>3. /\ [tx |-> nextTxId, status |-> "pending"] \in Model!Messages
          /\ Model!Message(nextTxId, "pending") = [tx |-> nextTxId, status |-> "pending"]
      BY <1>2 DEF Model!Messages, Model!Statuses, SendDraft, Model!Message
    <3>4. messages' = Model!Appended(Model!Message(nextTxId, "pending"))
      BY <2>1 DEF Model!SendAccepted
    <3>5. StatusShape'
      BY <1>2, <3>1, <3>3, <3>4, StatusAppended DEF SendDraft
    <3>. QED BY <3>2, <3>5
  <2>2. CASE Model!SendRefused /\ UNCHANGED vars
    BY <1>2, <2>2, RecordFrame DEF SendDraft, Model!SendRefused, vars
  <2>. QED BY <1>2, <2>1, <2>2 DEF SendDraft
<1>3. CASE RetryRadio
  <2>1. UNCHANGED messages /\ UNCHANGED outcome
    BY <1>3 DEF RetryRadio, Model!ModelRetry
  <2>2. CASE Post(RetryCommand)
    <3>1. RecordShape'
      BY <2>1, <2>2, RecordPost DEF Commands
    <3>. QED BY <2>1, <3>1 DEF StatusShape
  <2>3. CASE UNCHANGED vars
    BY <2>1, <2>3, RecordFrame DEF vars
  <2>4. CASE Start(TRUE)
    <3>1. RecordShape'
      BY <2>1, <2>4, RecordStart
    <3>. QED BY <2>1, <3>1 DEF StatusShape
  <2>. QED BY <1>3, <2>2, <2>3, <2>4 DEF RetryRadio
<1>4. CASE Notified
  BY <1>4, RecordFrame DEF Notified, Notify
<1>5. CASE TickBegin \/ TickEnd
  BY <1>5, RecordFrame DEF TickBegin, TickEnd, vars
<1>6. CASE TickEvent
  <2>1. CASE PopOverflow /\ UNCHANGED modelVars
    BY <1>6, <2>1, RecordFrame DEF TickEvent, PopOverflow
  <2>2. CASE PopEvent /\ Model!HandleEvent(Head(events))
    BY <1>6, <2>2, RecordPop DEF TickEvent
  <2>. QED BY <1>6, <2>1, <2>2 DEF TickEvent
<1>7. CASE SessionStop
  BY <1>7, RecordFrame DEF SessionStop, Stop
<1>8. CASE SessionStopped
  BY <1>8, RecordFrame DEF SessionStopped, Join, Model!ModelStopped
<1>9. CASE Worker
  <2>1. CASE Push
    BY <1>9, <2>1, RecordPush DEF Worker
  <2>2. CASE ~Push
    <3>1. out = <<>> /\ UNCHANGED <<events, phase>>
      BY <1>9, <2>2, WorkerParts DEF Worker
    <3>2. UNCHANGED <<outcome, messages>>
      BY <1>9, <3>1 DEF Worker
    <3>. QED BY <3>1, <3>2, RecordFrame
  <2>. QED BY <2>1, <2>2
<1>10. CASE UNCHANGED sessionVars
  BY <1>10, RecordFrame DEF sessionVars, vars
<1>. QED BY <1>1, <1>2, <1>3, <1>4, <1>5, <1>6, <1>7, <1>8, <1>9, <1>10
         DEF SessionNext, Tick

LEMMA PendingStep ==
  ASSUME TypeOK, WorkerInv, OutcomeInv, IdsGiven, PendingShape, [SessionNext]_sessionVars
  PROVE  PendingShape'
<1>. USE DEF modelVars, queueVars, threadVars, history
<1>1. CASE SessionStart
  BY <1>1 DEF SessionStart, Start, Model!ModelStart, PendingShape
<1>2. CASE SendDraft
  <2>1. CASE Post(SendCommand(nextTxId)) /\ Model!SendAccepted
    <3>1. /\ nextTxId \in SendIds /\ running /\ running' /\ ui = "idle"
          /\ stopRequested' = stopRequested /\ started' = started /\ started
          /\ pending' = pending \cup {nextTxId}
          /\ phase' = [phase EXCEPT ![nextTxId] = "accepted"]
      BY <1>2, <2>1 DEF SendDraft, Post, SendCommand, Model!SendAccepted, Free
    <3>2. \A id \in pending' : phase'[id] \in {"accepted", "concluded"}
      BY <3>1 DEF PendingShape, TypeOK, IdsGiven
    <3>3. ~stopRequested
      BY <3>1 DEF PendingShape
    <3>. QED BY <3>1, <3>2, <3>3 DEF PendingShape
  <2>2. CASE Model!SendRefused /\ UNCHANGED vars
    BY <2>2 DEF Model!SendRefused, vars, PendingShape
  <2>. QED BY <1>2, <2>1, <2>2 DEF SendDraft
<1>3. CASE RetryRadio
  <2>1. ui = "idle" /\ started /\ started' = started /\ pending' = pending
    BY <1>3 DEF RetryRadio, Free, Model!ModelRetry
  <2>2. CASE Post(RetryCommand)
    <3>1. phase' = phase /\ running' = running /\ stopRequested' = stopRequested /\ running
      BY <2>2 DEF Post, RetryCommand
    <3>. QED BY <2>1, <3>1 DEF PendingShape
  <2>3. CASE UNCHANGED vars
    BY <2>1, <2>3 DEF vars, PendingShape
  <2>4. CASE Start(TRUE)
    <3>1. pending = {} /\ stopRequested' = FALSE
      BY <2>1, <2>4 DEF Start, PendingShape
    <3>. QED BY <2>1, <3>1 DEF PendingShape
  <2>. QED BY <1>3, <2>2, <2>3, <2>4 DEF RetryRadio
<1>4. CASE Notified
  BY <1>4 DEF Notified, Notify, PendingShape
<1>5. CASE TickBegin \/ TickEnd
  BY <1>5 DEF TickBegin, TickEnd, vars, PendingShape
<1>6. CASE TickEvent
  <2>1. CASE PopOverflow /\ UNCHANGED modelVars
    BY <2>1 DEF PopOverflow, PendingShape
  <2>2. CASE PopEvent /\ Model!HandleEvent(Head(events))
    <3> DEFINE e == Head(events)
    <3>1. /\ UNCHANGED <<ui, running, stopRequested, started>>
          /\ phase' = IF IsEnd(e) THEN [phase EXCEPT ![e.arg] =
                                          IF @ = "concluded" THEN "seen" ELSE @]
                                  ELSE phase
          /\ pending' = IF IsEnd(e) THEN pending \ {e.arg} ELSE pending
      BY <2>2 DEF PopEvent, IsEnd, TxEndTypes, Model!HandleEvent
    <3> HIDE DEF e
    <3>2. \A id \in pending' : id \in pending /\ phase'[id] = phase[id]
      BY <3>1 DEF TypeOK, IdsGiven
    <3>. QED BY <3>1, <3>2 DEF PendingShape
  <2>. QED BY <1>6, <2>1, <2>2 DEF TickEvent
<1>7. CASE SessionStop
  BY <1>7 DEF SessionStop, Stop, PendingShape
<1>8. CASE SessionStopped
  BY <1>8 DEF SessionStopped, Join, Model!ModelStopped, PendingShape
<1>9. CASE Worker
  <2>1. UNCHANGED <<started, pending>>
    BY <1>9 DEF Worker
  <2>2. CASE Push
    <3> DEFINE e == Head(out)
    <3>1. /\ UNCHANGED <<ui, running, stopRequested>>
          /\ phase' = IF IsEnd(e) THEN [phase EXCEPT ![e.arg] =
                                          IF @ = "accepted" THEN "concluded" ELSE "twice"]
                                  ELSE phase
      BY <2>2 DEF Push, IsEnd
    <3>2. IsEnd(e) => phase[e.arg] = "accepted"
      <4>1. e = out[1] /\ 1 \in 1..Len(out)
        BY <2>2, RangeOfTail DEF TypeOK, Push
      <4>. QED BY <4>1 DEF OutcomeInv, EndedOnce
    <3> HIDE DEF e
    <3>3. \A id \in pending : phase[id] \in {"accepted", "concluded"}
                                => phase'[id] \in {"accepted", "concluded"}
      BY <3>1, <3>2 DEF TypeOK, IdsGiven
    <3>. QED BY <2>1, <3>1, <3>3 DEF PendingShape
  <2>3. CASE ~Push
    <3>1. /\ UNCHANGED <<ui, stopRequested, phase>>
          /\ running' = running \/ stopRequested
      BY <1>9, <2>3, WorkerParts DEF Worker
    <3>. QED BY <2>1, <3>1 DEF PendingShape
  <2>. QED BY <2>2, <2>3
<1>10. CASE UNCHANGED sessionVars
  BY <1>10 DEF sessionVars, vars, PendingShape
<1>. QED BY <1>1, <1>2, <1>3, <1>4, <1>5, <1>6, <1>7, <1>8, <1>9, <1>10
         DEF SessionNext, Tick

LEMMA SessionInvInit == SessionInit => SessionInv
<1>1. SessionInit => HistoryInv
  BY HistoryInit
<1>2. SessionInit => RecordShape /\ StatusShape /\ PendingShape
  BY DEF SessionInit, Init, Model!Init, RecordShape, StatusShape, PendingShape, TxEndTypes
<1>. QED BY <1>1, <1>2 DEF SessionInv

LEMMA SessionInvNext ==
  WorkerInv /\ OutcomeInv /\ SessionInv /\ [SessionNext]_sessionVars => SessionInv'
<1>. SUFFICES ASSUME WorkerInv, OutcomeInv, SessionInv, [SessionNext]_sessionVars
              PROVE  SessionInv'
  OBVIOUS
<1>1. TypeOK /\ HistoryInv /\ IdsGiven /\ RecordShape /\ StatusShape /\ PendingShape
  BY DEF WorkerInv, SessionInv, HistoryInv
<1>2. HistoryInv'
  BY <1>1, HistoryStep
<1>3. RecordShape' /\ StatusShape'
  BY <1>1, RecordStep
<1>4. PendingShape'
  BY <1>1, PendingStep
<1>. QED BY <1>2, <1>3, <1>4 DEF SessionInv

(* The history, the record of the outcomes and the waiting sends agree in  *)
(* every session.                                                          *)
THEOREM SessionInvariant == SessionSpec => []SessionInv
BY SessionInvInit, SessionInvNext, SessionWorkerInvariant, SessionOutcomes, PTL DEF SessionSpec

(* No message shows an outcome that its own send did not have.             *)
THEOREM StatusIsAlwaysTheOutcome == SessionSpec => []StatusIsTheOutcome
<1>1. SessionInv => StatusIsTheOutcome
  BY DEF SessionInv, HistoryInv, IdsGiven, StatusShape, StatusIsTheOutcome
<1>. QED BY <1>1, SessionInvariant, PTL

(* A message whose send has no outcome, or whose outcome was not taken, is *)
(* accounted for: by what is left to do, by what is left to take, or by an *)
(* overflow notice.                                                        *)
THEOREM MessagesStuckOnlyAfterOverflow == SessionSpec => []StuckOnlyAfterOverflow
<1>1. WorkerInv /\ OutcomeInv /\ SessionInv => StuckOnlyAfterOverflow
  <2>. SUFFICES ASSUME WorkerInv, OutcomeInv, SessionInv, Settled, ~warned,
                       NEW i \in DOMAIN messages, messages[i].status = "pending"
                PROVE  FALSE
    BY DEF StuckOnlyAfterOverflow
  <2> DEFINE id == messages[i].tx
  <2>1. /\ ui = "idle" /\ started /\ commands = <<>> /\ events = <<>> /\ dropped = 0
        /\ pc \in {"dequeue", "rx"} \cup WaitPcs
    BY DEF Settled, Free
  <2>2. id \in pending /\ id \in SendIds
    BY <2>1 DEF SessionInv, HistoryInv, HistoryMatchesPending, Model!HistoryMatchesPending, IdsGiven
  <2>3. ~stopRequested /\ phase[id] \in {"accepted", "concluded"}
    BY <2>1, <2>2 DEF SessionInv, PendingShape
  <2>4. out = <<>> /\ ~sending
    BY <2>1 DEF WorkerInv, LifecycleShape, BackendShape, SendPcs, AckPcs, WaitPcs
  <2>5. Range(commands) = {} /\ Range(events) = {} /\ Range(out) = {}
    BY <2>1, <2>4 DEF Range
  <2>6. phase[id] # "accepted"
    BY <2>2, <2>3, <2>4, <2>5 DEF OutcomeInv, NoSendForgotten
  <2>7. phase[id] # "concluded"
    BY <2>1, <2>2, <2>5 DEF OutcomeInv, LossIsReported
  <2>. QED BY <2>3, <2>6, <2>7
<1>. QED BY <1>1, SessionInvariant, SessionWorkerInvariant, SessionOutcomes, PTL
-----------------------------------------------------------------------------
(* What the screen will show.  The invariant says what the event queue     *)
(* keeps of the worker's last state, whatever it evicts.                   *)

Decides(e) == e.type \in {"State", "Initialized", "TxStarted"}

(* A session of fewer sends than the event queue holds.  In a longer one   *)
(* the refusals of an uninitialized radio can fill the queue before the UI *)
(* thread takes an event, and evict the state event they come after: then  *)
(* only the overflow notice tells the user.                                *)
FewSends == EventCapacity > 1 /\ IsFiniteSet(SendIds) /\ Cardinality(SendIds) < EventCapacity

Excused == ~FewSends /\ (dropped # 0 \/ warned)

(* What the worker pushes while its state stays x.                         *)
Trailing(x) == IF x = "Error" THEN "TxFailed" ELSE "RxPacket"

(* Once the events are taken the screen shows x: the last of them that     *)
(* decides is the state event of x, or none decides and it shows x now.    *)
WillShow(x) ==
  \/ \E k \in 1..Len(events) :
       events[k] = StateEvent(x) /\ \A j \in (k + 1)..Len(events) : events[j].type = Trailing(x)
  \/ /\ \A j \in 1..Len(events) : ~Decides(events[j])
     /\ info.state = Model!Shown[x] /\ info.ready = (x \in Model!ReadyStates)
  \/ Excused

(* A command that waits will bring a new state event.                      *)
Owed == /\ commands # <<>>
        /\ initialized \/ \E i \in 1..Len(commands) : commands[i].type = "Retry"

(* The worker's own state, while it is in none of its operations.          *)
Current == IF initialized THEN "Receiving" ELSE "Error"
Calm    == pc \in QuietPcs \cup {"rx"} \/ (pc \in AckPcs /\ ~sending)
Told    == out # <<>> /\ Last(out) = StateEvent(Current)
Silent  == \A i \in 1..Len(out) : out[i].type = Trailing(Current)
Shows   == Told \/ (Silent /\ (WillShow(Current) \/ Owed))

ScreenShape ==
  /\ info \in Model!Infos
  /\ \A i \in 1..Len(commands) : commands[i].type # "SetReceive"
  /\ pc # "none" => receiveRequested
  /\ Calm => Shows

(* A full queue holds more than the state event of a failed radio and the  *)
(* refusals of every send.                                                 *)
LEMMA RefusalsFit ==
  ASSUME TypeOK, OutcomeInv, RecordShape, FewSends, Push, Full(events),
         Head(out).type = "TxFailed", ~IsEnd(events[1]),
         \A j \in 2..Len(events) : events[j].type = "TxFailed"
  PROVE  FALSE
<1> DEFINE e == Head(out)
           n == Len(events)
           f == [k \in 1..n |-> IF k = 1 THEN e.arg ELSE events[k].arg]
<1>1. /\ events \in Seq(Events) /\ n = EventCapacity /\ n \in Nat /\ n > 1
      /\ e \in Events /\ e = out[1] /\ 1 \in 1..Len(out)
  BY RangeOfTail, HeadTailProperties, LenProperties, CapacityAssumption
     DEF TypeOK, Push, Full, FewSends
<1>2. IsEnd(e) /\ \A k \in 2..n : IsEnd(events[k])
  BY DEF IsEnd, TxEndTypes
<1>3. e.arg \in SendIds /\ phase[e.arg] = "accepted" /\ outcome[e.arg] = "none"
  BY <1>1, <1>2, EndArguments DEF OutcomeInv, EndedOnce, RecordShape
<1>4. ASSUME NEW k \in 2..n
      PROVE  events[k].arg \in SendIds /\ events[k].arg # e.arg
  <2>1. events[k] \in Events /\ k \in 1..n
    BY <1>1, ElementOfSeq
  <2>2. events[k].arg \in SendIds /\ outcome[events[k].arg] # "none"
    BY <1>2, <2>1, EndArguments DEF RecordShape, TxEndTypes
  <2>. QED BY <1>3, <2>2
<1>5. \A k, l \in 2..n : events[k].arg = events[l].arg => k = l
  <2>1. \A k \in 2..n : k \in 1..n
    BY <1>1
  <2>. QED BY <1>2, <2>1 DEF RecordShape
<1> HIDE DEF e, n
<1>6. \A k \in 1..n : k = 1 \/ k \in 2..n
  BY <1>1
<1>7. f \in [1..n -> SendIds]
  BY <1>3, <1>4, <1>6
<1>8. Cardinality(1..n) = n /\ IsFiniteSet(1..n)
  BY <1>1, FS_Interval
<1>9. IsFiniteSet(SendIds) /\ Cardinality(SendIds) < Cardinality(1..n)
  BY <1>1, <1>8 DEF FewSends
<1> HIDE DEF f
<1>10. PICK x, y \in 1..n : x # y /\ f[x] = f[y]
  <2>1. \E x, y \in 1..n : x # y /\ f[x] = f[y]
    <3> DEFINE Places == 1..n
    <3>1. IsFiniteSet(Places) /\ f \in [Places -> SendIds]
          /\ IsFiniteSet(SendIds) /\ Cardinality(SendIds) < Cardinality(Places)
      BY <1>7, <1>8, <1>9
    <3>. HIDE DEF Places
    <3>2. \E x, y \in Places : x # y /\ f[x] = f[y]
      BY <3>1, FS_PigeonHole
    <3>. QED BY <3>2 DEF Places
  <2>. QED BY <2>1
<1>11. f[x] = (IF x = 1 THEN e.arg ELSE events[x].arg) /\ f[y] = (IF y = 1 THEN e.arg ELSE events[y].arg)
  BY DEF f
<1>. QED BY <1>4, <1>5, <1>6, <1>10, <1>11

(* The push of an event that comes while the state stays x.                *)
LEMMA TrailingPushed ==
  ASSUME TypeOK, OutcomeInv, RecordShape, Push, NEW x \in {"Error", "Receiving"},
         Head(out).type = Trailing(x), WillShow(x), UNCHANGED <<info, warned>>
  PROVE  WillShow(x)'
<1> DEFINE e == Head(out)
           n == Len(events')
<1>1. /\ e \in Events /\ events' = Pushed(events, e) /\ dropped' = DroppedBy(events)
      /\ events \in Seq(Events) /\ Len(events) <= EventCapacity /\ Len(events) \in Nat
  BY HeadTailProperties, LenProperties DEF TypeOK, Push
<1>2. /\ n \in Nat \ {0} /\ events'[n] = e /\ n = IF Full(events) THEN Len(events) ELSE Len(events) + 1
      /\ \A i \in 1..(n - 1) : /\ Origin(events, i) \in 1..Len(events)
                               /\ events'[i] = events[Origin(events, i)]
      /\ \A k \in 1..Len(events) : \/ Full(events) /\ k = Victim(events)
                                   \/ \E i \in 1..(n - 1) : Origin(events, i) = k
  <2>1. n = Len(Pushed(events, e))
    BY <1>1
  <2>. HIDE DEF n, e
  <2>. QED BY <1>1, <2>1, PushedElements
<1>3. ~Decides(e)
  BY DEF Decides, Trailing
<1>4. CASE Excused
  BY <1>1, <1>4, CapacityAssumption DEF Excused, FewSends, WillShow, DroppedBy, TypeOK
<1>5. CASE /\ \A j \in 1..Len(events) : ~Decides(events[j])
           /\ info.state = Model!Shown[x] /\ info.ready = (x \in Model!ReadyStates)
  <2>. HIDE DEF e, n
  <2>1. ASSUME NEW j \in 1..n PROVE ~Decides(events'[j])
    <3>1. j = n \/ j \in 1..(n - 1)
      BY <1>2
    <3>. QED BY <1>2, <1>3, <1>5, <3>1
  <2>. QED BY <1>5, <2>1 DEF WillShow, n
<1>6. ASSUME NEW k \in 1..Len(events), events[k] = StateEvent(x),
             \A j \in (k + 1)..Len(events) : events[j].type = Trailing(x)
      PROVE  WillShow(x)'
  <2>1. CASE Full(events) /\ k = Victim(events)
    <3>1. events[k].type = "State"
      BY <1>6 DEF StateEvent
    <3>2. RxIndices(events) = {} /\ k = 1
      <4>1. ASSUME RxIndices(events) # {} PROVE FALSE
        <5>1. Victim(events) \in RxIndices(events)
          BY <1>1, <4>1, VictimIsOldestPacket
        <5>. QED BY <2>1, <3>1, <5>1 DEF RxIndices
      <4>. QED BY <2>1, <4>1 DEF Victim
    <3>3. CASE FewSends
      <4>1. Len(events) = EventCapacity /\ EventCapacity > 1
        BY <1>1, <2>1, <3>3, CapacityAssumption DEF Full, FewSends
      <4>2. 2 \in 1..Len(events) /\ 2 \in (k + 1)..Len(events)
        BY <1>1, <3>2, <4>1
      <4>3. events[2].type # "RxPacket"
        BY <3>2, <4>2 DEF RxIndices
      <4>4. Trailing(x) = "TxFailed"
        BY <1>6, <4>2, <4>3 DEF Trailing
      <4>5. \A j \in 2..Len(events) : events[j].type = "TxFailed"
        BY <1>6, <3>2, <4>4
      <4>6. ~IsEnd(events[1])
        BY <3>1, <3>2 DEF IsEnd, TxEndTypes
      <4>. QED BY <2>1, <3>3, <4>4, <4>5, <4>6, RefusalsFit
    <3>4. CASE ~FewSends
      <4>1. dropped' # 0
        BY <1>1, <2>1, CapacityAssumption DEF DroppedBy, TypeOK
      <4>. QED BY <3>4, <4>1 DEF WillShow, Excused, FewSends
    <3>. QED BY <3>3, <3>4
  <2>2. CASE ~(Full(events) /\ k = Victim(events))
    <3>. HIDE DEF e, n
    <3>1. PICK i \in 1..(n - 1) : Origin(events, i) = k
      BY <1>2, <2>2
    <3>2. events'[i] = StateEvent(x) /\ i \in 1..n
      <4>1. i \in 1..n
        BY <1>2, <3>1
      <4>2. events'[i] = events[Origin(events, i)]
        BY <1>2, <3>1
      <4>. QED BY <1>6, <3>1, <4>1, <4>2
    <3>3. events # <<>>
      BY <1>1, <1>6, EmptySeq
    <3>4. Victim(events) \in Nat
      BY <1>1, <3>3, VictimInQueue
    <3>5. ASSUME NEW j \in (i + 1)..n PROVE events'[j].type = Trailing(x)
      <4>1. CASE j = n
        BY <1>2, <4>1 DEF e
      <4>2. CASE j # n
        <5>1. j \in 1..(n - 1) /\ j > i
          BY <1>2, <3>1, <4>2
        <5>2. Origin(events, j) > k /\ Origin(events, j) \in 1..Len(events)
          BY <1>2, <3>1, <3>4, <5>1 DEF Origin
        <5>3. Origin(events, j) \in (k + 1)..Len(events)
          BY <1>1, <5>2
        <5>. QED BY <1>2, <1>6, <5>1, <5>3
      <4>. QED BY <4>1, <4>2
    <3>. QED BY <3>2, <3>5 DEF WillShow, n
  <2>. QED BY <2>1, <2>2
<1>. QED BY <1>4, <1>5, <1>6 DEF WillShow

(* The push of the state event itself.                                     *)
LEMMA StatePushed ==
  ASSUME TypeOK, Push, NEW x, Head(out) = StateEvent(x)
  PROVE  WillShow(x)'
<1> DEFINE n == Len(events')
<1>1. /\ Head(out) \in Events /\ events' = Pushed(events, Head(out))
      /\ events \in Seq(Events) /\ Len(events) <= EventCapacity
  BY HeadTailProperties DEF TypeOK, Push
<1>2. n \in Nat \ {0} /\ events'[n] = StateEvent(x)
  <2>1. n = Len(Pushed(events, Head(out)))
    BY <1>1
  <2>. HIDE DEF n
  <2>. QED BY <1>1, <2>1, PushedElements
<1>3. n \in 1..n /\ \A j \in (n + 1)..n : FALSE
  BY <1>2
<1>. QED BY <1>2, <1>3 DEF WillShow

(* Taking an event does not change what the screen will show.              *)
LEMMA ShownAfterPop ==
  ASSUME TypeOK, info \in Model!Infos, PopEvent,
         NEW x \in {"Error", "Receiving"}, WillShow(x),
         Model!HandleEvent(Head(events))
  PROVE  WillShow(x)'
<1> DEFINE e == Head(events)
           n == Len(events')
<1>1. /\ events # <<>> /\ n = Len(events) - 1 /\ n \in Nat /\ Len(events) \in Nat
      /\ \A i \in 1..n : i + 1 \in 1..Len(events) /\ events'[i] = events[i + 1]
      /\ 1 \in 1..Len(events) /\ events[1] = e /\ UNCHANGED <<dropped, warned>>
  <2>1. events # <<>> /\ events \in Seq(Events) /\ events' = Tail(events)
        /\ UNCHANGED <<dropped, warned>>
    BY DEF TypeOK, PopEvent
  <2>. QED BY <2>1, RangeOfTail, LenProperties
<1>2. info' = Model!InfoAfter(e)
  BY DEF Model!HandleEvent
<1> HIDE DEF e, n
<1>3. ASSUME ~Decides(e) PROVE info'.state = info.state /\ info'.ready = info.ready
  <2>1. info' = info \/ info' = [info EXCEPT !.initFailed = (e.arg = "initialize")]
    BY <1>2, <1>3, Zenon DEF Decides, Model!InfoAfter
  <2>. QED BY <2>1 DEF Model!Infos
<1>4. CASE Excused
  BY <1>1, <1>4 DEF WillShow, Excused, FewSends
<1>5. CASE /\ \A j \in 1..Len(events) : ~Decides(events[j])
           /\ info.state = Model!Shown[x] /\ info.ready = (x \in Model!ReadyStates)
  <2>1. \A j \in 1..n : ~Decides(events'[j])
    BY <1>1, <1>5
  <2>2. info'.state = info.state /\ info'.ready = info.ready
    BY <1>1, <1>3, <1>5
  <2>. QED BY <1>5, <2>1, <2>2 DEF WillShow, n
<1>6. ASSUME NEW k \in 1..Len(events), events[k] = StateEvent(x),
             \A j \in (k + 1)..Len(events) : events[j].type = Trailing(x)
      PROVE  WillShow(x)'
  <2>1. CASE k = 1
    <3>1. info'.state = Model!Shown[x] /\ info'.ready = (x \in Model!ReadyStates)
      <4>1. e.type = "State" /\ e.arg = x
        BY <1>1, <1>6, <2>1 DEF StateEvent
      <4>2. info' = Model!StateShown(x)
        BY <1>2, <4>1 DEF Model!InfoAfter
      <4>. QED BY <4>2, Zenon DEF Model!StateShown, Model!Info
    <3>2. \A j \in 1..n : j + 1 \in (k + 1)..Len(events)
      BY <1>1, <2>1
    <3>3. \A j \in 1..n : ~Decides(events'[j])
      BY <1>1, <1>6, <3>2 DEF Decides, Trailing
    <3>. QED BY <3>1, <3>3 DEF WillShow, n
  <2>2. CASE k # 1
    <3>1. k - 1 \in 1..n /\ (k - 1) + 1 = k
      BY <1>1, <2>2
    <3>2. events'[k - 1] = StateEvent(x)
      BY <1>1, <1>6, <3>1
    <3>3. \A j \in k..n : j \in 1..n /\ j + 1 \in (k + 1)..Len(events)
      BY <1>1
    <3>4. \A j \in ((k - 1) + 1)..n : events'[j].type = Trailing(x)
      BY <1>1, <1>6, <3>1, <3>3
    <3>. QED BY <3>1, <3>2, <3>4 DEF WillShow, n
  <2>. QED BY <2>1, <2>2
<1>. QED BY <1>4, <1>5, <1>6 DEF WillShow

(* The steps that touch neither the events nor the screen.                 *)
LEMMA WillShowFrame ==
  ASSUME NEW x, WillShow(x), UNCHANGED <<events, info>>,
         Excused => Excused'
  PROVE  WillShow(x)'
BY DEF WillShow

LEMMA ScreenFrame ==
  ASSUME Shows, UNCHANGED <<commands, initialized, events, info, dropped, warned>>,
         out = <<>>, Silent'
  PROVE  Shows'
<1>1. ~Told /\ Current' = Current
  BY DEF Told, Current
<1>2. WillShow(Current) => WillShow(Current)'
  <2>1. Excused => Excused'
    BY DEF Excused, FewSends
  <2>2. ASSUME NEW x, WillShow(x) PROVE WillShow(x)'
    BY <2>1, <2>2 DEF WillShow
  <2>. QED BY <1>1, <2>1 DEF WillShow
<1>3. Owed => Owed'
  BY DEF Owed
<1>. QED BY <1>1, <1>2, <1>3 DEF Shows

(* The worker has reported what it has become.                             *)
LEMMA NowTold ==
  ASSUME \/ out' = <<StateEvent(Current')>>
         \/ \E e : out' = <<e, StateEvent(Current')>>
  PROVE  Shows'
<1>1. /\ \A y : <<y>> # <<>> /\ Last(<<y>>) = y
      /\ \A e, y : <<e, y>> # <<>> /\ Last(<<e, y>>) = y
  BY DEF Last
<1>2. out' # <<>> /\ Last(out') = StateEvent(Current')
  BY <1>1
<1>. QED BY <1>2 DEF Shows, Told, StateEvent, Last

LEMMA PushScreen ==
  ASSUME TypeOK, WorkerInv, OutcomeInv, RecordShape, ScreenShape, Push, UNCHANGED info
  PROVE  ScreenShape'
<1>1. /\ out # <<>> /\ out \in Seq(Events) /\ out' = Tail(out)
      /\ UNCHANGED <<commands, pc, modeVars, sendVars, warned>>
  BY DEF TypeOK, Push
<1>2. /\ Len(out') = Len(out) - 1 /\ Len(out) \in Nat
      /\ \A i \in 1..Len(out') : i + 1 \in 1..Len(out) /\ out'[i] = out[i + 1]
      /\ 1 \in 1..Len(out) /\ out[1] = Head(out)
  BY <1>1, RangeOfTail, LenProperties
<1>3. Current' = Current /\ Calm' = Calm /\ Owed' = Owed
  BY <1>1 DEF Current, Calm, Owed, sending, modeVars, sendVars
<1>4. ASSUME Told PROVE Shows'
  <2>1. CASE Len(out) = 1
    <3>1. Head(out) = StateEvent(Current)
      BY <1>2, <1>4, <2>1 DEF Told, Last
    <3>2. WillShow(Current)'
      <4>1. \A x : Head(out) = StateEvent(x) => WillShow(x)'
        BY StatePushed
      <4>. QED BY <1>3, <3>1, <4>1 DEF WillShow
    <3>3. Silent'
      BY <1>2, <2>1 DEF Silent
    <3>. QED BY <3>2, <3>3 DEF Shows
  <2>2. CASE Len(out) # 1
    <3>1. Tail(out) # <<>> /\ Last(Tail(out)) = Last(out)
      <4>1. Len(Tail(out)) # 0
        BY <1>1, <1>2, <2>2
      <4>2. Tail(out) # <<>>
        BY <1>1, <4>1, EmptySeq
      <4>. QED BY <1>1, <4>2, LastOfTail
    <3>2. out' # <<>> /\ Last(out') = StateEvent(Current')
      BY <1>1, <1>3, <1>4, <3>1 DEF Told
    <3>. QED BY <3>2 DEF Told, Shows, StateEvent, Last
  <2>. QED BY <2>1, <2>2
<1>5. ASSUME Silent, WillShow(Current) \/ Owed PROVE Shows'
  <2>1. Silent'
    BY <1>2, <1>3, <1>5 DEF Silent
  <2>2. CASE WillShow(Current)
    <3>1. Head(out).type = Trailing(Current) /\ Current \in {"Error", "Receiving"}
      BY <1>2, <1>5 DEF Silent, Current
    <3>2. \A x \in {"Error", "Receiving"} :
            WillShow(x) /\ Head(out).type = Trailing(x) => WillShow(x)'
      BY <1>1, TrailingPushed
    <3>3. WillShow(Current)'
      BY <1>3, <2>2, <3>1, <3>2 DEF WillShow
    <3>. QED BY <2>1, <3>3 DEF Shows
  <2>. QED BY <1>3, <1>5, <2>1, <2>2 DEF Shows
<1>6. Calm => Shows'
  BY <1>4, <1>5 DEF ScreenShape, Shows
<1>. QED BY <1>1, <1>3, <1>6 DEF ScreenShape, modeVars

LEMMA SilentRules ==
  /\ out' = <<>> => Silent'
  /\ \A e : out' = <<e>> /\ initialized' /\ e.type = "RxPacket" => Silent'
  /\ \A e : out' = <<e>> /\ ~initialized' /\ e.type = "TxFailed" => Silent'
<1>1. out' = <<>> => Silent'
  BY DEF Silent
<1>2. \A e : out' = <<e>> => \A i \in 1..Len(out') : out'[i] = e
  OBVIOUS
<1>. QED BY <1>1, <1>2 DEF Silent, Trailing, Current

(* What the steps of the worker do, to the screen.                         *)
LEMMA WorkerScreenRule ==
  ASSUME ScreenShape, pc # "none", out = <<>>,
         UNCHANGED <<info, commands, receiveRequested, events, dropped, warned>>,
         \/ ~Calm'
         \/ Calm /\ Silent' /\ UNCHANGED initialized
         \/ out' = <<StateEvent(Current')>>
         \/ \E e : out' = <<e, StateEvent(Current')>>
  PROVE  ScreenShape'
<1>1. Calm' => Shows'
  <2>1. CASE Calm /\ Silent' /\ UNCHANGED initialized
    BY <2>1, ScreenFrame DEF ScreenShape
  <2>2. CASE \/ out' = <<StateEvent(Current')>>
             \/ \E e : out' = <<e, StateEvent(Current')>>
    BY <2>2, NowTold
  <2>. QED BY <2>1, <2>2
<1>. QED BY <1>1 DEF ScreenShape

(* The same of a step that is in the middle of something, or only moves.   *)
CalmPcs == QuietPcs \cup {"rx"} \cup AckPcs

LEMMA CalmRules ==
  /\ Calm => pc \in CalmPcs
  /\ Calm' => pc' \in CalmPcs
  /\ pc \in QuietPcs \cup {"rx"} => Calm
  /\ pc \in AckPcs /\ ~sending => Calm
  /\ sending' /\ pc' \notin QuietPcs \cup {"rx"} => ~Calm'
  /\ CalmPcs \cap {"none", "init", "initClose", "initOpen", "initStart", "initFail",
                   "setReceive", "restore", "failClose", "stopping", "finalClose", "exit",
                   "exited", "txStop", "transmit", "txStart", "txWait", "backoff",
                   "txReset"} = {}
<1>1. CalmPcs \cap {"none", "init", "initClose", "initOpen", "initStart", "initFail",
                   "setReceive", "restore", "failClose", "stopping", "finalClose", "exit",
                   "exited", "txStop", "transmit", "txStart", "txWait", "backoff",
                   "txReset"} = {}
  BY DEF CalmPcs, QuietPcs, WaitPcs, AckPcs
<1>. QED BY <1>1 DEF Calm, CalmPcs

LEMMA InitializeScreen ==
  ASSUME ScreenShape, Initialize, UNCHANGED info
  PROVE  ScreenShape'
<1>. USE DEF At, Goto, shared, queueVars, history, modeVars, Closes, StopsAtCancel
<1>1. pc # "none" /\ out = <<>>
      /\ UNCHANGED <<commands, receiveRequested, events, dropped, warned>>
  BY DEF Initialize, InitBegin, InitClose, InitOpen, InitStartReceive, InitFail
<1>2. receiveRequested
  BY <1>1 DEF ScreenShape
<1>3. CASE InitBegin \/ InitClose
  <2>1. pc' \in {"initClose", "initOpen"}
    BY <1>3 DEF InitBegin, InitClose
  <2>. QED BY <1>1, <2>1, CalmRules, WorkerScreenRule
<1>4. CASE InitOpen
  <2>1. pc' \in {"initStart", "initFail", "stopping"}
    BY <1>2, <1>4 DEF InitOpen
  <2>. QED BY <1>1, <2>1, CalmRules, WorkerScreenRule
<1>5. CASE InitStartReceive
  <2>1. CASE pc' \in {"initFail", "stopping"}
    BY <1>1, <2>1, CalmRules, WorkerScreenRule
  <2>2. CASE out' = <<StateEvent("Receiving")>> /\ initialized'
    <3>1. Current' = "Receiving"
      BY <2>2 DEF Current
    <3>. QED BY <1>1, <2>2, <3>1, WorkerScreenRule
  <2>. QED BY <1>5, <2>1, <2>2 DEF InitStartReceive
<1>6. CASE InitFail
  <2>1. out' = <<ErrorEvent("initialize"), StateEvent("Error")>> /\ ~initialized'
    BY <1>6 DEF InitFail
  <2>2. Current' = "Error"
    BY <2>1 DEF Current
  <2>. QED BY <1>1, <2>1, <2>2, WorkerScreenRule
<1>. QED BY <1>3, <1>4, <1>5, <1>6 DEF Initialize

LEMMA LoopScreen ==
  ASSUME WorkerInv, ScreenShape, UNCHANGED info,
         LoopTop \/ SetReceive \/ FailClose \/ Wait \/ SpuriousWakeup
  PROVE  ScreenShape'
<1>. USE DEF At, Goto, shared, queueVars, history, modeVars, Closes, StopsAtCancel
<1>1. pc # "none" /\ out = <<>>
      /\ UNCHANGED <<commands, receiveRequested, events, dropped, warned>>
  BY DEF LoopTop, SetReceive, FailClose, Wait, WaitCheck, Park, WaitTimeout, SpuriousWakeup
<1>2. CASE LoopTop \/ Wait \/ SpuriousWakeup
  <2>1. pc \in QuietPcs /\ out' = <<>> /\ UNCHANGED initialized
    BY <1>2 DEF LoopTop, Wait, WaitCheck, Park, WaitTimeout, SpuriousWakeup, QuietPcs, WaitPcs
  <2>. QED BY <1>1, <2>1, CalmRules, SilentRules, WorkerScreenRule
<1>3. CASE SetReceive
  <2>1. CASE pc' \in {"failClose", "stopping"}
    BY <1>1, <2>1, CalmRules, WorkerScreenRule
  <2>2. CASE out' = <<StateEvent(SettledState)>>
    <3>1. pc = "setReceive" /\ receiveRequested /\ UNCHANGED initialized
      BY <1>3 DEF SetReceive, ScreenShape
    <3>2. initialized
      BY <3>1 DEF WorkerInv, BackendShape, InitializedPcs
    <3>3. Current' = "Receiving" /\ SettledState = "Receiving"
      BY <3>1, <3>2 DEF Current, SettledState
    <3>. QED BY <1>1, <2>2, <3>3, WorkerScreenRule
  <2>. QED BY <1>3, <2>1, <2>2 DEF SetReceive
<1>4. CASE FailClose
  <2>1. out' = <<StateEvent("Error")>> /\ ~initialized'
    BY <1>4 DEF FailClose
  <2>2. Current' = "Error"
    BY <2>1 DEF Current
  <2>. QED BY <1>1, <2>1, <2>2, WorkerScreenRule
<1>. QED BY <1>2, <1>3, <1>4

LEMMA DequeueScreen ==
  ASSUME TypeOK, WorkerInv, ScreenShape, UNCHANGED info, Dequeue
  PROVE  ScreenShape'
<1>. USE DEF At, Goto, shared, queueVars, history
<1>1. pc = "dequeue" /\ out = <<>> /\ Calm
      /\ UNCHANGED <<initialized, events, dropped, warned>>
  BY CalmRules DEF Dequeue, QuietPcs
<1>2. CASE commands = <<>>
  <2>1. UNCHANGED <<commands, receiveRequested>> /\ out' = <<>>
    BY <1>2 DEF Dequeue
  <2>. QED BY <1>1, <2>1, CalmRules, SilentRules, WorkerScreenRule
<1>3. CASE commands # <<>>
  <2> DEFINE c == Head(commands)
  <2>1. /\ commands' = Tail(commands) /\ Handle(c) /\ c \in Commands
        /\ c.type # "SetReceive"
        /\ Len(commands') = Len(commands) - 1 /\ Len(commands) \in Nat /\ 1 \in 1..Len(commands)
        /\ \A i \in 1..Len(commands') : i + 1 \in 1..Len(commands) /\ commands'[i] = commands[i + 1]
        /\ commands[1] = c
    <3>1. commands' = Tail(commands) /\ Handle(c) /\ commands \in Seq(Commands)
      BY <1>3 DEF Dequeue, TypeOK
    <3>. QED BY <1>3, <3>1, RangeOfTail, HeadTailProperties, LenProperties DEF ScreenShape
  <2> HIDE DEF c
  <2>2. c.type \in {"Send", "Retry"}
    BY <2>1, CommandArguments
  <2>3. receiveRequested' = receiveRequested
    BY <2>1, <2>2 DEF Handle
  <2>4. \A i \in 1..Len(commands') : commands'[i].type # "SetReceive"
    BY <2>1 DEF ScreenShape
  <2>5. ASSUME Calm' PROVE Shows'
    <3>1. c.type # "Retry"
      BY <2>1, <2>5, CalmRules DEF Handle
    <3>2. ~initialized
      BY <2>1, <2>2, <2>5, <3>1, CalmRules DEF Handle
    <3>3. out' = <<TxFailed(c.arg)>>
      BY <2>1, <2>2, <3>1, <3>2 DEF Handle, Refusal
    <3>4. Silent'
      BY <1>1, <3>2, <3>3, SilentRules DEF TxFailed
    <3>5. CASE WillShow(Current)
      <4>1. Current' = Current /\ UNCHANGED <<events, info, dropped, warned>>
        BY <1>1 DEF Current
      <4>2. WillShow(Current)'
        BY <3>5, <4>1 DEF WillShow, Excused, FewSends
      <4>. QED BY <3>4, <4>2 DEF Shows
    <3>6. CASE Owed
      <4>1. PICK i \in 1..Len(commands) : commands[i].type = "Retry"
        BY <3>2, <3>6 DEF Owed
      <4>2. i # 1
        BY <2>1, <2>2, <3>1, <4>1
      <4>3. i - 1 \in 1..Len(commands') /\ (i - 1) + 1 = i
        BY <2>1, <4>2
      <4>4. commands'[i - 1].type = "Retry"
        BY <2>1, <4>1, <4>3
      <4>5. commands' # <<>>
        BY <4>3
      <4>. QED BY <3>4, <4>3, <4>4, <4>5 DEF Shows, Owed
    <3>7. ~Told
      BY <1>1 DEF Told
    <3>. QED BY <1>1, <3>5, <3>6, <3>7 DEF ScreenShape, Shows
  <2>. QED BY <1>1, <2>3, <2>4, <2>5 DEF ScreenShape
<1>. QED BY <1>2, <1>3

LEMMA ReceiveScreen ==
  ASSUME WorkerInv, ScreenShape, UNCHANGED info, Receive
  PROVE  ScreenShape'
<1>. USE DEF At, Goto, shared, queueVars, history, modeVars, sendVars
<1>1. /\ pc \in {"rx", "txWait"} \cup AckPcs /\ out = <<>>
      /\ UNCHANGED <<commands, receiveRequested, initialized, events, dropped, warned>>
  BY DEF Receive, ReceiveNothing, ReceiveLegacy, ReceiveThrows, ReceiveCancelled, AckStop,
         AckTransmit, AckStart, ReceiveData, AckPcs
<1>2. /\ pc # "none" /\ (pc = "rx" => ~sending) /\ (pc = "txWait" => sending) /\ initialized
  <2>1. pc \in InitializedPcs /\ pc # "none"
    BY <1>1 DEF InitializedPcs, SendPcs, AckPcs
  <2>2. "rx" \notin SendPcs \cup AckPcs \cup {"stopping"} /\ "txWait" \in SendPcs
    BY DEF SendPcs, AckPcs
  <2>. QED BY <2>1, <2>2 DEF WorkerInv, BackendShape, SendShape
<1>3. CASE pc' \in {"stopping", "restore", "failClose"}
  BY <1>1, <1>2, <1>3, CalmRules, WorkerScreenRule
<1>4. CASE sending /\ sending' /\ pc' \notin QuietPcs \cup {"rx"}
  BY <1>1, <1>2, <1>4, CalmRules, WorkerScreenRule
<1>5. CASE /\ ~sending
           /\ out' = <<>> \/ \E e : out' = <<e>> /\ e.type = "RxPacket"
  <2>1. Calm
    BY <1>1, <1>2, <1>5, CalmRules
  <2>2. Silent'
    BY <1>1, <1>2, <1>5, SilentRules
  <2>. QED BY <1>1, <1>2, <2>1, <2>2, WorkerScreenRule
<1>6. "txWait" \notin QuietPcs \cup {"rx"} /\ AckPcs \cap (QuietPcs \cup {"rx"}) = {}
      /\ {"ackStop", "ackTransmit", "ackStart"} = AckPcs
  BY DEF QuietPcs, WaitPcs, AckPcs
<1>7. CASE ReceiveNothing
  <2>1. pc = "rx" /\ out' = <<>>
    BY <1>7 DEF ReceiveNothing
  <2>. QED BY <1>2, <1>5, <2>1
<1>8. CASE ReceiveLegacy
  <2>1. out' = <<LegacyPacket>> /\ LegacyPacket.type = "RxPacket" /\ pc' = resume
        /\ sending' = sending
    BY <1>8 DEF ReceiveLegacy, LegacyPacket, sending
  <2>. QED BY <1>4, <1>5, <1>6, <2>1 DEF resume
<1>9. ASSUME NEW t \in PeerTokens, ReceiveData(t) PROVE ScreenShape'
  <2>1. out' = <<>> \/ (out' = <<RxPacket(t)>> /\ RxPacket(t).type = "RxPacket")
    BY <1>9 DEF ReceiveData, RxPacket
  <2>2. pc' \in {"ackStop", resume} /\ sending' = sending
    BY <1>9 DEF ReceiveData, sending
  <2>. QED BY <1>4, <1>5, <1>6, <2>1, <2>2 DEF resume
<1>10. CASE ReceiveThrows
  BY <1>3, <1>10 DEF ReceiveThrows, Abort, TxAbort, ReceiveAbort
<1>11. CASE ReceiveCancelled
  BY <1>3, <1>11 DEF ReceiveCancelled, StopsAtCancel
<1>12. CASE AckStop \/ AckTransmit \/ AckStart
  <2>1. \/ pc' \in {"stopping", "restore", "failClose"}
        \/ pc' \in {"ackTransmit", "ackStart", resume} /\ out' = <<>> /\ UNCHANGED sendVars
    BY <1>12 DEF AckStop, AckTransmit, AckStart, Abort, TxAbort, ReceiveAbort, StopsAtCancel
  <2>. QED BY <1>3, <1>4, <1>5, <1>6, <2>1 DEF resume, sending
<1>. QED BY <1>7, <1>8, <1>9, <1>10, <1>11, <1>12 DEF Receive

LEMMA SendScreen ==
  ASSUME WorkerInv, ScreenShape, UNCHANGED info, Send
  PROVE  ScreenShape'
<1>. USE DEF At, Goto, shared, queueVars, history, modeVars
<1>1. /\ pc \in SendPcs \cup {"restore"} /\ out = <<>>
      /\ UNCHANGED <<commands, receiveRequested, initialized, events, dropped, warned>>
  BY DEF Send, TxStop, Transmit, TxStart, Acknowledged, AckTimeout, Backoff, TxReset,
         Restore, SendPcs
<1>2. pc # "none" /\ initialized /\ receiveRequested /\ Current' = "Receiving"
      /\ SettledState = "Receiving"
  <2>1. pc \in InitializedPcs /\ pc # "none"
    BY <1>1 DEF InitializedPcs, SendPcs
  <2>. QED BY <1>1, <2>1 DEF WorkerInv, BackendShape, ScreenShape, Current, SettledState
<1>3. CASE pc' \in {"txStop", "transmit", "txStart", "txWait", "backoff", "txReset", "restore",
                    "failClose", "stopping"}
  BY <1>1, <1>2, <1>3, CalmRules, WorkerScreenRule
<1>4. CASE \E e : out' = <<e, StateEvent(SettledState)>>
  BY <1>1, <1>2, <1>4, WorkerScreenRule
<1>5. CASE out' = <<StateEvent("Receiving")>>
  BY <1>1, <1>2, <1>5, WorkerScreenRule
<1>6. CASE TxStop \/ Transmit \/ TxStart
  BY <1>3, <1>4, <1>6 DEF TxStop, Transmit, TxStart, TxAbort, Conclude, StopsAtCancel
<1>7. CASE Acknowledged \/ AckTimeout \/ Backoff
  BY <1>3, <1>4, <1>7 DEF Acknowledged, AckTimeout, Backoff, Conclude, StopsAtCancel
<1>8. CASE TxReset \/ Restore
  BY <1>3, <1>4, <1>5, <1>8 DEF TxReset, Restore, TxAbort, Conclude, StopsAtCancel
<1>. QED BY <1>6, <1>7, <1>8 DEF Send

LEMMA ShutdownScreen ==
  ASSUME ScreenShape, UNCHANGED info, Shutdown
  PROVE  ScreenShape'
<1>1. /\ pc # "none" /\ out = <<>>
      /\ UNCHANGED <<commands, receiveRequested, events, dropped, warned>>
      /\ pc' \in {"finalClose", "exit", "exited"}
  BY DEF Shutdown, Stopping, FinalClose, Exit, At, Goto, shared, queueVars, history, modeVars
<1>. QED BY <1>1, CalmRules, WorkerScreenRule

LEMMA WorkerScreen ==
  ASSUME TypeOK, WorkerInv, OutcomeInv, RecordShape, ScreenShape, UNCHANGED info,
         WorkerStep \/ SpuriousWakeup
  PROVE  ScreenShape'
BY PushScreen, InitializeScreen, LoopScreen, DequeueScreen, ReceiveScreen, SendScreen,
   ShutdownScreen DEF WorkerStep

(* A command is queued, or refused by a full queue.                        *)
LEMMA PostScreen ==
  ASSUME TypeOK, ScreenShape, NEW c \in Commands, Post(c), c.type # "SetReceive",
         UNCHANGED info \/ (c.type = "Retry" /\ info' \in Model!Infos)
  PROVE  ScreenShape'
<1>1. /\ commands' = Append(commands, c) /\ commands \in Seq(Commands)
      /\ UNCHANGED <<events, dropped, pc, out, receiveRequested, initialized, sendId, attempt, warned>>
  BY DEF Post, TypeOK, queueVars, workerVars, modeVars, sendVars
<1>2. /\ Len(commands') = Len(commands) + 1 /\ Len(commands) \in Nat
      /\ \A i \in 1..Len(commands) : commands'[i] = commands[i]
      /\ commands'[Len(commands) + 1] = c /\ commands' # <<>>
  BY <1>1, AppendProperties, LenProperties
<1>3. \A i \in 1..Len(commands') : i \in 1..Len(commands) \/ i = Len(commands) + 1
  BY <1>2
<1>4. \A i \in 1..Len(commands) : i \in 1..Len(commands')
  BY <1>2
<1>5. Calm' = Calm /\ Current' = Current /\ Told' = Told /\ Silent' = Silent
  BY <1>1 DEF Calm, Current, Told, Silent, sending, Last, StateEvent, Trailing
<1>6. Owed => Owed'
  BY <1>1, <1>2, <1>4 DEF Owed
<1>7. c.type = "Retry" => Owed'
  <2>1. Len(commands) + 1 \in 1..Len(commands')
    BY <1>2
  <2>. QED BY <1>2, <2>1 DEF Owed
<1>8. UNCHANGED info /\ WillShow(Current) => WillShow(Current)'
  BY <1>1, <1>5 DEF WillShow, Excused, FewSends
<1>9. info' \in Model!Infos
  BY DEF ScreenShape
<1>10. \A i \in 1..Len(commands') : commands'[i].type # "SetReceive"
  BY <1>2, <1>3 DEF ScreenShape
<1>. QED BY <1>1, <1>5, <1>6, <1>7, <1>8, <1>9, <1>10 DEF ScreenShape, Shows

(* A retry is refused: the commands that fill the queue bring a new state, *)
(* or the radio is not initialized, which is what the screen then shows.   *)
LEMMA RefusedRetryScreen ==
  ASSUME ScreenShape, UNCHANGED vars, Len(commands) >= CommandCapacity,
         Model!ModelRetry(FALSE)
  PROVE  ScreenShape'
<1>1. info' = [state |-> "Error", ready |-> FALSE, initFailed |-> FALSE]
  BY DEF Model!ModelRetry, Model!Info
<1>2. info' \in Model!Infos
  BY <1>1 DEF Model!Infos, Model!RadioUiStates
<1>3. commands # <<>>
  BY CapacityAssumption
<1>4. CASE initialized
  BY <1>2, <1>3, <1>4 DEF vars, workerVars, modeVars, sendVars, queueVars, history, ScreenShape, Calm, Shows, Told,
     Silent, Owed, Current, sending, Last, StateEvent, Trailing
<1>5. CASE ~initialized
  <2>1. WillShow(Current) => WillShow(Current)'
    <3>1. UNCHANGED <<events, dropped, warned, initialized>> /\ Current = "Error"
      BY <1>5 DEF vars, workerVars, modeVars, queueVars, history, Current
    <3>2. info'.state = Model!Shown["Error"] /\ info'.ready = ("Error" \in Model!ReadyStates)
      <4>1. Model!Shown["Error"] = "Error"
        BY DEF Model!Shown
      <4>2. ("Error" \in Model!ReadyStates) = FALSE
        BY DEF Model!ReadyStates
      <4>3. info'.state = "Error" /\ info'.ready = FALSE
        BY <1>1
      <4>. QED BY <4>1, <4>2, <4>3, Zenon
    <3>3. Current' = "Error"
      BY <3>1 DEF Current
    <3>4. ASSUME WillShow("Error") PROVE WillShow("Error")'
      BY <3>1, <3>2, <3>4 DEF WillShow, Excused, FewSends
    <3>. QED BY <3>1, <3>3, <3>4 DEF WillShow
  <2>2. /\ UNCHANGED <<commands, pc, out, receiveRequested, initialized>>
        /\ Calm' = Calm /\ Told' = Told /\ Silent' = Silent /\ Owed' = Owed
    BY DEF vars, workerVars, modeVars, sendVars, Calm, Told, Silent, Owed, Current, sending,
           Last, StateEvent, Trailing
  <2>. QED BY <1>2, <2>1, <2>2 DEF ScreenShape, Shows
<1>. QED BY <1>4, <1>5

LEMMA ScreenInit == SessionInit => ScreenShape
<1>. SUFFICES ASSUME SessionInit PROVE ScreenShape
  OBVIOUS
<1>1. pc = "none" /\ commands = <<>> /\ info = Model!Info("Initializing", FALSE, FALSE)
  BY DEF SessionInit, Init, Model!Init
<1>2. info \in Model!Infos
  BY <1>1 DEF Model!Info, Model!Infos, Model!RadioUiStates
<1>3. ~Calm
  BY <1>1, CalmRules
<1>4. \A i \in 1..Len(commands) : commands[i].type # "SetReceive"
  BY <1>1
<1>. QED BY <1>1, <1>2, <1>3, <1>4, Zenon DEF ScreenShape

(* The thread is started, or could not be.                                 *)
LEMMA StartScreen ==
  ASSUME Start(TRUE), info' \in Model!Infos
  PROVE  ScreenShape'
<1>1. pc' \in {"init", "none"} /\ commands' = <<>> /\ receiveRequested' = TRUE
  BY DEF Start
<1>. QED BY <1>1, CalmRules DEF ScreenShape

(* The event taken sets the screen to a state of a radio.                  *)
LEMMA InfoTyped ==
  ASSUME info \in Model!Infos, NEW e \in Events
  PROVE  Model!InfoAfter(e) \in Model!Infos
<1>1. /\ info.state \in Model!RadioUiStates /\ info.ready \in BOOLEAN
      /\ info.initFailed \in BOOLEAN
  BY DEF Model!Infos
<1>2. \A s \in Model!RadioUiStates, a, b \in BOOLEAN : Model!Info(s, a, b) \in Model!Infos
  BY DEF Model!Info, Model!Infos
<1>3. CASE e.type = "State"
  <2>1. e.arg \in RadioStates
    BY <1>3, EventArguments
  <2>2. Model!Shown[e.arg] \in Model!RadioUiStates
    BY <2>1 DEF RadioStates, Model!Shown, Model!RadioUiStates
  <2>3. /\ (e.arg \in Model!ReadyStates) \in BOOLEAN
        /\ (e.arg \in Model!FailedEnds /\ info.initFailed) \in BOOLEAN
    OBVIOUS
  <2>4. Model!StateShown(e.arg) \in Model!Infos
    BY <1>2, <2>2, <2>3 DEF Model!StateShown
  <2>. QED BY <1>3, <2>4 DEF Model!InfoAfter
<1>4. CASE e.type = "Initialized"
  BY <1>1, <1>2, <1>4 DEF Model!InfoAfter
<1>5. CASE e.type = "Error"
  <2>1. [info EXCEPT !.initFailed = (e.arg = "initialize")] \in Model!Infos
    BY DEF Model!Infos
  <2>. QED BY <1>5, <2>1 DEF Model!InfoAfter
<1>6. CASE e.type = "TxStarted"
  <2>1. "Sending" \in Model!RadioUiStates
    BY DEF Model!RadioUiStates
  <2>. QED BY <1>1, <1>2, <1>6, <2>1 DEF Model!InfoAfter
<1>7. CASE e.type \notin {"State", "Initialized", "Error", "TxStarted"}
  BY <1>7 DEF Model!InfoAfter
<1>. QED BY <1>3, <1>4, <1>5, <1>6, <1>7

(* The UI thread takes an event, or an overflow notice.                    *)
LEMMA TickScreen ==
  ASSUME TypeOK, ScreenShape, UNCHANGED <<workerVars, commands>>,
         \/ PopEvent /\ Model!HandleEvent(Head(events))
         \/ PopOverflow /\ UNCHANGED info
  PROVE  ScreenShape'
<1>1. /\ UNCHANGED <<pc, out, receiveRequested, initialized>>
      /\ Calm' = Calm /\ Told' = Told /\ Silent' = Silent /\ Owed' = Owed /\ Current' = Current
  BY DEF workerVars, modeVars, sendVars, Calm, Told, Silent, Owed, Current, sending,
         Last, StateEvent, Trailing
<1>2. Current \in {"Error", "Receiving"}
  BY DEF Current
<1>3. info' \in Model!Infos
  <2>1. CASE PopEvent /\ Model!HandleEvent(Head(events))
    <3>1. Head(events) \in Events
      BY <2>1, HeadTailProperties DEF TypeOK, PopEvent
    <3>. QED BY <2>1, <3>1, InfoTyped DEF ScreenShape, Model!HandleEvent
  <2>. QED BY <2>1 DEF ScreenShape
<1>4. ASSUME NEW x \in {"Error", "Receiving"}, WillShow(x) PROVE WillShow(x)'
  <2>1. CASE PopEvent /\ Model!HandleEvent(Head(events))
    BY <1>4, <2>1, ShownAfterPop DEF ScreenShape
  <2>2. CASE PopOverflow /\ UNCHANGED info
    <3>1. UNCHANGED <<events, info>> /\ warned'
      BY <2>2 DEF PopOverflow
    <3>. QED BY <1>4, <3>1 DEF WillShow, Excused, FewSends
  <2>. QED BY <2>1, <2>2
<1>5. WillShow(Current) => WillShow(Current)'
  BY <1>1, <1>2, <1>4 DEF WillShow
<1>. QED BY <1>1, <1>3, <1>5 DEF ScreenShape, Shows

LEMMA ScreenStep ==
  ASSUME TypeOK, WorkerInv, OutcomeInv, RecordShape, ScreenShape, [SessionNext]_sessionVars
  PROVE  ScreenShape'
<1>. USE DEF modelVars
<1>1. \A s \in Model!RadioUiStates, a, b \in BOOLEAN : Model!Info(s, a, b) \in Model!Infos
  BY DEF Model!Info, Model!Infos
<1>2. {"Initializing", "Error", "Stopped"} \subseteq Model!RadioUiStates
  BY DEF Model!RadioUiStates
<1>3. ASSUME UNCHANGED <<vars, info>> PROVE ScreenShape'
  BY <1>3 DEF vars, workerVars, modeVars, sendVars, queueVars, history, ScreenShape, Calm, Shows,
     Told, Silent, Owed, Current, WillShow, Excused, FewSends, sending, Last, StateEvent, Trailing
<1>4. CASE SessionStart
  <2>1. info' \in Model!Infos
    BY <1>1, <1>2, <1>4 DEF SessionStart, Model!ModelStart
  <2>. QED BY <1>4, <2>1, StartScreen DEF SessionStart
<1>5. CASE SendDraft
  <2>1. UNCHANGED info
    BY <1>5 DEF SendDraft, Model!SendAccepted, Model!SendRefused
  <2>2. CASE Post(SendCommand(nextTxId))
    <3>1. SendCommand(nextTxId) \in Commands /\ SendCommand(nextTxId).type # "SetReceive"
      BY <1>5 DEF SendDraft, Commands, SendCommand
    <3>. QED BY <2>1, <2>2, <3>1, PostScreen
  <2>. QED BY <1>3, <1>5, <2>1, <2>2 DEF SendDraft
<1>6. CASE RetryRadio
  <2>1. info' \in Model!Infos
    BY <1>1, <1>2, <1>6 DEF RetryRadio, Model!ModelRetry
  <2>2. CASE Post(RetryCommand)
    <3>1. RetryCommand \in Commands /\ RetryCommand.type = "Retry"
      BY DEF Commands, RetryCommand
    <3>. QED BY <2>1, <2>2, <3>1, PostScreen
  <2>3. CASE Start(TRUE)
    BY <2>1, <2>3, StartScreen
  <2>. QED BY <1>6, <2>2, <2>3, RefusedRetryScreen DEF RetryRadio
<1>7. CASE Notified
  <2>1. /\ UNCHANGED <<commands, events, dropped, out, modeVars, sendVars, warned, info>>
        /\ pc' = IF pc = "parked" THEN "waitCheck" ELSE pc
    BY <1>7 DEF Notified, Notify, queueVars, history
  <2>2. Calm' = Calm /\ Shows' = Shows /\ (pc' = "none" => pc = "none")
    BY <2>1 DEF modeVars, sendVars, Calm, Shows, Told, Silent, Owed, Current, WillShow, Excused,
       FewSends, sending, Last, StateEvent, Trailing, QuietPcs, WaitPcs, AckPcs
  <2>. QED BY <2>1, <2>2 DEF ScreenShape, modeVars
<1>8. CASE TickBegin \/ TickEnd
  BY <1>3, <1>8 DEF TickBegin, TickEnd
<1>9. CASE TickEvent
  BY <1>9, TickScreen DEF TickEvent, PopOverflow, PopEvent
<1>10. CASE SessionStop
  <2>1. UNCHANGED <<commands, events, dropped, pc, out, modeVars, sendVars, warned, info>>
    BY <1>10 DEF SessionStop, Stop, queueVars, workerVars, history
  <2>. QED BY <2>1 DEF modeVars, sendVars, ScreenShape, Calm, Shows, Told, Silent, Owed, Current,
       WillShow, Excused, FewSends, sending, Last, StateEvent, Trailing
<1>11. CASE SessionStopped
  <2>1. pc' = "none" /\ UNCHANGED commands /\ info' = Model!Info("Stopped", FALSE, info.initFailed)
    BY <1>11 DEF SessionStopped, Join, Model!ModelStopped
  <2>2. info' \in Model!Infos
    BY <1>1, <1>2, <2>1 DEF ScreenShape, Model!Infos
  <2>. QED BY <2>1, <2>2, CalmRules DEF ScreenShape
<1>12. CASE Worker
  BY <1>12, WorkerScreen DEF Worker
<1>13. CASE UNCHANGED sessionVars
  BY <1>3, <1>13 DEF sessionVars
<1>. QED BY <1>4, <1>5, <1>6, <1>7, <1>8, <1>9, <1>10, <1>11, <1>12, <1>13
         DEF SessionNext, Tick

(* In every session the queue keeps what the screen needs, or lost it and  *)
(* says so.                                                                *)
THEOREM ScreenInvariant == SessionSpec => []ScreenShape
<1>1. WorkerInv /\ OutcomeInv /\ SessionInv /\ ScreenShape /\ [SessionNext]_sessionVars
        => ScreenShape'
  BY ScreenStep DEF WorkerInv, SessionInv
<1>. QED BY ScreenInit, <1>1, SessionWorkerInvariant, SessionOutcomes, SessionInvariant, PTL
         DEF SessionSpec

LEMMA SettledScreen ==
  ASSUME WorkerInv, ScreenShape, Settled, ~Excused
  PROVE  /\ info.ready = initialized
         /\ info.state = IF initialized THEN "Receiving" ELSE "Error"
<1>1. /\ commands = <<>> /\ events = <<>> /\ pc \in QuietPcs \cup {"rx"} /\ out = <<>>
  BY DEF Settled, QuietPcs, WorkerInv, LifecycleShape
<1>2. Calm /\ ~Told /\ ~Owed
  BY <1>1, CalmRules DEF Told, Owed
<1>3. WillShow(Current)
  BY <1>2 DEF ScreenShape, Shows
<1>4. ~\E k \in 1..Len(events) : TRUE
  BY <1>1
<1>5. info.state = Model!Shown[Current] /\ info.ready = (Current \in Model!ReadyStates)
  BY <1>3, <1>4, Zenon DEF WillShow
<1>6. /\ Model!Shown["Receiving"] = "Receiving" /\ Model!Shown["Error"] = "Error"
      /\ "Receiving" \in Model!ReadyStates /\ "Error" \notin Model!ReadyStates
  BY DEF Model!Shown, Model!ReadyStates
<1>7. initialized \in BOOLEAN
  BY DEF WorkerInv, TypeOK
<1>8. CASE initialized
  BY <1>5, <1>6, <1>7, <1>8, Zenon DEF Current
<1>9. CASE ~initialized
  <2>1. initialized = FALSE /\ Current = "Error"
    BY <1>7, <1>9 DEF Current
  <2>2. ("Error" \in Model!ReadyStates) = FALSE
    BY <1>6
  <2>3. info.state = "Error" /\ info.ready = FALSE
    BY <1>5, <1>6, <2>1, <2>2, Zenon
  <2>. QED BY <2>1, <2>3, Zenon
<1>. QED BY <1>8, <1>9

(* Once everything has settled the screen says what the radio is, in every *)
(* session of fewer sends than the event queue holds ...                   *)
THEOREM ScreenIsTruthful ==
  ASSUME FewSends PROVE SessionSpec => []ScreenTruthful
<1>1. WorkerInv /\ ScreenShape => ScreenTruthful
  BY SettledScreen DEF ScreenTruthful, Excused
<1>. QED BY <1>1, ScreenInvariant, SessionWorkerInvariant, PTL

(* ... and in every session, however long, in which the user has not been  *)
(* told that events were lost.                                             *)
ScreenTruthfulUnlessWarned == warned \/ ScreenTruthful

THEOREM ScreenLiesOnlyAfterOverflow == SessionSpec => []ScreenTruthfulUnlessWarned
<1>1. WorkerInv /\ ScreenShape => ScreenTruthfulUnlessWarned
  <2>1. Settled /\ ~warned => ~Excused
    BY DEF Settled, Excused
  <2>. QED BY <2>1, SettledScreen DEF ScreenTruthful, ScreenTruthfulUnlessWarned
<1>. QED BY <1>1, ScreenInvariant, SessionWorkerInvariant, PTL
=============================================================================
