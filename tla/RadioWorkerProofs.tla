-------------------------- MODULE RadioWorkerProofs --------------------------
(***************************************************************************)
(* What holds of RadioWorker for every capacity, every number of attempts, *)
(* every set of sends and of peer tokens.                                  *)
(***************************************************************************)
EXTENDS RadioWorker, SequenceTheorems, WellFoundedInduction, TLAPS

(***************************************************************************)
(* Events and commands.                                                    *)
(***************************************************************************)

(* The constructors of RadioWorker make events.                            *)
LEMMA EventConstructors ==
  /\ \A s \in RadioStates : StateEvent(s) \in Events
  /\ \A o \in Operations : ErrorEvent(o) \in Events
  /\ InitializedEvt \in Events
  /\ LegacyPacket \in Events
  /\ \A t \in PeerTokens : RxPacket(t) \in Events
  /\ \A id \in SendIds : /\ TxStarted(id) \in Events
                         /\ TxCompleted(id) \in Events
                         /\ TxFailed(id) \in Events
BY DEF Events, StateEvent, ErrorEvent, InitializedEvt, LegacyPacket, RxPacket,
       TxStarted, TxCompleted, TxFailed, TxEndTypes

(* What an event of a given type carries.                                  *)
LEMMA EventArguments ==
  ASSUME NEW e \in Events
  PROVE  /\ e.type = "State" => e.arg \in RadioStates /\ e = StateEvent(e.arg)
         /\ e.type \in TxEndTypes => e.arg \in SendIds /\ e \in TxEndOf(e.arg)
BY DEF Events, InitializedEvt, LegacyPacket, TxEndTypes, StateEvent, TxEndOf,
       TxCompleted, TxFailed

(* What a command of a given type carries.                                 *)
LEMMA CommandArguments ==
  ASSUME NEW c \in Commands
  PROVE  /\ c.type \in {"Send", "Retry", "SetReceive"}
         /\ c.type = "Send" => c.arg \in SendIds /\ c = SendCommand(c.arg)
BY DEF Commands, SendCommand, RetryCommand, ReceiveOn, ReceiveOff

(***************************************************************************)
(* The event queue.                                                        *)
(***************************************************************************)

(* While the queue holds received packets, one of them is the victim.      *)
LEMMA VictimIsOldestPacket ==
  ASSUME NEW q \in Seq(Events), RxIndices(q) # {}
  PROVE  Victim(q) \in RxIndices(q)
<1>1. RxIndices(q) \subseteq Nat
  BY DEF RxIndices
<1> DEFINE Below == {ss \in Nat \X Nat : ss[1] < ss[2]}
<1>2. IsWellFoundedOn(Below, Nat)
  BY NatLessThanWellFounded DEF OpToRel
<1>3. \E i \in RxIndices(q) : \A j \in RxIndices(q) : <<j, i>> \notin Below
  <2> HIDE DEF Below
  <2>. QED BY <1>1, <1>2, WFMin
<1>4. \E i \in RxIndices(q) : \A j \in RxIndices(q) : i =< j
  <2>1. PICK i \in RxIndices(q) : \A j \in RxIndices(q) : <<j, i>> \notin Below
    BY <1>3
  <2>2. ASSUME NEW j \in RxIndices(q) PROVE i =< j
    <3>1. i \in Nat /\ j \in Nat
      BY <1>1
    <3>2. ~(j < i)
      BY <2>1, <3>1
    <3>. QED BY <3>1, <3>2
  <2>. QED BY <2>2
<1>5. Min(RxIndices(q)) \in RxIndices(q)
  BY <1>4 DEF Min
<1>. QED BY <1>5 DEF Victim

(* The victim is an element of the queue.                                  *)
LEMMA VictimInQueue ==
  ASSUME NEW q \in Seq(Events), q # <<>>
  PROVE  Victim(q) \in 1..Len(q)
<1>1. CASE RxIndices(q) = {}
  BY <1>1 DEF Victim
<1>2. CASE RxIndices(q) # {}
  BY <1>2, VictimIsOldestPacket DEF RxIndices
<1>. QED BY <1>1, <1>2

(* Removing an element shortens the queue by one and keeps every other.    *)
LEMMA RemoveAtProperties ==
  ASSUME NEW S, NEW q \in Seq(S), NEW i \in 1..Len(q)
  PROVE  /\ RemoveAt(q, i) \in Seq(S)
         /\ Len(RemoveAt(q, i)) = Len(q) - 1
<1>1. /\ SubSeq(q, 1, i - 1) \in Seq(S)
      /\ Len(SubSeq(q, 1, i - 1)) = i - 1
  <2>1. \A k \in 1..(i - 1) : q[k] \in S
    BY ElementOfSeq, LenProperties
  <2>. QED BY <2>1, SubSeqProperties, LenProperties
<1>2. /\ SubSeq(q, i + 1, Len(q)) \in Seq(S)
      /\ Len(SubSeq(q, i + 1, Len(q))) = Len(q) - i
  <2>1. \A k \in (i + 1)..Len(q) : q[k] \in S
    BY ElementOfSeq, LenProperties
  <2>. QED BY <2>1, SubSeqProperties, LenProperties
<1> DEFINE before == SubSeq(q, 1, i - 1)
           after  == SubSeq(q, i + 1, Len(q))
<1>3. RemoveAt(q, i) = before \o after
  BY DEF RemoveAt
<1> HIDE DEF before, after
<1>4. /\ before \o after \in Seq(S)
      /\ Len(before \o after) = Len(before) + Len(after)
  BY <1>1, <1>2, ConcatProperties DEF before, after
<1>5. Len(before) = i - 1 /\ Len(after) = Len(q) - i
  BY <1>1, <1>2 DEF before, after
<1>6. Len(q) \in Nat /\ i \in Nat
  BY LenProperties
<1>. QED BY <1>3, <1>4, <1>5, <1>6

(* A push keeps the queue within its capacity and puts the event last.     *)
LEMMA PushedProperties ==
  ASSUME NEW q \in Seq(Events), Len(q) <= EventCapacity, NEW e \in Events
  PROVE  /\ Pushed(q, e) \in Seq(Events)
         /\ Len(Pushed(q, e)) <= EventCapacity
         /\ Pushed(q, e) # <<>>
         /\ Last(Pushed(q, e)) = e
<1> DEFINE kept == IF Full(q) THEN RemoveAt(q, Victim(q)) ELSE q
<1>1. kept \in Seq(Events) /\ Len(kept) < EventCapacity
  <2>1. CASE Full(q)
    <3>1. q # <<>>
      BY <2>1, CapacityAssumption, EmptySeq DEF Full
    <3>2. Victim(q) \in 1..Len(q)
      BY <3>1, VictimInQueue
    <3>. QED BY <2>1, <3>2, RemoveAtProperties, LenProperties, CapacityAssumption
  <2>2. CASE ~Full(q)
    BY <2>2, LenProperties, CapacityAssumption DEF Full
  <2>. QED BY <2>1, <2>2
<1> HIDE DEF kept
<1>2. /\ Append(kept, e) \in Seq(Events)
      /\ Len(Append(kept, e)) = Len(kept) + 1
      /\ Append(kept, e) # <<>>
      /\ Append(kept, e)[Len(kept) + 1] = e
  BY <1>1, AppendProperties
<1>3. Pushed(q, e) = Append(kept, e)
  BY DEF Pushed, kept
<1>. QED BY <1>1, <1>2, <1>3, LenProperties, CapacityAssumption DEF Last

(* What removing an element leaves at each place.                          *)
LEMMA RemoveAtElements ==
  ASSUME NEW S, NEW q \in Seq(S), NEW i \in 1..Len(q)
  PROVE  \A j \in 1..(Len(q) - 1) : RemoveAt(q, i)[j] = IF j < i THEN q[j] ELSE q[j + 1]
<1> DEFINE before == SubSeq(q, 1, i - 1)
           after  == SubSeq(q, i + 1, Len(q))
<1>1. Len(q) \in Nat /\ i \in Nat /\ i >= 1 /\ i <= Len(q)
  BY LenProperties
<1>2. /\ before \in Seq(S) /\ Len(before) = i - 1
      /\ \A k \in 1..(i - 1) : before[k] = q[k]
  <2>1. \A k \in 1..(i - 1) : q[k] \in S
    BY ElementOfSeq, LenProperties
  <2>. QED BY <1>1, <2>1, SubSeqProperties
<1>3. /\ after \in Seq(S) /\ Len(after) = Len(q) - i
      /\ \A k \in 1..(Len(q) - i) : after[k] = q[i + k]
  <2>1. \A k \in (i + 1)..Len(q) : q[k] \in S
    BY ElementOfSeq, LenProperties
  <2>2. /\ after \in Seq(S) /\ Len(after) = Len(q) - i
        /\ \A k \in 1..(Len(q) - (i + 1) + 1) : after[k] = q[(i + 1) + k - 1]
    BY <1>1, <2>1, SubSeqProperties
  <2>3. \A k \in 1..(Len(q) - i) : k \in 1..(Len(q) - (i + 1) + 1) /\ (i + 1) + k - 1 = i + k
    BY <1>1
  <2>. QED BY <2>2, <2>3
<1>4. RemoveAt(q, i) = before \o after
  BY DEF RemoveAt
<1> HIDE DEF before, after
<1>5. \A k \in 1..(Len(before) + Len(after)) :
        (before \o after)[k] = IF k <= Len(before) THEN before[k] ELSE after[k - Len(before)]
  BY <1>2, <1>3, ConcatProperties
<1>6. ASSUME NEW j \in 1..(Len(q) - 1)
      PROVE  (before \o after)[j] = IF j < i THEN q[j] ELSE q[j + 1]
  <2>1. j \in 1..(Len(before) + Len(after)) /\ j \in Nat
    BY <1>1, <1>2, <1>3
  <2>2. CASE j < i
    <3>1. j <= Len(before) /\ j \in 1..(i - 1)
      BY <1>1, <1>2, <2>1, <2>2
    <3>. QED BY <1>2, <1>5, <2>1, <2>2, <3>1
  <2>3. CASE ~(j < i)
    <3>1. ~(j <= Len(before)) /\ j - Len(before) \in 1..(Len(q) - i)
          /\ i + (j - Len(before)) = j + 1
      BY <1>1, <1>2, <2>1, <2>3
    <3>. QED BY <1>3, <1>5, <2>1, <2>3, <3>1
  <2>. QED BY <2>2, <2>3
<1>. QED BY <1>4, <1>6

(* Where an element of the queue was before the push.                      *)
Origin(q, i) == IF Full(q) /\ i >= Victim(q) THEN i + 1 ELSE i

(* A push keeps every element but the victim, in order, and adds its own.  *)
LEMMA PushedElements ==
  ASSUME NEW q \in Seq(Events), Len(q) <= EventCapacity, NEW e \in Events,
         NEW n, n = Len(Pushed(q, e))
  PROVE  /\ n \in Nat \ {0} /\ Pushed(q, e)[n] = e
         /\ n = IF Full(q) THEN Len(q) ELSE Len(q) + 1
         /\ \A i \in 1..(n - 1) : /\ Origin(q, i) \in 1..Len(q)
                                  /\ Pushed(q, e)[i] = q[Origin(q, i)]
         /\ \A k \in 1..Len(q) : \/ Full(q) /\ k = Victim(q)
                                 \/ \E i \in 1..(n - 1) : Origin(q, i) = k
<1> DEFINE kept == IF Full(q) THEN RemoveAt(q, Victim(q)) ELSE q
<1>1. Len(q) \in Nat
  BY LenProperties
<1>2. CASE Full(q)
  <2>1. q # <<>>
    BY <1>2, CapacityAssumption, EmptySeq DEF Full
  <2>2. Victim(q) \in 1..Len(q) /\ Victim(q) \in Nat
    BY <2>1, VictimInQueue
  <2>3. /\ kept \in Seq(Events) /\ Len(kept) = Len(q) - 1 /\ Len(kept) \in Nat
        /\ \A j \in 1..(Len(q) - 1) :
             kept[j] = IF j < Victim(q) THEN q[j] ELSE q[j + 1]
    BY <1>2, <2>2, RemoveAtProperties, RemoveAtElements, LenProperties
  <2>4. Pushed(q, e) = Append(kept, e)
    BY DEF Pushed
  <2> HIDE DEF kept
  <2>5. /\ Len(Append(kept, e)) = Len(kept) + 1
        /\ \A i \in 1..Len(kept) : Append(kept, e)[i] = kept[i]
        /\ Append(kept, e)[Len(kept) + 1] = e
    BY <2>3, AppendProperties
  <2>6. n = Len(q) /\ Len(kept) = n - 1
    BY <1>1, <2>3, <2>4, <2>5
  <2>7. \A i \in 1..(n - 1) : /\ Origin(q, i) = IF i < Victim(q) THEN i ELSE i + 1
                              /\ Origin(q, i) \in 1..Len(q)
    BY <1>1, <1>2, <2>2, <2>6 DEF Origin
  <2>8. ASSUME NEW k \in 1..Len(q), k # Victim(q)
        PROVE  \E i \in 1..(n - 1) : Origin(q, i) = k
    <3>1. CASE k < Victim(q)
      <4>1. k \in 1..(n - 1)
        BY <1>1, <2>2, <2>6, <2>8, <3>1
      <4>. QED BY <2>7, <3>1, <4>1
    <3>2. CASE ~(k < Victim(q))
      <4>1. k - 1 \in 1..(n - 1) /\ ~(k - 1 < Victim(q)) /\ (k - 1) + 1 = k
        BY <1>1, <2>2, <2>6, <2>8, <3>2
      <4>2. Origin(q, k - 1) = k
        BY <2>7, <4>1
      <4>. QED BY <4>1, <4>2
    <3>. QED BY <3>1, <3>2
  <2>9. \A i \in 1..(n - 1) : Pushed(q, e)[i] = q[Origin(q, i)]
    BY <2>3, <2>4, <2>5, <2>6, <2>7
  <2>10. n \in Nat \ {0} /\ Pushed(q, e)[n] = e
    BY <1>1, <2>1, <2>4, <2>5, <2>6, EmptySeq
  <2>. QED BY <1>2, <2>6, <2>7, <2>8, <2>9, <2>10
<1>3. CASE ~Full(q)
  <2>1. /\ Pushed(q, e) = Append(q, e)
        /\ Len(Append(q, e)) = Len(q) + 1
        /\ \A i \in 1..Len(q) : Append(q, e)[i] = q[i]
        /\ Append(q, e)[Len(q) + 1] = e
    BY <1>3, AppendProperties DEF Pushed
  <2>2. \A i : Origin(q, i) = i
    BY <1>3 DEF Origin
  <2>3. n = Len(q) + 1 /\ n - 1 = Len(q)
    BY <1>1, <2>1
  <2>. QED BY <1>1, <1>3, <2>1, <2>2, <2>3
<1>. QED BY <1>2, <1>3

(* What the worker leaves to push is a sequence of events.                 *)
LEMMA PushesType ==
  /\ <<>> \in Seq(Events)
  /\ \A e \in Events : <<e>> \in Seq(Events)
  /\ \A e, f \in Events : <<e, f>> \in Seq(Events)
OBVIOUS

(***************************************************************************)
(* Type correctness.                                                       *)
(***************************************************************************)

USE DEF threadVars, queueVars, sendVars, modeVars, backendVars, history,
        workerVars, shared

(* The part of the type invariant about the worker's scalars.              *)
LocalType ==
  /\ pc \in Pcs
  /\ initialized \in BOOLEAN /\ receiveRequested \in BOOLEAN
  /\ sendId \in SendIds \cup {NoSend} /\ attempt \in 0..MaxAttempts
  /\ open \in BOOLEAN /\ listening \in BOOLEAN

(* A worker step that touches nothing shared need only keep its own part.  *)
LEMMA WorkerFrame ==
  ASSUME TypeOK, UNCHANGED <<shared, recent>>, out' \in Seq(Events), LocalType'
  PROVE  TypeOK'
BY DEF TypeOK, LocalType

LEMMA PushType ==
  ASSUME TypeOK, Push
  PROVE  TypeOK'
<1> DEFINE e == Head(out)
<1>1. e \in Events /\ Tail(out) \in Seq(Events)
  BY HeadTailProperties DEF TypeOK, Push
<1>2. events' \in Seq(Events) /\ Len(events') <= EventCapacity
  BY <1>1, PushedProperties DEF TypeOK, Push
<1>3. dropped' \in 0..DropLimit
  BY CapacityAssumption DEF TypeOK, Push, DroppedBy
<1>4. lastState' \in RadioStates \cup {"None"}
  BY <1>1, EventArguments DEF TypeOK, Push
<1>5. phase' \in [SendIds -> Phases]
  BY <1>1, EventArguments DEF TypeOK, Push, Phases
<1>. QED BY <1>1, <1>2, <1>3, <1>4, <1>5 DEF TypeOK, Push

LEMMA UiType ==
  ASSUME TypeOK, UiStep
  PROVE  TypeOK'
<1>1. ASSUME NEW b \in BOOLEAN, Start(b) PROVE TypeOK'
  <2>1. phase' \in [SendIds -> Phases]
    BY <1>1 DEF TypeOK, Start, Phases
  <2>2. /\ commands' \in Seq(Commands) /\ Len(commands') <= CommandCapacity
        /\ events' \in Seq(Events) /\ Len(events') <= EventCapacity
        /\ recent' \in Seq(PeerTokens) /\ Len(recent') <= TokenWindow
        /\ dropped' \in 0..DropLimit
    BY <1>1, EmptySeq, CapacityAssumption DEF Start
  <2>3. pc' \in Pcs /\ running' \in BOOLEAN
    BY <1>1 DEF Start, Pcs
  <2>. QED BY <1>1, <2>1, <2>2, <2>3 DEF TypeOK, Start
<1>2. ASSUME NEW c \in UiCommands, Post(c) PROVE TypeOK'
  <2>1. c \in Commands
    BY CommandAssumption
  <2>2. commands' \in Seq(Commands) /\ Len(commands') <= CommandCapacity
    BY <1>2, <2>1, AppendProperties, LenProperties, CapacityAssumption DEF TypeOK, Post
  <2>3. phase' \in [SendIds -> Phases]
    BY <1>2, <2>1, CommandArguments DEF TypeOK, Post, Phases
  <2>. QED BY <1>2, <2>2, <2>3 DEF TypeOK, Post
<1>3. CASE PostShutdown BY <1>3 DEF TypeOK, PostShutdown
<1>4. CASE Notify BY <1>4 DEF TypeOK, Notify, Pcs, WaitPcs
<1>5. CASE Stop BY <1>5 DEF TypeOK, Stop
<1>6. CASE Join BY <1>6 DEF TypeOK, Join, Pcs
<1>7. CASE PopOverflow BY <1>7, CapacityAssumption DEF TypeOK, PopOverflow
<1>8. CASE PopEvent
  <2>1. /\ Head(events) \in Events /\ Tail(events) \in Seq(Events)
        /\ Len(Tail(events)) = Len(events) - 1
    BY <1>8, HeadTailProperties DEF TypeOK, PopEvent
  <2>2. Len(events') <= EventCapacity
    BY <1>8, <2>1, LenProperties, CapacityAssumption DEF TypeOK, PopEvent
  <2>3. phase' \in [SendIds -> Phases]
    BY <1>8, <2>1, EventArguments DEF TypeOK, PopEvent, Phases
  <2>. QED BY <1>8, <2>1, <2>2, <2>3 DEF TypeOK, PopEvent
<1>. QED BY <1>1, <1>2, <1>3, <1>4, <1>5, <1>6, <1>7, <1>8 DEF UiStep

USE DEF At, Goto

LEMMA InitializeType ==
  ASSUME TypeOK, Initialize
  PROVE  TypeOK'
<1>. USE DEF TypeOK, Pcs, StopsAtCancel, Closes, StartsReceive, StartThrows
<1>1. CASE InitBegin
  <2>1. out' \in Seq(Events)
    BY <1>1, EventConstructors, PushesType DEF InitBegin, RadioStates
  <2>. QED BY <1>1, <2>1 DEF InitBegin
<1>2. CASE InitClose BY <1>2, PushesType DEF InitClose
<1>3. CASE InitOpen
  <2>1. out' \in Seq(Events)
    BY <1>3, EventConstructors, PushesType DEF InitOpen, RadioStates
  <2>2. LocalType'
    BY <1>3 DEF InitOpen, LocalType
  <2>. QED BY <1>3, <2>1, <2>2, WorkerFrame DEF InitOpen
<1>4. CASE InitStartReceive
  <2>1. out' \in Seq(Events)
    BY <1>4, EventConstructors, PushesType DEF InitStartReceive, RadioStates, Operations
  <2>2. LocalType'
    BY <1>4 DEF InitStartReceive, LocalType
  <2>. QED BY <1>4, <2>1, <2>2, WorkerFrame DEF InitStartReceive
<1>5. CASE InitFail
  <2>1. out' \in Seq(Events)
    BY <1>5, EventConstructors, PushesType DEF InitFail, RadioStates, Operations
  <2>. QED BY <1>5, <2>1 DEF InitFail
<1>. QED BY <1>1, <1>2, <1>3, <1>4, <1>5 DEF Initialize

LEMMA LoopType ==
  ASSUME TypeOK, LoopTop \/ Dequeue \/ SetReceive \/ FailClose \/ Wait \/ SpuriousWakeup
  PROVE  TypeOK'
<1>. USE DEF TypeOK, Pcs, StopsAtCancel, Closes, StartsReceive, StartThrows, StopsReceive,
         SettledState, WaitPcs
<1>1. CASE LoopTop BY <1>1, PushesType DEF LoopTop
<1>2. CASE Dequeue
  <2>1. CASE commands = <<>>
    BY <1>2, <2>1, PushesType DEF Dequeue
  <2>2. CASE commands # <<>>
    <3> DEFINE c == Head(commands)
    <3>1. /\ c \in Commands /\ Tail(commands) \in Seq(Commands)
          /\ Len(Tail(commands)) = Len(commands) - 1
      BY <2>2, HeadTailProperties
    <3>2. c.type \in {"Send", "Retry", "SetReceive"}
          /\ (c.type = "Send" => c.arg \in SendIds)
      BY <3>1, CommandArguments
    <3>3. Handle(c) /\ commands' = Tail(commands)
      BY <1>2, <2>2 DEF Dequeue
    <3> HIDE DEF c
    <3>4. /\ out' \in Seq(Events) /\ pc' \in Pcs /\ receiveRequested' \in BOOLEAN
          /\ sendId' \in SendIds \cup {NoSend} /\ attempt' \in 0..MaxAttempts
      <4>1. CASE c.type = "Retry"
        BY <3>3, <4>1, PushesType DEF Handle
      <4>2. CASE c.type = "SetReceive"
        BY <3>3, <4>2, PushesType DEF Handle
      <4>3. CASE c.type = "Send" /\ ~initialized
        BY <3>2, <3>3, <4>3, EventConstructors, PushesType DEF Handle, Refusal
      <4>4. CASE c.type = "Send" /\ initialized
        <5>1. out' = <<TxStarted(c.arg), StateEvent("Sending")>> /\ pc' = "txStop"
              /\ sendId' = c.arg /\ attempt' = 1 /\ UNCHANGED receiveRequested
          BY <3>3, <4>4 DEF Handle
        <5>2. out' \in Seq(Events)
          BY <3>2, <4>4, <5>1, EventConstructors, PushesType DEF RadioStates
        <5>. QED BY <3>2, <4>4, <5>1, <5>2, CapacityAssumption DEF SendPcs
      <4>. QED BY <3>2, <4>1, <4>2, <4>3, <4>4
    <3>5. Len(commands') <= CommandCapacity
      BY <3>1, <3>3, LenProperties, CapacityAssumption
    <3>. QED BY <1>2, <3>1, <3>3, <3>4, <3>5 DEF Dequeue
  <2>. QED BY <2>1, <2>2
<1>3. CASE SetReceive
  <2>1. out' \in Seq(Events)
    BY <1>3, EventConstructors, PushesType DEF SetReceive, RadioStates, Operations
  <2>2. LocalType'
    BY <1>3 DEF SetReceive, LocalType
  <2>. QED BY <1>3, <2>1, <2>2, WorkerFrame DEF SetReceive
<1>4. CASE FailClose
  <2>1. out' \in Seq(Events)
    BY <1>4, EventConstructors, PushesType DEF FailClose, RadioStates, Operations
  <2>. QED BY <1>4, <2>1 DEF FailClose
<1>5. CASE WaitCheck BY <1>5, PushesType DEF WaitCheck
<1>6. CASE Park BY <1>6, PushesType DEF Park
<1>7. CASE WaitTimeout BY <1>7, PushesType DEF WaitTimeout
<1>8. CASE SpuriousWakeup BY <1>8, PushesType DEF SpuriousWakeup
<1>. QED BY <1>1, <1>2, <1>3, <1>4, <1>5, <1>6, <1>7, <1>8 DEF Wait

(* What the two exception handlers leave.                                  *)
LEMMA AbortType ==
  ASSUME TypeOK, SendShape, (TxAbort /\ sending) \/ Abort
  PROVE  /\ out' \in Seq(Events) /\ pc' \in Pcs
         /\ sendId' \in SendIds \cup {NoSend} /\ attempt' \in 0..MaxAttempts
<1>1. CASE TxAbort /\ sending
  BY <1>1, EventConstructors, PushesType, CapacityAssumption
     DEF TypeOK, SendShape, TxAbort, EndSend, Pcs
<1>2. CASE Abort
  BY <1>1, <1>2, EventConstructors, PushesType
     DEF TypeOK, Abort, ReceiveAbort, Operations, Pcs
<1>. QED BY <1>1, <1>2

(* A step of a send that ends in its exception handler.                    *)
LEMMA TxAbortType ==
  ASSUME TypeOK, SendShape, sending, TxAbort, UNCHANGED <<shared, modeVars, recent>>,
         open' \in BOOLEAN, listening' \in BOOLEAN
  PROVE  TypeOK'
<1>1. /\ out' \in Seq(Events) /\ pc' \in Pcs
      /\ sendId' \in SendIds \cup {NoSend} /\ attempt' \in 0..MaxAttempts
  BY AbortType
<1>2. LocalType'
  BY <1>1 DEF TypeOK, LocalType
<1>. QED BY <1>1, <1>2, WorkerFrame

LEMMA ReceiveType ==
  ASSUME TypeOK, SendShape, Receive
  PROVE  TypeOK'
<1>. USE DEF TypeOK, Pcs, StopsAtCancel, StartsReceive, StartThrows, StopsReceive, resume,
         AckPcs, SendPcs
<1>1. CASE ReceiveNothing BY <1>1, PushesType DEF ReceiveNothing
<1>2. CASE ReceiveLegacy
  <2>1. out' \in Seq(Events)
    BY <1>2, EventConstructors, PushesType DEF ReceiveLegacy
  <2>. QED BY <1>2, <2>1 DEF ReceiveLegacy
<1>3. ASSUME NEW t \in PeerTokens, ReceiveData(t) PROVE TypeOK'
  <2>1. out' \in Seq(Events)
    BY <1>3, EventConstructors, PushesType DEF ReceiveData
  <2>2. recent' \in Seq(PeerTokens) /\ Len(recent') <= TokenWindow
    <3> DEFINE kept == IF Len(recent) >= TokenWindow THEN Tail(recent) ELSE recent
    <3>1. kept \in Seq(PeerTokens) /\ Len(kept) < TokenWindow
      <4>1. CASE Len(recent) >= TokenWindow
        <5>1. recent # <<>>
          BY <4>1, EmptySeq, CapacityAssumption
        <5>. QED BY <4>1, <5>1, HeadTailProperties, LenProperties, CapacityAssumption
      <4>2. CASE ~(Len(recent) >= TokenWindow)
        BY <4>2, LenProperties, CapacityAssumption
      <4>. QED BY <4>1, <4>2
    <3> HIDE DEF kept
    <3>2. /\ Append(kept, t) \in Seq(PeerTokens)
          /\ Len(Append(kept, t)) = Len(kept) + 1
      BY <3>1, AppendProperties
    <3>3. Len(Append(kept, t)) <= TokenWindow
      BY <3>1, <3>2, LenProperties, CapacityAssumption
    <3>4. recent' = recent \/ recent' = Append(kept, t)
      BY <1>3 DEF ReceiveData, Remembered, kept
    <3>. QED BY <3>2, <3>3, <3>4
  <2>. QED BY <1>3, <2>1, <2>2 DEF ReceiveData
<1>4. CASE ReceiveThrows BY <1>4, AbortType DEF ReceiveThrows
<1>5. CASE ReceiveCancelled BY <1>5, PushesType DEF ReceiveCancelled
<1>6. CASE AckStop
  <2>1. CASE StopsReceive /\ Goto("ackTransmit", <<>>) /\ UNCHANGED sendVars
    BY <1>6, <2>1, PushesType DEF AckStop
  <2>2. CASE Abort /\ UNCHANGED backendVars
    BY <1>6, <2>2, AbortType DEF AckStop
  <2>3. CASE StopsAtCancel /\ UNCHANGED <<backendVars, sendVars>>
    BY <1>6, <2>3, PushesType DEF AckStop
  <2>. QED BY <1>6, <2>1, <2>2, <2>3 DEF AckStop
<1>7. CASE AckTransmit
  <2>1. CASE Goto("ackStart", <<>>) /\ UNCHANGED sendVars
    BY <1>7, <2>1, PushesType DEF AckTransmit
  <2>2. CASE Abort
    BY <1>7, <2>2, AbortType DEF AckTransmit
  <2>3. CASE StopsAtCancel /\ UNCHANGED sendVars
    BY <1>7, <2>3, PushesType DEF AckTransmit
  <2>. QED BY <1>7, <2>1, <2>2, <2>3 DEF AckTransmit
<1>8. CASE AckStart
  <2>1. CASE StartsReceive /\ Goto(resume, <<>>) /\ UNCHANGED sendVars
    BY <1>8, <2>1, PushesType DEF AckStart
  <2>2. CASE StartThrows /\ Abort
    <3>1. LocalType'
      BY <1>8, <2>2, AbortType DEF AckStart, LocalType
    <3>. QED BY <1>8, <2>2, <3>1, AbortType, WorkerFrame DEF AckStart
  <2>3. CASE StopsAtCancel /\ UNCHANGED <<backendVars, sendVars>>
    BY <1>8, <2>3, PushesType DEF AckStart
  <2>. QED BY <1>8, <2>1, <2>2, <2>3 DEF AckStart
<1>. QED BY <1>1, <1>2, <1>3, <1>4, <1>5, <1>6, <1>7, <1>8 DEF Receive

(* What the end of a send leaves.                                          *)
LEMMA ConcludeType ==
  ASSUME TypeOK, NEW e \in Events, Conclude(e)
  PROVE  /\ out' \in Seq(Events) /\ pc' \in Pcs
         /\ sendId' \in SendIds \cup {NoSend} /\ attempt' \in 0..MaxAttempts
BY EventConstructors, PushesType, CapacityAssumption
   DEF TypeOK, Conclude, EndSend, SettledState, RadioStates, Pcs

LEMMA SendType ==
  ASSUME TypeOK, SendShape, Send
  PROVE  TypeOK'
<1>. USE DEF TypeOK, Pcs, SendPcs, StopsAtCancel, StartsReceive, StartThrows, StopsReceive
<1>1. CASE TxStop
  <2>1. CASE Goto("transmit", <<>>) /\ UNCHANGED sendVars
    <3>1. LocalType'
      BY <1>1, <2>1 DEF TxStop, LocalType
    <3>. QED BY <1>1, <2>1, <3>1, PushesType, WorkerFrame DEF TxStop
  <2>2. CASE TxAbort /\ UNCHANGED backendVars
    BY <1>1, <2>2, TxAbortType DEF TxStop, SendShape
  <2>. QED BY <1>1, <2>1, <2>2 DEF TxStop
<1>2. CASE Transmit
  <2>1. CASE Goto("txStart", <<>>) /\ UNCHANGED sendVars
    BY <1>2, <2>1, PushesType DEF Transmit
  <2>2. CASE Conclude(TxCompleted(sendId))
    <3>1. TxCompleted(sendId) \in Events
      BY <1>2, EventConstructors DEF Transmit, SendShape
    <3>. QED BY <1>2, <2>2, <3>1, ConcludeType DEF Transmit
  <2>3. CASE TxAbort
    BY <1>2, <2>3, TxAbortType DEF Transmit, SendShape
  <2>4. CASE StopsAtCancel /\ UNCHANGED sendVars
    BY <1>2, <2>4, PushesType DEF Transmit
  <2>. QED BY <1>2, <2>1, <2>2, <2>3, <2>4 DEF Transmit
<1>3. CASE TxStart
  <2>1. CASE StartsReceive /\ Goto("txWait", <<>>) /\ UNCHANGED sendVars
    BY <1>3, <2>1, PushesType DEF TxStart
  <2>2. CASE StartThrows /\ TxAbort
    BY <1>3, <2>2, TxAbortType DEF TxStart, SendShape
  <2>3. CASE StopsAtCancel /\ UNCHANGED <<backendVars, sendVars>>
    BY <1>3, <2>3, PushesType DEF TxStart
  <2>. QED BY <1>3, <2>1, <2>2, <2>3 DEF TxStart
<1>4. CASE Acknowledged
  <2>1. TxCompleted(sendId) \in Events
    BY <1>4, EventConstructors DEF Acknowledged, SendShape
  <2>. QED BY <1>4, <2>1, ConcludeType DEF Acknowledged
<1>5. CASE AckTimeout BY <1>5, PushesType DEF AckTimeout
<1>6. CASE Backoff
  <2>1. attempt' \in 0..MaxAttempts
    BY <1>6, CapacityAssumption DEF Backoff, SendShape
  <2>2. LocalType'
    BY <1>6, <2>1 DEF Backoff, LocalType
  <2>. QED BY <1>6, <2>2, PushesType, WorkerFrame DEF Backoff
<1>7. CASE TxReset
  <2>1. CASE StartsReceive /\ Conclude(TxFailed(sendId))
    <3>1. TxFailed(sendId) \in Events
      BY <1>7, EventConstructors DEF TxReset, SendShape
    <3>. QED BY <1>7, <2>1, <3>1, ConcludeType DEF TxReset
  <2>2. CASE StartThrows /\ TxAbort
    BY <1>7, <2>2, TxAbortType DEF TxReset, SendShape
  <2>3. CASE StopsAtCancel /\ UNCHANGED <<backendVars, sendVars>>
    BY <1>7, <2>3, PushesType DEF TxReset
  <2>. QED BY <1>7, <2>1, <2>2, <2>3 DEF TxReset
<1>8. CASE Restore
  <2>1. out' \in Seq(Events)
    BY <1>8, EventConstructors, PushesType DEF Restore, RadioStates, Operations
  <2>2. LocalType'
    BY <1>8 DEF Restore, LocalType
  <2>. QED BY <1>8, <2>1, <2>2, WorkerFrame DEF Restore
<1>. QED BY <1>1, <1>2, <1>3, <1>4, <1>5, <1>6, <1>7, <1>8 DEF Send

LEMMA ShutdownType ==
  ASSUME TypeOK, Shutdown
  PROVE  TypeOK'
<1>. USE DEF TypeOK, Pcs, Closes
<1>1. CASE Stopping
  <2>1. out' \in Seq(Events)
    BY <1>1, EventConstructors, PushesType DEF Stopping, RadioStates
  <2>. QED BY <1>1, <2>1, CapacityAssumption DEF Stopping
<1>2. CASE FinalClose
  <2>1. out' \in Seq(Events)
    BY <1>2, EventConstructors, PushesType DEF FinalClose, RadioStates
  <2>. QED BY <1>2, <2>1 DEF FinalClose
<1>3. CASE Exit
  <2>1. out' = <<>> /\ pc' = "exited" /\ running' = FALSE
    BY <1>3 DEF Exit, Goto
  <2>2. out' \in Seq(Events)
    BY <2>1, PushesType
  <2>3. UNCHANGED <<ui, stopRequested, commands, queueVars, history,
                    modeVars, sendVars, recent, backendVars>>
    BY <1>3 DEF Exit
  <2>4. pc' \in Pcs
    BY <2>1
  <2>. HIDE DEF Pcs
  <2>. QED BY <2>1, <2>2, <2>3, <2>4
<1>. QED BY <1>1, <1>2, <1>3 DEF Shutdown

(***************************************************************************)
(* What the worker believes of the backend, and the life of the thread.    *)
(***************************************************************************)

Shape == SendShape /\ BackendShape /\ LifecycleShape

USE DEF Pcs, SendPcs, AckPcs, WaitPcs, QuietPcs, InitializedPcs, ReceivePcs,
        StopsAtCancel, Closes, StartsReceive, StartThrows, StopsReceive

LEMMA UiShape ==
  ASSUME TypeOK, Shape, UiStep
  PROVE  Shape'
<1>. USE DEF Shape, SendShape, BackendShape, LifecycleShape, sending
<1>1. ASSUME NEW b \in BOOLEAN, Start(b) PROVE Shape'
  BY <1>1 DEF Start
<1>2. ASSUME NEW c \in UiCommands, Post(c) PROVE Shape'
  BY <1>2 DEF Post
<1>3. CASE PostShutdown BY <1>3 DEF PostShutdown
<1>4. CASE Notify BY <1>4 DEF Notify
<1>5. CASE Stop BY <1>5 DEF Stop
<1>6. CASE Join BY <1>6 DEF Join
<1>7. CASE PopOverflow BY <1>7 DEF PopOverflow
<1>8. CASE PopEvent BY <1>8 DEF PopEvent
<1>. QED BY <1>1, <1>2, <1>3, <1>4, <1>5, <1>6, <1>7, <1>8 DEF UiStep

LEMMA InitializeShape ==
  ASSUME TypeOK, Shape, Initialize
  PROVE  Shape'
<1>. USE DEF Shape, SendShape, BackendShape, LifecycleShape, sending
<1>1. CASE InitBegin BY <1>1 DEF InitBegin
<1>2. CASE InitClose BY <1>2 DEF InitClose
<1>3. CASE InitOpen BY <1>3 DEF InitOpen
<1>4. CASE InitStartReceive BY <1>4 DEF InitStartReceive
<1>5. CASE InitFail BY <1>5 DEF InitFail
<1>. QED BY <1>1, <1>2, <1>3, <1>4, <1>5 DEF Initialize

LEMMA LoopShape ==
  ASSUME TypeOK, Shape, Push \/ LoopTop \/ Dequeue \/ SetReceive \/ FailClose \/ Wait \/ SpuriousWakeup
  PROVE  Shape'
<1>. USE DEF Shape, SendShape, BackendShape, LifecycleShape, sending
<1>1. CASE Push BY <1>1 DEF Push
<1>2. CASE LoopTop BY <1>2 DEF LoopTop
<1>3. CASE Dequeue
  <2>1. CASE commands = <<>>
    BY <1>3, <2>1 DEF Dequeue
  <2>2. CASE commands # <<>>
    <3> DEFINE c == Head(commands)
    <3>1. c \in Commands
      BY <2>2, HeadTailProperties DEF TypeOK
    <3>2. /\ c.type \in {"Send", "Retry", "SetReceive"}
          /\ c.type = "Send" => c.arg \in SendIds
      BY <3>1, CommandArguments
    <3>3. Handle(c)
      BY <1>3, <2>2 DEF Dequeue
    <3>4. pc = "dequeue" /\ ~sending
      BY <1>3 DEF Dequeue
    <3>5. UNCHANGED <<running, initialized, open, listening, lastState, events>>
      BY <1>3 DEF Dequeue
    <3> HIDE DEF c
    <3>6. CASE c.type = "Retry"
      BY <3>3, <3>4, <3>5, <3>6 DEF Handle
    <3>7. CASE c.type = "SetReceive"
      BY <3>3, <3>4, <3>5, <3>7 DEF Handle
    <3>8. CASE c.type = "Send" /\ ~initialized
      BY <3>3, <3>4, <3>5, <3>8 DEF Handle
    <3>9. CASE c.type = "Send" /\ initialized
      BY <3>2, <3>3, <3>4, <3>5, <3>9 DEF Handle
    <3>. QED BY <3>2, <3>6, <3>7, <3>8, <3>9
  <2>. QED BY <2>1, <2>2
<1>4. CASE SetReceive BY <1>4 DEF SetReceive
<1>5. CASE FailClose BY <1>5 DEF FailClose
<1>6. CASE WaitCheck BY <1>6 DEF WaitCheck
<1>7. CASE Park BY <1>7 DEF Park
<1>8. CASE WaitTimeout BY <1>8 DEF WaitTimeout
<1>9. CASE SpuriousWakeup BY <1>9 DEF SpuriousWakeup
<1>. QED BY <1>1, <1>2, <1>3, <1>4, <1>5, <1>6, <1>7, <1>8, <1>9 DEF Wait

LEMMA ReceiveShape ==
  ASSUME TypeOK, Shape, Receive
  PROVE  Shape'
<1>. USE DEF Shape, SendShape, BackendShape, LifecycleShape, sending
<1>1. CASE ReceiveNothing BY <1>1 DEF ReceiveNothing
<1>2. CASE ReceiveLegacy BY <1>2 DEF ReceiveLegacy, Abort, TxAbort, ReceiveAbort, EndSend, resume
<1>3. CASE ReceiveThrows BY <1>3 DEF ReceiveThrows, Abort, TxAbort, ReceiveAbort, EndSend, resume
<1>4. CASE ReceiveCancelled BY <1>4 DEF ReceiveCancelled
<1>5. CASE AckStop
  <2>1. CASE StopsReceive /\ Goto("ackTransmit", <<>>) /\ UNCHANGED sendVars
    BY <1>5, <2>1 DEF AckStop, Abort, TxAbort, ReceiveAbort, EndSend, resume
  <2>2. CASE sending /\ TxAbort /\ UNCHANGED backendVars
    BY <1>5, <2>2 DEF AckStop, Abort, TxAbort, ReceiveAbort, EndSend, resume
  <2>3. CASE ~sending /\ ReceiveAbort /\ UNCHANGED backendVars
    BY <1>5, <2>3 DEF AckStop, Abort, TxAbort, ReceiveAbort, EndSend, resume
  <2>4. CASE StopsAtCancel /\ UNCHANGED <<backendVars, sendVars>>
    BY <1>5, <2>4 DEF AckStop, Abort, TxAbort, ReceiveAbort, EndSend, resume
  <2>. QED BY <1>5, <2>1, <2>2, <2>3, <2>4 DEF AckStop, Abort
<1>6. CASE AckTransmit BY <1>6 DEF AckTransmit, Abort, TxAbort, ReceiveAbort, EndSend, resume
<1>7. CASE AckStart
  <2>1. CASE StartsReceive /\ Goto(resume, <<>>) /\ UNCHANGED sendVars
    BY <1>7, <2>1 DEF AckStart, Abort, TxAbort, ReceiveAbort, EndSend, resume
  <2>2. CASE StartThrows /\ sending /\ TxAbort
    BY <1>7, <2>2 DEF AckStart, Abort, TxAbort, ReceiveAbort, EndSend, resume
  <2>3. CASE StartThrows /\ ~sending /\ ReceiveAbort
    BY <1>7, <2>3 DEF AckStart, Abort, TxAbort, ReceiveAbort, EndSend, resume
  <2>4. CASE StopsAtCancel /\ UNCHANGED <<backendVars, sendVars>>
    BY <1>7, <2>4 DEF AckStart, Abort, TxAbort, ReceiveAbort, EndSend, resume
  <2>. QED BY <1>7, <2>1, <2>2, <2>3, <2>4 DEF AckStart, Abort
<1>8. ASSUME NEW t \in PeerTokens, ReceiveData(t) PROVE Shape'
  BY <1>8 DEF ReceiveData, Abort, TxAbort, ReceiveAbort, EndSend, resume
<1>. QED BY <1>1, <1>2, <1>3, <1>4, <1>5, <1>6, <1>7, <1>8 DEF Receive

LEMMA SendStepShape ==
  ASSUME TypeOK, Shape, Send
  PROVE  Shape'
<1>. USE DEF Shape, SendShape, BackendShape, LifecycleShape, sending
<1>1. CASE TxStop
  <2>1. CASE Goto("transmit", <<>>) /\ UNCHANGED sendVars
    BY <1>1, <2>1 DEF TxStop, Conclude, TxAbort, EndSend
  <2>2. CASE TxAbort /\ UNCHANGED backendVars
    BY <1>1, <2>2 DEF TxStop, Conclude, TxAbort, EndSend
  <2>. QED BY <1>1, <2>1, <2>2 DEF TxStop
<1>2. CASE Transmit BY <1>2 DEF Transmit, Conclude, TxAbort, EndSend
<1>3. CASE TxStart
  <2>1. CASE StartsReceive /\ Goto("txWait", <<>>) /\ UNCHANGED sendVars
    BY <1>3, <2>1 DEF TxStart, Conclude, TxAbort, EndSend
  <2>2. CASE StartThrows /\ TxAbort
    BY <1>3, <2>2 DEF TxStart, Conclude, TxAbort, EndSend
  <2>3. CASE StopsAtCancel /\ UNCHANGED <<backendVars, sendVars>>
    BY <1>3, <2>3 DEF TxStart, Conclude, TxAbort, EndSend
  <2>. QED BY <1>3, <2>1, <2>2, <2>3 DEF TxStart
<1>4. CASE Acknowledged BY <1>4 DEF Acknowledged, Conclude, TxAbort, EndSend
<1>5. CASE AckTimeout BY <1>5 DEF AckTimeout
<1>6. CASE Backoff
  <2>1. attempt \in Nat
    BY CapacityAssumption DEF TypeOK
  <2>. QED BY <1>6, <2>1 DEF Backoff
<1>7. CASE TxReset
  <2>1. CASE StartsReceive /\ Conclude(TxFailed(sendId))
    BY <1>7, <2>1 DEF TxReset, Conclude, TxAbort, EndSend
  <2>2. CASE StartThrows /\ TxAbort
    BY <1>7, <2>2 DEF TxReset, Conclude, TxAbort, EndSend
  <2>3. CASE StopsAtCancel /\ UNCHANGED <<backendVars, sendVars>>
    BY <1>7, <2>3 DEF TxReset, Conclude, TxAbort, EndSend
  <2>. QED BY <1>7, <2>1, <2>2, <2>3 DEF TxReset
<1>8. CASE Restore BY <1>8 DEF Restore
<1>. QED BY <1>1, <1>2, <1>3, <1>4, <1>5, <1>6, <1>7, <1>8 DEF Send

LEMMA ShutdownShape ==
  ASSUME TypeOK, Shape, Shutdown
  PROVE  Shape'
<1>. USE DEF Shape, SendShape, BackendShape, LifecycleShape, sending
<1>1. CASE Stopping BY <1>1 DEF Stopping
<1>2. CASE FinalClose BY <1>2 DEF FinalClose
<1>3. CASE Exit BY <1>3 DEF Exit
<1>. QED BY <1>1, <1>2, <1>3 DEF Shutdown

(***************************************************************************)
(* What the worker reports.                                                *)
(***************************************************************************)

(* The reports of the pushes the worker's steps make.                      *)
LEMMA ReportRules ==
  ASSUME NEW s, NEW x
  PROVE  /\ ReportsAfter(s, <<>>, x) <=> s = x
         /\ ReportsAfter(s, <<StateEvent(x)>>, x)
         /\ \A e : ReportsAfter(s, <<e, StateEvent(x)>>, x)
         /\ \A e : e.type # "State" /\ s = x => ReportsAfter(s, <<e>>, x)
BY DEF ReportsAfter, Last

(* Popping the first event leaves the last one in place.                   *)
LEMMA LastOfTail ==
  ASSUME NEW q \in Seq(Events), q # <<>>, Tail(q) # <<>>
  PROVE  Last(Tail(q)) = Last(q)
<1>1. /\ Tail(q) \in Seq(Events) /\ Len(Tail(q)) = Len(q) - 1
      /\ \A i \in 1..Len(Tail(q)) : Tail(q)[i] = q[i + 1]
      /\ Len(Tail(q)) \in Nat \ {0}
  BY HeadTailProperties, EmptySeq
<1>. QED BY <1>1 DEF Last

(* Pushing the first event does not change what will have been reported.   *)
LEMMA ReportPushed ==
  ASSUME NEW o \in Seq(Events), o # <<>>, NEW s, NEW x, ReportsAfter(s, o, x)
  PROVE  ReportsAfter(IF Head(o).type = "State" THEN Head(o).arg ELSE s, Tail(o), x)
<1>1. /\ Tail(o) \in Seq(Events) /\ Len(Tail(o)) = Len(o) - 1
      /\ \A i \in 1..Len(Tail(o)) : Tail(o)[i] = o[i + 1]
      /\ Len(o) \in Nat \ {0} /\ Head(o) = o[1]
  BY HeadTailProperties, EmptySeq, LenProperties
<1>2. CASE \A i \in 1..Len(o) : o[i].type # "State"
  <2>1. ~(Last(o) = StateEvent(x))
    BY <1>1, <1>2 DEF Last, StateEvent
  <2>2. s = x
    BY <2>1 DEF ReportsAfter
  <2>3. Head(o).type # "State" /\ \A i \in 1..Len(Tail(o)) : Tail(o)[i].type # "State"
    BY <1>1, <1>2
  <2>. QED BY <2>2, <2>3 DEF ReportsAfter
<1>3. CASE Last(o) = StateEvent(x) /\ Len(o) = 1
  <2>1. Head(o).type = "State" /\ Head(o).arg = x
    BY <1>1, <1>3 DEF Last, StateEvent
  <2>2. Len(Tail(o)) = 0
    BY <1>1, <1>3
  <2>3. \A i \in 1..0 : Tail(o)[i].type # "State"
    OBVIOUS
  <2>. QED BY <2>1, <2>2, <2>3 DEF ReportsAfter
<1>4. CASE Last(o) = StateEvent(x) /\ Len(o) # 1
  <2>1. Tail(o) # <<>> /\ Last(Tail(o)) = Last(o)
    <3>1. Len(Tail(o)) # 0
      BY <1>1, <1>4
    <3>2. Tail(o) # <<>>
      BY <1>1, <3>1, EmptySeq
    <3>. QED BY <3>2, LastOfTail
  <2>. QED BY <1>4, <2>1 DEF ReportsAfter
<1>. QED BY <1>2, <1>3, <1>4 DEF ReportsAfter

LEMMA PushReport ==
  ASSUME TypeOK, Shape, ReportShape, Push
  PROVE  ReportShape'
<1>1. out \in Seq(Events) /\ out # <<>> /\ Head(out) \in Events
  BY HeadTailProperties DEF TypeOK, Push
<1>2. \A x : Reports(x) => ReportsAfter(lastState', out', x)
  BY <1>1, ReportPushed DEF Reports, Push
<1>3. pc \notin {"exited", "dequeue", "rx"} \cup WaitPcs
  BY <1>1 DEF Shape, LifecycleShape
<1>4. CASE pc = "exit"
  <2>1. out = <<StateEvent("Stopped")>>
    BY <1>1, <1>4 DEF ReportShape
  <2>2. out' = <<>> /\ lastState' = "Stopped"
    BY <2>1 DEF Push, StateEvent
  <2>3. Last(events') = StateEvent("Stopped")
    BY <1>1, <2>1, PushedProperties DEF Push, TypeOK
  <2>. QED BY <1>4, <2>2, <2>3 DEF ReportShape, Push
<1>5. CASE pc = "loop"
  BY <1>2, <1>5 DEF ReportShape, Push, Reports, SettledState
<1>6. CASE pc \in AckPcs
  BY <1>2, <1>6 DEF ReportShape, Push, Reports, sending
<1>7. CASE pc \notin {"exit", "loop"} \cup AckPcs
  BY <1>3, <1>7 DEF ReportShape, Push
<1>. QED BY <1>4, <1>5, <1>6, <1>7

LEMMA UiReport ==
  ASSUME TypeOK, Shape, ReportShape, UiStep
  PROVE  ReportShape'
<1>. USE DEF ReportShape, Reports, SettledState, sending
<1>1. ASSUME NEW b \in BOOLEAN, Start(b) PROVE ReportShape'
  BY <1>1 DEF Start
<1>2. ASSUME NEW c \in UiCommands, Post(c) PROVE ReportShape'
  BY <1>2 DEF Post
<1>3. CASE PostShutdown BY <1>3 DEF PostShutdown
<1>4. CASE Notify BY <1>4 DEF Notify
<1>5. CASE Stop BY <1>5 DEF Stop
<1>6. CASE Join BY <1>6 DEF Join
<1>7. CASE PopOverflow BY <1>7 DEF PopOverflow
<1>8. CASE PopEvent
  <2>1. Tail(events) # <<>> => Last(Tail(events)) = Last(events)
    BY <1>8, LastOfTail DEF PopEvent, TypeOK
  <2>. QED BY <1>8, <2>1 DEF PopEvent
<1>. QED BY <1>1, <1>2, <1>3, <1>4, <1>5, <1>6, <1>7, <1>8 DEF UiStep

(* None of these events reports a state.                                   *)
LEMMA NotStates ==
  /\ InitializedEvt.type # "State" /\ LegacyPacket.type # "State"
  /\ \A x : /\ ErrorEvent(x).type # "State" /\ RxPacket(x).type # "State"
           /\ TxStarted(x).type # "State" /\ TxCompleted(x).type # "State"
           /\ TxFailed(x).type # "State"
BY DEF InitializedEvt, LegacyPacket, ErrorEvent, RxPacket, TxStarted, TxCompleted, TxFailed

LEMMA InitializeReport ==
  ASSUME TypeOK, Shape, ReportShape, Initialize
  PROVE  ReportShape'
<1>. USE ReportRules DEF ReportShape, Reports, SettledState, Shape, BackendShape, sending
<1>1. CASE InitBegin BY <1>1 DEF InitBegin
<1>2. CASE InitClose BY <1>2 DEF InitClose
<1>3. CASE InitOpen
  <2>1. ReportsAfter(lastState', <<InitializedEvt, StateEvent("Idle")>>, "Idle")
    BY ReportRules
  <2>. QED BY <1>3, <2>1 DEF InitOpen
<1>4. CASE InitStartReceive
  <2>1. ReportsAfter(lastState', <<StateEvent("Receiving")>>, "Receiving")
    BY ReportRules
  <2>. QED BY <1>4, <2>1 DEF InitStartReceive
<1>5. CASE InitFail
  <2>1. ReportsAfter(lastState', <<ErrorEvent("initialize"), StateEvent("Error")>>, "Error")
    BY ReportRules
  <2>. QED BY <1>5, <2>1 DEF InitFail
<1>. QED BY <1>1, <1>2, <1>3, <1>4, <1>5 DEF Initialize

LEMMA LoopReport ==
  ASSUME TypeOK, Shape, ReportShape,
         LoopTop \/ Dequeue \/ SetReceive \/ FailClose \/ Wait \/ SpuriousWakeup
  PROVE  ReportShape'
<1>. USE ReportRules DEF ReportShape, Reports, SettledState, Shape, BackendShape, sending
<1>1. CASE LoopTop BY <1>1 DEF LoopTop
<1>2. CASE Dequeue
  <2>1. CASE commands = <<>>
    BY <1>2, <2>1 DEF Dequeue
  <2>2. CASE commands # <<>>
    <3> DEFINE c == Head(commands)
    <3>1. c.type \in {"Send", "Retry", "SetReceive"}
      BY <2>2, HeadTailProperties, CommandArguments DEF TypeOK
    <3>2. Handle(c)
      BY <1>2, <2>2 DEF Dequeue
    <3>3. pc = "dequeue" /\ out = <<>> /\ UNCHANGED <<initialized, lastState, events>>
      BY <1>2 DEF Dequeue
    <3> HIDE DEF c
    <3>4. CASE c.type = "Retry"
      BY <3>2, <3>3, <3>4 DEF Handle
    <3>5. CASE c.type = "SetReceive"
      BY <3>2, <3>3, <3>5 DEF Handle
    <3>6. CASE c.type = "Send" /\ ~initialized
      <4>1. pc' = "loop" /\ out' = <<TxFailed(c.arg)>> /\ lastState' = lastState
        BY <3>2, <3>3, <3>6 DEF Handle, Refusal
      <4>2. lastState = "Error"
        BY <3>3, <3>6
      <4>3. ReportsAfter(lastState, <<TxFailed(c.arg)>>, "Error")
        BY <4>2, ReportRules, NotStates
      <4>. QED BY <3>3, <3>6, <4>1, <4>3
    <3>7. CASE c.type = "Send" /\ initialized
      BY <3>2, <3>3, <3>7 DEF Handle
    <3>. QED BY <3>1, <3>4, <3>5, <3>6, <3>7
  <2>. QED BY <2>1, <2>2
<1>3. CASE SetReceive
  <2>1. ReportsAfter(lastState', <<StateEvent(SettledState)>>, SettledState)
    BY ReportRules
  <2>. QED BY <1>3, <2>1 DEF SetReceive
<1>4. CASE FailClose
  <2>1. ReportsAfter(lastState', <<StateEvent("Error")>>, "Error")
    BY ReportRules
  <2>. QED BY <1>4, <2>1 DEF FailClose
<1>5. CASE WaitCheck BY <1>5 DEF WaitCheck
<1>6. CASE Park BY <1>6 DEF Park
<1>7. CASE WaitTimeout BY <1>7 DEF WaitTimeout
<1>8. CASE SpuriousWakeup BY <1>8 DEF SpuriousWakeup
<1>. QED BY <1>1, <1>2, <1>3, <1>4, <1>5, <1>6, <1>7, <1>8 DEF Wait

LEMMA ReceiveReport ==
  ASSUME TypeOK, Shape, ReportShape, Receive
  PROVE  ReportShape'
<1>. USE DEF ReportShape, Reports, SettledState, Shape, BackendShape, sending, resume
<1>1. CASE ReceiveNothing BY <1>1 DEF ReceiveNothing
<1>2. CASE ReceiveLegacy
  <2>1. pc = "rx" => lastState = "Receiving" /\ ~sending
    <3>1. ReportsAfter(lastState, <<>>, "Receiving") => lastState = "Receiving"
      BY ReportRules
    <3>. QED BY <1>2, <3>1 DEF ReceiveLegacy
  <2>2. lastState = "Receiving" => ReportsAfter(lastState, <<LegacyPacket>>, "Receiving")
    BY ReportRules, NotStates
  <2>. QED BY <1>2, <2>1, <2>2 DEF ReceiveLegacy, SendShape
<1>3. CASE ReceiveThrows BY <1>3 DEF ReceiveThrows, Abort, TxAbort, ReceiveAbort
<1>4. CASE ReceiveCancelled BY <1>4 DEF ReceiveCancelled
<1>5. CASE AckStop BY <1>5 DEF AckStop, Abort, TxAbort, ReceiveAbort, EndSend
<1>6. CASE AckTransmit BY <1>6 DEF AckTransmit, Abort, TxAbort, ReceiveAbort, EndSend
<1>7. CASE AckStart BY <1>7 DEF AckStart, Abort, TxAbort, ReceiveAbort, EndSend
<1>8. ASSUME NEW t \in PeerTokens, ReceiveData(t) PROVE ReportShape'
  <2>1. pc = "rx" => lastState = "Receiving" /\ ~sending
    <3>1. ReportsAfter(lastState, <<>>, "Receiving") => lastState = "Receiving"
      BY ReportRules
    <3>. QED BY <1>8, <3>1 DEF ReceiveData
  <2>2. lastState = "Receiving" => ReportsAfter(lastState, <<RxPacket(t)>>, "Receiving")
    BY ReportRules, NotStates
  <2>. QED BY <1>8, <2>1, <2>2 DEF ReceiveData, SendShape
<1>. QED BY <1>1, <1>2, <1>3, <1>4, <1>5, <1>6, <1>7, <1>8 DEF Receive

LEMMA SendReport ==
  ASSUME TypeOK, Shape, ReportShape, Send
  PROVE  ReportShape'
<1>. USE ReportRules
     DEF ReportShape, Reports, SettledState, Shape, BackendShape, Conclude, TxAbort, EndSend
<1>1. CASE TxStop BY <1>1 DEF TxStop
<1>2. CASE Transmit
  <2>1. ReportsAfter(lastState', <<TxCompleted(sendId), StateEvent(SettledState)>>, SettledState)
    BY ReportRules
  <2>. QED BY <1>2, <2>1 DEF Transmit
<1>3. CASE TxStart BY <1>3 DEF TxStart
<1>4. CASE Acknowledged
  <2>1. ReportsAfter(lastState', <<TxCompleted(sendId), StateEvent(SettledState)>>, SettledState)
    BY ReportRules
  <2>. QED BY <1>4, <2>1 DEF Acknowledged
<1>5. CASE AckTimeout BY <1>5 DEF AckTimeout
<1>6. CASE Backoff BY <1>6 DEF Backoff
<1>7. CASE TxReset
  <2>1. ReportsAfter(lastState', <<TxFailed(sendId), StateEvent(SettledState)>>, SettledState)
    BY ReportRules
  <2>. QED BY <1>7, <2>1 DEF TxReset
<1>8. CASE Restore
  <2>1. ReportsAfter(lastState', <<StateEvent("Receiving")>>, "Receiving")
    BY ReportRules
  <2>. QED BY <1>8, <2>1 DEF Restore
<1>. QED BY <1>1, <1>2, <1>3, <1>4, <1>5, <1>6, <1>7, <1>8 DEF Send

LEMMA ShutdownReport ==
  ASSUME TypeOK, Shape, ReportShape, Shutdown
  PROVE  ReportShape'
<1>. USE DEF ReportShape
<1>1. CASE Stopping BY <1>1 DEF Stopping
<1>2. CASE FinalClose BY <1>2 DEF FinalClose
<1>3. CASE Exit BY <1>3 DEF Exit
<1>. QED BY <1>1, <1>2, <1>3 DEF Shutdown

(***************************************************************************)
(* What becomes of a send.  To the outcomes a step of the worker is one of *)
(* a few: it leaves the sends alone, takes one from the queue, concludes   *)
(* the one being handled, or drops it at a stop.                           *)
(***************************************************************************)

Endless(o) == \A k \in 1..Len(o) : ~IsEnd(o[k])

(* The pushes that contain no outcome, and those that contain one.         *)
LEMMA EndlessRules ==
  /\ Endless(<<>>)
  /\ \A s : Endless(<<StateEvent(s)>>)
  /\ \A s : Endless(<<ErrorEvent(s)>>)
  /\ \A s, t : Endless(<<ErrorEvent(s), StateEvent(t)>>)
  /\ \A s, t : Endless(<<TxStarted(s), StateEvent(t)>>)
  /\ \A s : Endless(<<RxPacket(s)>>)
  /\ Endless(<<InitializedEvt>>) /\ Endless(<<LegacyPacket>>)
  /\ \A s : Endless(<<InitializedEvt, StateEvent(s)>>)
BY DEF Endless, IsEnd, TxEndTypes, StateEvent, ErrorEvent, TxStarted, RxPacket,
       InitializedEvt, LegacyPacket

EndsOnly(o, e) == o = <<e>> \/ \E s : o = <<e, StateEvent(s)>>

LEMMA EndsOnlyRules ==
  ASSUME NEW o, NEW id \in SendIds, NEW e \in TxEndOf(id), EndsOnly(o, e)
  PROVE  /\ \A k \in 1..Len(o) : IsEnd(o[k]) => k = 1 /\ o[k].arg = id
         /\ e \in Range(o)
<1>1. IsEnd(e) /\ e.arg = id
  BY DEF TxEndOf, TxCompleted, TxFailed, IsEnd, TxEndTypes
<1>2. \A s : ~IsEnd(StateEvent(s))
  BY DEF StateEvent, IsEnd, TxEndTypes
<1>3. CASE o = <<e>>
  <2>1. 1 \in DOMAIN o /\ o[1] = e
    BY <1>3
  <2>. QED BY <1>1, <1>3, <2>1 DEF Range
<1>4. ASSUME NEW s, o = <<e, StateEvent(s)>> 
      PROVE  /\ \A k \in 1..Len(o) : IsEnd(o[k]) => k = 1 /\ o[k].arg = id
             /\ e \in Range(o)
  <2>1. 1 \in DOMAIN o /\ o[1] = e /\ o[2] = StateEvent(s) /\ Len(o) = 2
    BY <1>4
  <2>2. \A k \in 1..2 : k = 1 \/ k = 2
    OBVIOUS
  <2>. QED BY <1>1, <1>2, <2>1, <2>2 DEF Range
<1>. QED BY <1>3, <1>4 DEF EndsOnly

(* The elements of a queue without its first.                              *)
LEMMA RangeOfTail ==
  ASSUME NEW S, NEW q \in Seq(S), q # <<>>
  PROVE  /\ Tail(q) \in Seq(S) /\ Len(Tail(q)) = Len(q) - 1
         /\ \A i \in 1..Len(Tail(q)) : i + 1 \in 1..Len(q) /\ Tail(q)[i] = q[i + 1]
         /\ Range(Tail(q)) \subseteq Range(q)
         /\ \A x \in Range(q) : x = Head(q) \/ x \in Range(Tail(q))
         /\ 1 \in 1..Len(q) /\ q[1] = Head(q)
<1>1. /\ Tail(q) \in Seq(S) /\ Len(Tail(q)) = Len(q) - 1
      /\ \A i \in 1..Len(Tail(q)) : Tail(q)[i] = q[i + 1]
      /\ Head(q) = q[1] /\ Len(q) \in Nat \ {0}
  BY HeadTailProperties, EmptySeq, LenProperties
<1>2. DOMAIN q = 1..Len(q) /\ DOMAIN Tail(q) = 1..Len(Tail(q))
  BY <1>1, LenProperties
<1>3. \A i \in 1..Len(Tail(q)) : i + 1 \in 1..Len(q)
  BY <1>1
<1>4. ASSUME NEW x \in Range(q), x # Head(q)
      PROVE  x \in Range(Tail(q))
  <2>1. PICK i \in 1..Len(q) : x = q[i]
    BY <1>2 DEF Range
  <2>2. i # 1
    BY <1>1, <1>4, <2>1
  <2>3. i - 1 \in 1..Len(Tail(q)) /\ (i - 1) + 1 = i
    BY <1>1, <2>1, <2>2
  <2>4. x = Tail(q)[i - 1]
    BY <1>1, <2>1, <2>3
  <2>. QED BY <1>2, <2>3, <2>4 DEF Range
<1>5. Range(Tail(q)) \subseteq Range(q)
  BY <1>1, <1>2, <1>3 DEF Range
<1>. QED BY <1>1, <1>3, <1>4, <1>5

(* The step leaves the sends alone.                                        *)
LEMMA OutcomeStays ==
  ASSUME OutcomeInv, UNCHANGED <<commands, phase, events, dropped, warned>>,
         stopRequested => stopRequested', StopShape',
         sending' = sending, sendId' = sendId, out = <<>>, Endless(out')
  PROVE  OutcomeInv'
<1>1. Range(out) = {}
  BY DEF Range
<1>2. QueuedOnce' /\ HandledOnce' /\ EndedOnce'
  BY DEF OutcomeInv, QueuedOnce, HandledOnce, EndedOnce, Endless
<1>3. NoSendForgotten'
  BY <1>1 DEF OutcomeInv, NoSendForgotten
<1>4. OneOutcome' /\ LossIsReported'
  BY DEF OutcomeInv, OneOutcome, LossIsReported
<1>. QED BY <1>2, <1>3, <1>4 DEF OutcomeInv

(* The send being handled is given an outcome.                             *)
LEMMA OutcomeEnds ==
  ASSUME OutcomeInv, UNCHANGED <<commands, phase, events, dropped, warned>>,
         stopRequested => stopRequested', StopShape',
         sending, ~sending', sendId \in SendIds, out = <<>>,
         NEW e \in TxEndOf(sendId), EndsOnly(out', e)
  PROVE  OutcomeInv'
<1>1. Range(out) = {}
  BY DEF Range
<1>2. /\ \A k \in 1..Len(out') : IsEnd(out'[k]) => k = 1 /\ out'[k].arg = sendId
      /\ e \in Range(out')
  BY EndsOnlyRules
<1>3. phase[sendId] = "accepted"
  BY DEF OutcomeInv, HandledOnce
<1>4. QueuedOnce'
  BY <1>2 DEF OutcomeInv, QueuedOnce
<1>5. HandledOnce' /\ EndedOnce'
  BY <1>2, <1>3 DEF HandledOnce, EndedOnce
<1>6. NoSendForgotten'
  BY <1>1, <1>2 DEF OutcomeInv, NoSendForgotten
<1>7. OneOutcome' /\ LossIsReported'
  BY DEF OutcomeInv, OneOutcome, LossIsReported
<1>. QED BY <1>4, <1>5, <1>6, <1>7 DEF OutcomeInv

(* What a push, a pop and an eviction leave of the event queue.            *)
LEMMA RangeOfPushed ==
  ASSUME NEW q \in Seq(Events), Len(q) <= EventCapacity, NEW e \in Events
  PROVE  /\ e \in Range(Pushed(q, e))
         /\ ~Full(q) => Range(q) \subseteq Range(Pushed(q, e))
<1> DEFINE kept == IF Full(q) THEN RemoveAt(q, Victim(q)) ELSE q
<1>1. kept \in Seq(Events)
  <2>1. CASE Full(q)
    <3>1. q # <<>>
      BY <2>1, CapacityAssumption, EmptySeq DEF Full
    <3>2. Victim(q) \in 1..Len(q)
      BY <3>1, VictimInQueue
    <3>. QED BY <2>1, <3>2, RemoveAtProperties
  <2>2. CASE ~Full(q)
    BY <2>2
  <2>. QED BY <2>1, <2>2
<1>2. Pushed(q, e) = Append(kept, e)
  BY DEF Pushed
<1>3. ~Full(q) => kept = q
  OBVIOUS
<1> HIDE DEF kept
<1>4. /\ Append(kept, e) \in Seq(Events) /\ Len(Append(kept, e)) = Len(kept) + 1
      /\ \A i \in 1..Len(kept) : Append(kept, e)[i] = kept[i]
      /\ Append(kept, e)[Len(kept) + 1] = e
      /\ Len(kept) \in Nat /\ DOMAIN kept = 1..Len(kept)
      /\ DOMAIN Append(kept, e) = 1..(Len(kept) + 1)
  BY <1>1, AppendProperties, LenProperties
<1>5. Len(kept) + 1 \in DOMAIN Append(kept, e)
  BY <1>4
<1>6. Range(kept) \subseteq Range(Append(kept, e))
  <2>1. ASSUME NEW x \in Range(kept) PROVE x \in Range(Append(kept, e))
    <3>1. PICK i \in 1..Len(kept) : x = kept[i]
      BY <1>4 DEF Range
    <3>2. i \in DOMAIN Append(kept, e) /\ x = Append(kept, e)[i]
      BY <1>4, <3>1
    <3>. QED BY <3>2 DEF Range
  <2>. QED BY <2>1
<1>. QED BY <1>2, <1>3, <1>4, <1>5, <1>6 DEF Range

LEMMA PushOutcome ==
  ASSUME TypeOK, Shape, OutcomeInv, Push
  PROVE  OutcomeInv'
<1> DEFINE e == Head(out)
<1>1. /\ out \in Seq(Events) /\ out # <<>> /\ e \in Events
      /\ out' = Tail(out) /\ events' = Pushed(events, e)
      /\ dropped' = DroppedBy(events)
      /\ UNCHANGED <<stopRequested, commands, pc, sendId, attempt, warned>>
  BY HeadTailProperties DEF TypeOK, Push
<1>2. /\ Len(out') = Len(out) - 1 /\ Len(out) \in Nat
      /\ \A i \in 1..Len(out') : i + 1 \in 1..Len(out) /\ out'[i] = out[i + 1]
      /\ \A x \in Range(out) : x = e \/ x \in Range(out')
      /\ 1 \in 1..Len(out) /\ out[1] = e
  BY <1>1, RangeOfTail, LenProperties
<1>3. IsEnd(e) => /\ e.arg \in SendIds /\ e \in TxEndOf(e.arg)
                  /\ phase[e.arg] = "accepted" /\ ~sending
                  /\ \A i \in 1..Len(out') : ~IsEnd(out'[i])
  <2>1. ASSUME IsEnd(e), NEW i \in 1..Len(out'), IsEnd(out'[i]) PROVE FALSE
    <3>1. i + 1 \in 1..Len(out) /\ IsEnd(out[i + 1]) /\ i \in Nat
      BY <1>2, <2>1
    <3>2. i + 1 = 1
      BY <1>2, <2>1, <3>1 DEF OutcomeInv, EndedOnce
    <3>. QED BY <3>1, <3>2
  <2>2. IsEnd(e) => e.arg \in SendIds /\ e \in TxEndOf(e.arg)
    BY <1>1, EventArguments DEF IsEnd
  <2>3. IsEnd(e) => phase[e.arg] = "accepted" /\ ~sending
    BY <1>2 DEF OutcomeInv, EndedOnce, HandledOnce
  <2>. QED BY <2>1, <2>2, <2>3
<1>4. phase' = IF IsEnd(e) THEN [phase EXCEPT ![e.arg] = "concluded"] ELSE phase
  BY <1>3 DEF Push, IsEnd
<1>5. phase \in [SendIds -> Phases]
  BY DEF TypeOK
<1> HIDE DEF e
<1>6. QueuedOnce'
  <2>1. ASSUME NEW i \in 1..Len(commands), commands[i].type = "Send"
        PROVE  /\ phase'[commands[i].arg] = "accepted"
               /\ \A j \in 1..Len(commands) : commands[j] = commands[i] => j = i
               /\ sending => sendId # commands[i].arg
               /\ \A k \in 1..Len(out') : IsEnd(out'[k]) => out'[k].arg # commands[i].arg
    <3>1. /\ phase[commands[i].arg] = "accepted"
          /\ \A j \in 1..Len(commands) : commands[j] = commands[i] => j = i
          /\ sending => sendId # commands[i].arg
          /\ \A k \in 1..Len(out) : IsEnd(out[k]) => out[k].arg # commands[i].arg
      BY <2>1 DEF OutcomeInv, QueuedOnce
    <3>2. IsEnd(e) => e.arg # commands[i].arg
      BY <1>2, <3>1
    <3>3. phase'[commands[i].arg] = "accepted"
      BY <1>4, <1>5, <3>1, <3>2
    <3>. QED BY <1>2, <3>1, <3>3
  <2>. QED BY <1>1, <2>1 DEF QueuedOnce, sending
<1>7. HandledOnce'
  <2>1. ASSUME sending
        PROVE  phase'[sendId] = "accepted" /\ \A k \in 1..Len(out') : ~IsEnd(out'[k])
    BY <1>2, <1>3, <1>4, <2>1 DEF OutcomeInv, HandledOnce
  <2>. QED BY <1>1, <2>1 DEF HandledOnce, sending
<1>8. EndedOnce'
  <2>1. ASSUME NEW k \in 1..Len(out'), IsEnd(out'[k])
        PROVE  /\ phase'[out'[k].arg] = "accepted"
               /\ \A l \in 1..Len(out') : IsEnd(out'[l]) => l = k
    <3>1. ~IsEnd(e) /\ phase' = phase
      BY <1>3, <1>4, <2>1
    <3>2. k + 1 \in 1..Len(out) /\ IsEnd(out[k + 1]) /\ out'[k] = out[k + 1]
      BY <1>2, <2>1
    <3>3. phase[out[k + 1].arg] = "accepted"
      BY <3>2 DEF OutcomeInv, EndedOnce
    <3>4. ASSUME NEW l \in 1..Len(out'), IsEnd(out'[l]) PROVE l = k
      <4>1. l + 1 \in 1..Len(out) /\ IsEnd(out[l + 1])
        BY <1>2, <3>4
      <4>2. l + 1 = k + 1
        BY <3>2, <4>1 DEF OutcomeInv, EndedOnce
      <4>. QED BY <4>2
    <3>. QED BY <3>1, <3>2, <3>3, <3>4
  <2>. QED BY <2>1 DEF EndedOnce
<1>9. NoSendForgotten'
  <2>1. ASSUME NEW id \in SendIds, phase'[id] = "accepted", ~stopRequested
        PROVE  \/ SendCommand(id) \in Range(commands)
               \/ sendId = id /\ sending
               \/ Range(out') \cap TxEndOf(id) # {}
    <3>1. phase[id] = "accepted" /\ ~(IsEnd(e) /\ e.arg = id)
      BY <1>4, <1>5, <2>1
    <3>2. e \notin TxEndOf(id)
      BY <3>1 DEF TxEndOf, TxCompleted, TxFailed, IsEnd, TxEndTypes
    <3>3. \/ SendCommand(id) \in Range(commands)
          \/ sendId = id /\ sending
          \/ Range(out) \cap TxEndOf(id) # {}
      BY <2>1, <3>1 DEF OutcomeInv, NoSendForgotten
    <3>. QED BY <1>2, <3>2, <3>3
  <2>. QED BY <1>1, <2>1 DEF NoSendForgotten, sending
<1>10. OneOutcome'
  BY <1>4, <1>5 DEF OutcomeInv, OneOutcome
<1>11. LossIsReported'
  <2>1. ASSUME NEW id \in SendIds, phase'[id] = "concluded", dropped' = 0, ~warned
        PROVE  Range(events') \cap TxEndOf(id) # {}
    <3>1. ~Full(events) /\ dropped = 0
      BY <1>1, <2>1, CapacityAssumption DEF DroppedBy, TypeOK
    <3>2. e \in Range(events') /\ Range(events) \subseteq Range(events')
      BY <1>1, <3>1, RangeOfPushed DEF TypeOK
    <3>3. CASE IsEnd(e) /\ e.arg = id
      BY <1>3, <3>2, <3>3
    <3>4. CASE ~(IsEnd(e) /\ e.arg = id)
      <4>1. phase[id] = "concluded"
        BY <1>4, <1>5, <2>1, <3>4
      <4>. QED BY <2>1, <3>1, <3>2, <4>1 DEF OutcomeInv, LossIsReported
    <3>. QED BY <3>3, <3>4
  <2>. QED BY <1>1, <2>1 DEF LossIsReported
<1>12. StopShape'
  BY <1>1 DEF OutcomeInv, StopShape
<1>. QED BY <1>6, <1>7, <1>8, <1>9, <1>10, <1>11, <1>12 DEF OutcomeInv

(* Whoever is named by a queued send, a send in progress or an outcome is  *)
(* a send.                                                                 *)
LEMMA SendsNamed ==
  ASSUME TypeOK, Shape
  PROVE  /\ \A i \in 1..Len(commands) : commands[i].type = "Send" => commands[i].arg \in SendIds
         /\ sending => sendId \in SendIds
         /\ \A k \in 1..Len(out) : IsEnd(out[k]) => out[k].arg \in SendIds
<1>1. /\ \A i \in 1..Len(commands) : commands[i] \in Commands
      /\ \A k \in 1..Len(out) : out[k] \in Events
  BY ElementOfSeq DEF TypeOK
<1>. QED BY <1>1, CommandArguments, EventArguments DEF Shape, SendShape, IsEnd

LEMMA UiOutcome ==
  ASSUME TypeOK, Shape, OutcomeInv, UiStep
  PROVE  OutcomeInv'
<1>1. ASSUME UNCHANGED <<commands, phase, events, dropped, warned, sendVars, out>>,
             stopRequested => stopRequested', StopShape'
      PROVE  OutcomeInv'
  BY <1>1 DEF OutcomeInv, QueuedOnce, HandledOnce, EndedOnce, NoSendForgotten, OneOutcome,
              LossIsReported, sending
<1>2. ASSUME NEW b \in BOOLEAN, Start(b) PROVE OutcomeInv'
  <2>1. pc \in {"none", "exited"} /\ out = <<>> /\ ~sending
    BY <1>2 DEF Start, Shape, LifecycleShape, BackendShape
  <2>2. commands' = <<>> /\ out' = <<>> /\ ~sending' /\ pc' \notin {"stopping", "finalClose", "exit", "exited"}
    BY <1>2, <2>1 DEF Start, sending
  <2>3. /\ \A id \in SendIds : phase'[id] \notin {"accepted", "concluded", "twice"}
    BY <1>2 DEF Start, OutcomeInv, OneOutcome
  <2>4. QueuedOnce' /\ HandledOnce' /\ EndedOnce' /\ StopShape'
    BY <2>2 DEF QueuedOnce, HandledOnce, EndedOnce, StopShape
  <2>5. NoSendForgotten' /\ OneOutcome' /\ LossIsReported'
    BY <2>3 DEF NoSendForgotten, OneOutcome, LossIsReported
  <2>. QED BY <2>4, <2>5 DEF OutcomeInv
<1>3. ASSUME NEW c \in UiCommands, Post(c) PROVE OutcomeInv'
  <2>1. /\ c \in Commands /\ commands' = Append(commands, c) /\ commands \in Seq(Commands)
        /\ UNCHANGED <<events, dropped, warned, sendVars, out, stopRequested, pc>>
    BY <1>3, CommandAssumption DEF Post, TypeOK
  <2>2. /\ Len(commands') = Len(commands) + 1 /\ Len(commands) \in Nat
        /\ \A i \in 1..Len(commands) : commands'[i] = commands[i]
        /\ commands'[Len(commands) + 1] = c
        /\ DOMAIN commands = 1..Len(commands) /\ DOMAIN commands' = 1..(Len(commands) + 1)
    BY <2>1, AppendProperties, LenProperties
  <2>3. Range(commands') = Range(commands) \cup {c}
    <3>1. \A i \in 1..(Len(commands) + 1) : i \in 1..Len(commands) \/ i = Len(commands) + 1
      BY <2>2
    <3>2. \A i \in 1..Len(commands) : i \in 1..(Len(commands) + 1)
      BY <2>2
    <3>3. Len(commands) + 1 \in 1..(Len(commands) + 1)
      BY <2>2
    <3>. QED BY <2>2, <3>1, <3>2, <3>3 DEF Range
  <2>4. c.type = "Send" => /\ c.arg \in SendIds /\ c = SendCommand(c.arg)
                           /\ phase[c.arg] = "fresh"
                           /\ phase' = [phase EXCEPT ![c.arg] = "accepted"]
    BY <1>3, <2>1, CommandArguments DEF Post
  <2>5. c.type # "Send" => phase' = phase
    BY <1>3 DEF Post
  <2>6. phase \in [SendIds -> Phases]
    BY DEF TypeOK
  <2>7. ASSUME NEW id \in SendIds, phase[id] = "accepted"
        PROVE  phase'[id] = "accepted" /\ ~(c.type = "Send" /\ id = c.arg)
    <3>1. CASE c.type = "Send"
      <4>1. id # c.arg
        BY <2>4, <2>7, <3>1
      <4>. QED BY <2>4, <2>6, <2>7, <3>1, <4>1
    <3>2. CASE c.type # "Send"
      BY <2>5, <2>7, <3>2
    <3>. QED BY <3>1, <3>2
  <2>8. QueuedOnce'
    <3>1. ASSUME NEW i \in 1..Len(commands'), commands'[i].type = "Send"
          PROVE  /\ phase'[commands'[i].arg] = "accepted"
                 /\ \A j \in 1..Len(commands') : commands'[j] = commands'[i] => j = i
                 /\ sending => sendId # commands'[i].arg
                 /\ \A k \in 1..Len(out) : IsEnd(out[k]) => out[k].arg # commands'[i].arg
      <4>1. CASE i \in 1..Len(commands)
        <5>1. /\ commands'[i] = commands[i] /\ phase[commands[i].arg] = "accepted"
              /\ \A j \in 1..Len(commands) : commands[j] = commands[i] => j = i
              /\ sending => sendId # commands[i].arg
              /\ \A k \in 1..Len(out) : IsEnd(out[k]) => out[k].arg # commands[i].arg
          BY <2>2, <3>1, <4>1 DEF OutcomeInv, QueuedOnce
        <5>4. commands[i].arg \in SendIds
          BY <3>1, <4>1, <5>1, SendsNamed
        <5>2. c # commands[i]
          BY <2>7, <3>1, <5>1, <5>4
        <5>3. \A j \in 1..Len(commands') : j \in 1..Len(commands) \/ commands'[j] = c
          BY <2>2
        <5>. QED BY <2>2, <2>7, <5>1, <5>2, <5>3, <5>4
      <4>2. CASE i = Len(commands) + 1
        <5>1. commands'[i] = c /\ c.type = "Send" /\ phase'[c.arg] = "accepted"
          BY <2>2, <2>4, <2>6, <3>1, <4>2
        <5>2. ASSUME NEW j \in 1..Len(commands), commands[j] = c PROVE FALSE
          <6>1. phase[c.arg] = "accepted"
            BY <5>1, <5>2 DEF OutcomeInv, QueuedOnce
          <6>. QED BY <2>4, <5>1, <6>1
        <5>3. \A j \in 1..Len(commands') : j \in 1..Len(commands) \/ j = i
          BY <2>2, <4>2
        <5>4. sending => sendId # c.arg
          BY <2>4, <5>1 DEF OutcomeInv, HandledOnce
        <5>5. \A k \in 1..Len(out) : IsEnd(out[k]) => out[k].arg # c.arg
          BY <2>4, <5>1 DEF OutcomeInv, EndedOnce
        <5>. QED BY <2>2, <5>1, <5>2, <5>3, <5>4, <5>5
      <4>. QED BY <2>2, <4>1, <4>2
    <3>. QED BY <2>1, <3>1 DEF QueuedOnce, sending
  <2>9. HandledOnce' /\ EndedOnce'
    BY <2>1, <2>7, SendsNamed DEF OutcomeInv, HandledOnce, EndedOnce, sending
  <2>10. NoSendForgotten'
    <3>1. ASSUME NEW id \in SendIds, phase'[id] = "accepted"
          PROVE  phase[id] = "accepted" \/ SendCommand(id) \in Range(commands')
      BY <2>3, <2>4, <2>5, <2>6, <3>1
    <3>. QED BY <2>1, <2>3, <3>1 DEF OutcomeInv, NoSendForgotten, sending
  <2>11. OneOutcome' /\ LossIsReported'
    BY <2>1, <2>4, <2>5, <2>6 DEF OutcomeInv, OneOutcome, LossIsReported
  <2>12. StopShape'
    BY <2>1 DEF OutcomeInv, StopShape
  <2>. QED BY <2>8, <2>9, <2>10, <2>11, <2>12 DEF OutcomeInv
<1>4. CASE PostShutdown
  BY <1>1, <1>4 DEF PostShutdown, OutcomeInv, StopShape
<1>5. CASE Notify
  BY <1>1, <1>5 DEF Notify, OutcomeInv, StopShape
<1>6. CASE Stop
  BY <1>1, <1>6 DEF Stop, OutcomeInv, StopShape
<1>7. CASE Join
  BY <1>1, <1>7 DEF Join, OutcomeInv, StopShape
<1>8. CASE PopOverflow
  BY <1>8 DEF PopOverflow, OutcomeInv, QueuedOnce, HandledOnce, EndedOnce, NoSendForgotten,
              OneOutcome, LossIsReported, StopShape, sending
<1>9. CASE PopEvent
  <2> DEFINE e == Head(events)
  <2>1. /\ events \in Seq(Events) /\ events # <<>> /\ e \in Events /\ events' = Tail(events)
        /\ UNCHANGED <<commands, dropped, warned, sendVars, out, stopRequested, pc>>
    BY <1>9, HeadTailProperties DEF PopEvent, TypeOK
  <2>2. \A x \in Range(events) : x = e \/ x \in Range(events')
    BY <2>1, RangeOfTail
  <2>3. IsEnd(e) => e.arg \in SendIds /\ e \in TxEndOf(e.arg)
    BY <2>1, EventArguments DEF IsEnd
  <2>4. phase' = IF IsEnd(e) THEN [phase EXCEPT ![e.arg] = IF @ = "concluded" THEN "seen" ELSE @]
                             ELSE phase
    BY <1>9 DEF PopEvent, IsEnd
  <2>5. phase \in [SendIds -> Phases]
    BY DEF TypeOK
  <2> HIDE DEF e
  <2>6. \A id \in SendIds : /\ phase'[id] = "accepted" <=> phase[id] = "accepted"
                            /\ phase[id] # "twice" => phase'[id] # "twice"
                            /\ phase'[id] = "concluded"
                                 => phase[id] = "concluded" /\ ~(IsEnd(e) /\ e.arg = id)
    BY <2>4, <2>5
  <2>7. \A id \in SendIds : phase[id] = "accepted" => phase'[id] = "accepted"
    BY <2>4, <2>5
  <2>8. QueuedOnce' /\ HandledOnce' /\ EndedOnce' /\ StopShape'
    BY <2>1, <2>7, SendsNamed DEF OutcomeInv, QueuedOnce, HandledOnce, EndedOnce, StopShape, sending
  <2>9. OneOutcome'
    BY <2>6 DEF OutcomeInv, OneOutcome
  <2>11. NoSendForgotten'
    <3>1. sending' = sending
      BY <2>1 DEF sending
    <3>. QED BY <2>1, <2>6, <3>1 DEF OutcomeInv, NoSendForgotten
  <2>10. LossIsReported'
    <3>1. ASSUME NEW id \in SendIds, phase'[id] = "concluded", dropped = 0, ~warned
          PROVE  Range(events') \cap TxEndOf(id) # {}
      <4>3. phase[id] = "concluded" /\ ~(IsEnd(e) /\ e.arg = id)
        BY <2>6, <3>1
      <4>1. Range(events) \cap TxEndOf(id) # {}
        BY <3>1, <4>3 DEF OutcomeInv, LossIsReported
      <4>2. e \notin TxEndOf(id)
        BY <4>3 DEF TxEndOf, TxCompleted, TxFailed, IsEnd, TxEndTypes
      <4>. QED BY <2>2, <4>1, <4>2
    <3>. QED BY <2>1, <3>1 DEF LossIsReported
  <2>. QED BY <2>8, <2>9, <2>10, <2>11 DEF OutcomeInv
<1>. QED BY <1>2, <1>3, <1>4, <1>5, <1>6, <1>7, <1>8, <1>9 DEF UiStep

LEMMA InitializeOutcome ==
  ASSUME TypeOK, Shape, OutcomeInv, Initialize
  PROVE  OutcomeInv'
<1>1. /\ UNCHANGED <<commands, phase, events, dropped, warned, stopRequested, sendVars>>
      /\ out = <<>> /\ StopShape'
  BY DEF Initialize, InitBegin, InitClose, InitOpen, InitStartReceive, InitFail, StopShape
<1>2. Endless(out')
  BY EndlessRules DEF Initialize, InitBegin, InitClose, InitOpen, InitStartReceive, InitFail
<1>. QED BY <1>1, <1>2, OutcomeStays DEF sending

LEMMA LoopOutcome ==
  ASSUME TypeOK, Shape, OutcomeInv,
         LoopTop \/ SetReceive \/ FailClose \/ Wait \/ SpuriousWakeup
  PROVE  OutcomeInv'
<1>1. /\ UNCHANGED <<commands, phase, events, dropped, warned, stopRequested, sendVars>>
      /\ out = <<>>
  BY DEF LoopTop, SetReceive, FailClose, Wait, WaitCheck, Park, WaitTimeout, SpuriousWakeup
<1>3. StopShape'
  <2>1. CASE LoopTop BY <2>1 DEF LoopTop, StopShape
  <2>2. CASE SetReceive BY <2>2 DEF SetReceive, StopShape
  <2>3. CASE FailClose BY <2>3 DEF FailClose, StopShape
  <2>4. CASE Wait \/ SpuriousWakeup
    BY <2>4 DEF Wait, WaitCheck, Park, WaitTimeout, SpuriousWakeup, StopShape
  <2>. QED BY <2>1, <2>2, <2>3, <2>4
<1>2. Endless(out')
  BY EndlessRules
  DEF LoopTop, SetReceive, FailClose, Wait, WaitCheck, Park, WaitTimeout, SpuriousWakeup
<1>. QED BY <1>1, <1>2, <1>3, OutcomeStays DEF sending

LEMMA DequeueOutcome ==
  ASSUME TypeOK, Shape, OutcomeInv, Dequeue
  PROVE  OutcomeInv'
<1>1. /\ out = <<>> /\ pc = "dequeue" /\ ~sending
      /\ UNCHANGED <<phase, events, dropped, warned, stopRequested, initialized>>
  BY DEF Dequeue, Shape, BackendShape
<1>2. CASE commands = <<>>
  <2>1. UNCHANGED <<commands, sendVars>> /\ out' = <<>> /\ StopShape'
    BY <1>2 DEF Dequeue, StopShape
  <2>2. Endless(out')
    BY <2>1, EndlessRules
  <2>. QED BY <1>1, <2>1, <2>2, OutcomeStays DEF sending
<1>3. CASE commands # <<>>
  <2> DEFINE c == Head(commands)
  <2>1. commands \in Seq(Commands) /\ c \in Commands /\ commands' = Tail(commands) /\ Handle(c)
    BY <1>3, HeadTailProperties DEF Dequeue, TypeOK
  <2>2. /\ Len(commands') = Len(commands) - 1 /\ Len(commands) \in Nat
        /\ \A i \in 1..Len(commands') : i + 1 \in 1..Len(commands) /\ commands'[i] = commands[i + 1]
        /\ \A x \in Range(commands) : x = c \/ x \in Range(commands')
        /\ 1 \in 1..Len(commands) /\ commands[1] = c
    BY <1>3, <2>1, RangeOfTail, LenProperties
  <2>3. /\ c.type \in {"Send", "Retry", "SetReceive"}
        /\ c.type = "Send" => c.arg \in SendIds /\ c = SendCommand(c.arg)
    BY <2>1, CommandArguments
  <2>4. c.type = "Send" => phase[c.arg] = "accepted"
    BY <2>2 DEF OutcomeInv, QueuedOnce
  <2> HIDE DEF c
  <2>5. /\ pc' \notin {"stopping", "finalClose", "exit", "exited"}
        /\ \/ c.type # "Send" /\ out' = <<>> /\ UNCHANGED sendVars
           \/ c.type = "Send" /\ out' = <<TxFailed(c.arg)>> /\ UNCHANGED sendVars
           \/ /\ c.type = "Send" /\ out' = <<TxStarted(c.arg), StateEvent("Sending")>>
              /\ sendId' = c.arg /\ attempt' = 1
    <3>1. CASE c.type = "Retry"
      BY <2>1, <3>1 DEF Handle
    <3>2. CASE c.type = "SetReceive"
      BY <2>1, <3>2 DEF Handle
    <3>3. CASE c.type = "Send" /\ ~initialized
      BY <2>1, <3>3 DEF Handle, Refusal
    <3>4. CASE c.type = "Send" /\ initialized
      BY <2>1, <3>4 DEF Handle
    <3>. QED BY <2>3, <3>1, <3>2, <3>3, <3>4
  <2>6. ASSUME NEW i \in 1..Len(commands'), commands'[i].type = "Send"
        PROVE  /\ phase[commands'[i].arg] = "accepted"
               /\ \A j \in 1..Len(commands') : commands'[j] = commands'[i] => j = i
               /\ c.type = "Send" => c.arg # commands'[i].arg
    <3>1. /\ i + 1 \in 1..Len(commands) /\ commands'[i] = commands[i + 1] /\ i \in Nat
      BY <2>2
    <3>2. /\ phase[commands[i + 1].arg] = "accepted"
          /\ \A j \in 1..Len(commands) : commands[j] = commands[i + 1] => j = i + 1
      BY <2>6, <3>1 DEF OutcomeInv, QueuedOnce
    <3>3. ASSUME NEW j \in 1..Len(commands'), commands'[j] = commands'[i] PROVE j = i
      <4>1. j + 1 \in 1..Len(commands) /\ commands[j + 1] = commands[i + 1] /\ j \in Nat
        BY <2>2, <3>1, <3>3
      <4>2. j + 1 = i + 1
        BY <3>2, <4>1
      <4>. QED BY <3>1, <4>1, <4>2
    <3>4. ASSUME c.type = "Send", c.arg = commands'[i].arg PROVE FALSE
      <4>1. commands[i + 1] \in Commands
        BY <2>1, <3>1, ElementOfSeq
      <4>2. commands[i + 1] = c
        BY <2>3, <2>6, <3>1, <3>4, <4>1, CommandArguments
      <4>3. 1 = i + 1
        BY <2>2, <3>2, <4>2
      <4>. QED BY <3>1, <4>3
    <3>. QED BY <3>1, <3>2, <3>3, <3>4
  <2>7. StopShape' /\ OneOutcome' /\ LossIsReported'
    BY <1>1, <2>5 DEF OutcomeInv, StopShape, OneOutcome, LossIsReported
  <2>8. ASSUME NEW id \in SendIds, phase[id] = "accepted", ~stopRequested
        PROVE  SendCommand(id) \in Range(commands') \/ (c.type = "Send" /\ c.arg = id)
    <3>1. SendCommand(id) \in Range(commands)
      <4>1. Range(out) = {}
        BY <1>1 DEF Range
      <4>. QED BY <1>1, <2>8, <4>1 DEF OutcomeInv, NoSendForgotten
    <3>2. SendCommand(id) = c => c.type = "Send" /\ c.arg = id
      BY DEF SendCommand
    <3>. QED BY <2>2, <3>1, <3>2
  <2>9. CASE c.type # "Send" /\ out' = <<>> /\ UNCHANGED sendVars
    <3>1. QueuedOnce' /\ HandledOnce' /\ EndedOnce'
      BY <1>1, <2>6, <2>9 DEF QueuedOnce, HandledOnce, EndedOnce, sending
    <3>2. NoSendForgotten'
      BY <1>1, <2>8, <2>9 DEF NoSendForgotten
    <3>. QED BY <2>7, <3>1, <3>2 DEF OutcomeInv
  <2>10. CASE c.type = "Send" /\ out' = <<TxFailed(c.arg)>> /\ UNCHANGED sendVars
    <3>1. TxFailed(c.arg) \in TxEndOf(c.arg) /\ EndsOnly(out', TxFailed(c.arg))
      BY <2>10 DEF TxEndOf, EndsOnly
    <3>2. /\ \A k \in 1..Len(out') : IsEnd(out'[k]) => k = 1 /\ out'[k].arg = c.arg
          /\ TxFailed(c.arg) \in Range(out')
      BY <2>3, <2>10, <3>1, EndsOnlyRules
    <3>3. ~sending'
      BY <1>1, <2>10 DEF sending
    <3>4. QueuedOnce'
      BY <1>1, <2>6, <2>10, <3>2, <3>3 DEF QueuedOnce
    <3>5. HandledOnce' /\ EndedOnce'
      BY <1>1, <2>4, <2>10, <3>2, <3>3 DEF HandledOnce, EndedOnce
    <3>6. NoSendForgotten'
      BY <1>1, <2>8, <2>10, <3>1, <3>2 DEF NoSendForgotten
    <3>. QED BY <2>7, <3>4, <3>5, <3>6 DEF OutcomeInv
  <2>11. CASE /\ c.type = "Send" /\ out' = <<TxStarted(c.arg), StateEvent("Sending")>>
              /\ sendId' = c.arg /\ attempt' = 1
    <3>1. Endless(out')
      BY <2>11, EndlessRules
    <3>2. sending'
      BY <2>11 DEF sending
    <3>3. QueuedOnce'
      BY <1>1, <2>6, <2>11, <3>1 DEF QueuedOnce, Endless
    <3>4. HandledOnce' /\ EndedOnce'
      BY <1>1, <2>4, <2>11, <3>1, <3>2 DEF HandledOnce, EndedOnce, Endless
    <3>5. NoSendForgotten'
      BY <1>1, <2>8, <2>11, <3>2 DEF NoSendForgotten
    <3>. QED BY <2>7, <3>3, <3>4, <3>5 DEF OutcomeInv
  <2>. QED BY <2>5, <2>9, <2>10, <2>11
<1>. QED BY <1>2, <1>3

(* The exception handler of a send gives it an outcome.                    *)
LEMMA TxAbortOutcome ==
  ASSUME TypeOK, Shape, OutcomeInv, sending, out = <<>>, TxAbort,
         UNCHANGED <<commands, phase, events, dropped, warned, stopRequested>>
  PROVE  OutcomeInv'
<1>1. sendId \in SendIds
  BY DEF Shape, SendShape
<1>2. ~sending' /\ out' = <<TxFailed(sendId)>> /\ StopShape'
  BY DEF TxAbort, EndSend, StopShape, sending
<1>3. TxFailed(sendId) \in TxEndOf(sendId) /\ EndsOnly(out', TxFailed(sendId))
  BY <1>2 DEF TxEndOf, EndsOnly
<1>. QED BY <1>1, <1>2, <1>3, OutcomeEnds

(* So does the end of a send that got through its attempts.                *)
LEMMA ConcludeOutcome ==
  ASSUME TypeOK, Shape, OutcomeInv, sending, out = <<>>,
         NEW e \in TxEndOf(sendId), Conclude(e),
         UNCHANGED <<commands, phase, events, dropped, warned, stopRequested>>
  PROVE  OutcomeInv'
<1>1. sendId \in SendIds
  BY DEF Shape, SendShape
<1>2. ~sending' /\ EndsOnly(out', e) /\ StopShape'
  BY DEF Conclude, EndSend, StopShape, sending, EndsOnly
<1>. QED BY <1>1, <1>2, OutcomeEnds

(* A step after which the send is still the same.                          *)
LEMMA SameSend ==
  ASSUME TypeOK, OutcomeInv, out = <<>>, UNCHANGED sendVars, Endless(out'),
         pc' \in {"stopping", "finalClose", "exit", "exited"} => stopRequested,
         UNCHANGED <<commands, phase, events, dropped, warned, stopRequested>>
  PROVE  OutcomeInv'
<1>1. StopShape' /\ sending' = sending
  BY DEF StopShape, sending
<1>. QED BY <1>1, OutcomeStays

LEMMA ReceiveOutcome ==
  ASSUME TypeOK, Shape, OutcomeInv, Receive
  PROVE  OutcomeInv'
<1>1. out = <<>> /\ UNCHANGED <<commands, phase, events, dropped, warned, stopRequested>>
  BY DEF Receive, ReceiveNothing, ReceiveLegacy, ReceiveThrows, ReceiveCancelled,
         AckStop, AckTransmit, AckStart, ReceiveData
<1>2. ASSUME Abort PROVE OutcomeInv'
  <2>1. CASE sending
    BY <1>1, <1>2, <2>1, TxAbortOutcome DEF Abort
  <2>2. CASE ~sending
    <3>1. UNCHANGED sendVars /\ out' = <<ErrorEvent("receive")>> /\ pc' = "failClose"
      BY <1>2, <2>2 DEF Abort, ReceiveAbort
    <3>2. Endless(out')
      BY <3>1, EndlessRules
    <3>. QED BY <1>1, <3>1, <3>2, SameSend
  <2>. QED BY <2>1, <2>2
<1>3. ASSUME StopsAtCancel, UNCHANGED sendVars PROVE OutcomeInv'
  BY <1>1, <1>3, SameSend, EndlessRules
<1>4. CASE ReceiveNothing
  BY <1>1, <1>4, SameSend, EndlessRules DEF ReceiveNothing
<1>5. CASE ReceiveLegacy
  BY <1>1, <1>5, SameSend, EndlessRules DEF ReceiveLegacy, resume
<1>6. ASSUME NEW t \in PeerTokens, ReceiveData(t) PROVE OutcomeInv'
  <2>1. UNCHANGED sendVars /\ pc' \in {"ackStop", "txWait", "loop"}
    BY <1>6 DEF ReceiveData, resume
  <2>2. Endless(out')
    BY <1>6, EndlessRules DEF ReceiveData
  <2>. QED BY <1>1, <2>1, <2>2, SameSend
<1>7. CASE ReceiveThrows
  BY <1>2, <1>7 DEF ReceiveThrows
<1>8. CASE ReceiveCancelled
  BY <1>3, <1>8 DEF ReceiveCancelled
<1>9. CASE AckStop
  <2>1. CASE Goto("ackTransmit", <<>>) /\ UNCHANGED sendVars
    BY <1>1, <2>1, SameSend, EndlessRules
  <2>. QED BY <1>2, <1>3, <1>9, <2>1 DEF AckStop
<1>10. CASE AckTransmit
  <2>1. CASE Goto("ackStart", <<>>) /\ UNCHANGED sendVars
    BY <1>1, <2>1, SameSend, EndlessRules
  <2>. QED BY <1>2, <1>3, <1>10, <2>1 DEF AckTransmit
<1>11. CASE AckStart
  <2>1. CASE Goto(resume, <<>>) /\ UNCHANGED sendVars
    BY <1>1, <2>1, SameSend, EndlessRules DEF resume
  <2>. QED BY <1>2, <1>3, <1>11, <2>1 DEF AckStart
<1>. QED BY <1>4, <1>5, <1>6, <1>7, <1>8, <1>9, <1>10, <1>11 DEF Receive

LEMMA SendOutcome ==
  ASSUME TypeOK, Shape, OutcomeInv, Send
  PROVE  OutcomeInv'
<1>1. out = <<>> /\ UNCHANGED <<commands, phase, events, dropped, warned, stopRequested>>
  BY DEF Send, TxStop, Transmit, TxStart, Acknowledged, AckTimeout, Backoff, TxReset, Restore
<1>2. pc # "restore" => sending
  BY DEF Send, TxStop, Transmit, TxStart, Acknowledged, AckTimeout, Backoff, TxReset, Restore,
         Shape, SendShape
<1>3. ASSUME TxAbort, pc # "restore" PROVE OutcomeInv'
  BY <1>1, <1>2, <1>3, TxAbortOutcome
<1>4. ASSUME StopsAtCancel, UNCHANGED sendVars PROVE OutcomeInv'
  BY <1>1, <1>4, SameSend, EndlessRules
<1>5. TxCompleted(sendId) \in TxEndOf(sendId) /\ TxFailed(sendId) \in TxEndOf(sendId)
  BY DEF TxEndOf
<1>6. CASE TxStop
  <2>1. CASE Goto("transmit", <<>>) /\ UNCHANGED sendVars
    BY <1>1, <2>1, SameSend, EndlessRules
  <2>. QED BY <1>3, <1>6, <2>1 DEF TxStop
<1>7. CASE Transmit
  <2>1. CASE Goto("txStart", <<>>) /\ UNCHANGED sendVars
    BY <1>1, <2>1, SameSend, EndlessRules
  <2>2. CASE Conclude(TxCompleted(sendId))
    BY <1>1, <1>2, <1>5, <1>7, <2>2, ConcludeOutcome DEF Transmit
  <2>. QED BY <1>3, <1>4, <1>7, <2>1, <2>2 DEF Transmit
<1>8. CASE TxStart
  <2>1. CASE Goto("txWait", <<>>) /\ UNCHANGED sendVars
    BY <1>1, <2>1, SameSend, EndlessRules
  <2>. QED BY <1>3, <1>4, <1>8, <2>1 DEF TxStart
<1>9. CASE Acknowledged
  BY <1>1, <1>2, <1>5, <1>9, ConcludeOutcome DEF Acknowledged
<1>10. CASE AckTimeout
  BY <1>1, <1>10, SameSend, EndlessRules DEF AckTimeout
<1>11. CASE Backoff
  <2>1. /\ sendId' = sendId /\ out' = <<>> /\ attempt' \in {attempt, attempt + 1}
        /\ attempt \in Nat /\ sending /\ StopShape'
    BY <1>2, <1>11, CapacityAssumption DEF Backoff, StopShape, TypeOK
  <2>2. sending' = sending
    BY <2>1 DEF sending
  <2>. QED BY <1>1, <2>1, <2>2, OutcomeStays, EndlessRules
<1>12. CASE TxReset
  <2>1. CASE Conclude(TxFailed(sendId))
    BY <1>1, <1>2, <1>5, <1>12, <2>1, ConcludeOutcome DEF TxReset
  <2>. QED BY <1>3, <1>4, <1>12, <2>1 DEF TxReset
<1>13. CASE Restore
  <2>1. UNCHANGED sendVars /\ Endless(out')
    BY <1>13, EndlessRules DEF Restore
  <2>2. pc' \in {"stopping", "finalClose", "exit", "exited"} => stopRequested
    BY <1>13 DEF Restore
  <2>. QED BY <1>1, <2>1, <2>2, SameSend
<1>. QED BY <1>6, <1>7, <1>8, <1>9, <1>10, <1>11, <1>12, <1>13 DEF Send

LEMMA ShutdownOutcome ==
  ASSUME TypeOK, Shape, OutcomeInv, Shutdown
  PROVE  OutcomeInv'
<1>1. out = <<>> /\ UNCHANGED <<commands, phase, events, dropped, warned, stopRequested>>
  BY DEF Shutdown, Stopping, FinalClose, Exit
<1>2. stopRequested
  BY DEF Shutdown, Stopping, FinalClose, Exit, OutcomeInv, StopShape
<1>3. Endless(out')
  BY EndlessRules DEF Shutdown, Stopping, FinalClose, Exit
<1>4. CASE FinalClose \/ Exit
  BY <1>1, <1>2, <1>3, <1>4, SameSend DEF FinalClose, Exit
<1>5. CASE Stopping
  <2>1. ~sending'
    BY <1>5 DEF Stopping, sending
  <2>2. QueuedOnce' /\ HandledOnce' /\ EndedOnce' /\ StopShape'
    BY <1>1, <1>2, <1>3, <2>1
    DEF OutcomeInv, QueuedOnce, HandledOnce, EndedOnce, StopShape, Endless
  <2>3. NoSendForgotten' /\ OneOutcome' /\ LossIsReported'
    BY <1>1, <1>2 DEF OutcomeInv, NoSendForgotten, OneOutcome, LossIsReported
  <2>. QED BY <2>2, <2>3 DEF OutcomeInv
<1>. QED BY <1>4, <1>5 DEF Shutdown

(***************************************************************************)
(* The theorems.                                                           *)
(***************************************************************************)

LEMMA InvInit == Init => WorkerInv
<1>. SUFFICES ASSUME Init PROVE WorkerInv
  OBVIOUS
<1>1. TypeOK
  <2>1. <<>> \in Seq(Commands) /\ <<>> \in Seq(Events) /\ <<>> \in Seq(PeerTokens)
        /\ Len(<<>>) = 0
    OBVIOUS
  <2>2. 0 \in 0..DropLimit /\ 0 \in 0..MaxAttempts
        /\ 0 <= CommandCapacity /\ 0 <= EventCapacity /\ 0 <= TokenWindow
    BY CapacityAssumption
  <2>3. phase \in [SendIds -> Phases]
    BY DEF Init, Phases
  <2>. QED BY <2>1, <2>2, <2>3 DEF Init, TypeOK
<1>2. SendShape /\ BackendShape /\ LifecycleShape /\ ReportShape
  BY DEF Init, SendShape, BackendShape, LifecycleShape, ReportShape, sending
<1>. QED BY <1>1, <1>2 DEF WorkerInv

LEMMA InvNext == WorkerInv /\ [Next]_vars => WorkerInv'
<1>. SUFFICES ASSUME TypeOK, Shape, ReportShape, [Next]_vars
              PROVE  TypeOK' /\ Shape' /\ ReportShape'
  BY DEF WorkerInv, Shape
<1>1. CASE Push
  BY <1>1, PushType, LoopShape, PushReport
<1>2. CASE UiStep
  BY <1>2, UiType, UiShape, UiReport
<1>3. CASE Initialize
  BY <1>3, InitializeType, InitializeShape, InitializeReport
<1>4. CASE LoopTop \/ Dequeue \/ SetReceive \/ FailClose \/ Wait \/ SpuriousWakeup
  BY <1>4, LoopType, LoopShape, LoopReport
<1>5. CASE Receive
  BY <1>5, ReceiveType, ReceiveShape, ReceiveReport DEF Shape
<1>6. CASE Send
  BY <1>6, SendType, SendStepShape, SendReport DEF Shape
<1>7. CASE Shutdown
  BY <1>7, ShutdownType, ShutdownShape, ShutdownReport
<1>8. CASE UNCHANGED vars
  <2>1. TypeOK'
    BY <1>8 DEF vars, TypeOK
  <2>2. Shape'
    BY <1>8 DEF vars, Shape, SendShape, BackendShape, LifecycleShape, sending
  <2>3. ReportShape'
    BY <1>8 DEF vars, ReportShape, Reports, SettledState, sending
  <2>. QED BY <2>1, <2>2, <2>3
<1>. QED BY <1>1, <1>2, <1>3, <1>4, <1>5, <1>6, <1>7, <1>8 DEF Next, WorkerStep

(* The strengthening is inductive, so it holds in every state.             *)
THEOREM WorkerInvariant == Spec => []WorkerInv
BY InvInit, InvNext, PTL DEF Spec

(* The types, and the bounds of the two queues and of the token window:    *)
(* pushEvent() and post() never exceed their capacities.                   *)
THEOREM TypeCorrect == Spec => []TypeOK
<1>1. WorkerInv => TypeOK
  BY DEF WorkerInv
<1>. QED BY <1>1, WorkerInvariant, PTL

(* No backend call is made on a closed backend.                            *)
THEOREM BackendUsedOnlyWhenOpen == Spec => []UsedOnlyWhenOpen
<1>1. WorkerInv => UsedOnlyWhenOpen
  BY DEF WorkerInv, UsedOnlyWhenOpen, BackendPcs, BackendShape
<1>. QED BY <1>1, WorkerInvariant, PTL

(* An initialized worker that wants to receive is listening.               *)
THEOREM WorkerNeverDeaf == Spec => []NeverDeaf
<1>1. WorkerInv => NeverDeaf
  BY DEF WorkerInv, NeverDeaf, BackendShape
<1>. QED BY <1>1, WorkerInvariant, PTL

(* A settled worker has reported the state it is in.                       *)
THEOREM StateEventsAreTruthful == Spec => []StateEventsTruthful
<1>1. WorkerInv => StateEventsTruthful
  <2>. SUFFICES ASSUME WorkerInv, pc \in {"dequeue", "rx"} \cup WaitPcs
                PROVE  lastState = IF initialized THEN SettledState ELSE "Error"
    BY DEF StateEventsTruthful
  <2>1. out = <<>>
    BY DEF WorkerInv, LifecycleShape
  <2>2. Reports(IF initialized THEN SettledState ELSE "Error")
    BY DEF WorkerInv, ReportShape
  <2>. QED BY <2>1, <2>2, ReportRules DEF Reports
<1>. QED BY <1>1, WorkerInvariant, PTL

(* The thread leaves a closed backend and a last Stopped event.            *)
THEOREM WorkerEndsClosed == Spec => []EndsClosed
<1>1. WorkerInv => EndsClosed
  BY DEF WorkerInv, EndsClosed, LifecycleShape, ReportShape, TypeOK
<1>. QED BY <1>1, WorkerInvariant, PTL

(* The same of the sends: each is in one place until it has one outcome.   *)
LEMMA OutcomeInit == Init => OutcomeInv
BY DEF Init, OutcomeInv, QueuedOnce, HandledOnce, EndedOnce, StopShape, NoSendForgotten,
       OneOutcome, LossIsReported, sending

LEMMA OutcomeNext == WorkerInv /\ OutcomeInv /\ [Next]_vars => OutcomeInv'
<1>. SUFFICES ASSUME TypeOK, Shape, OutcomeInv, [Next]_vars
              PROVE  OutcomeInv'
  BY DEF WorkerInv, Shape
<1>1. CASE Push BY <1>1, PushOutcome
<1>2. CASE UiStep BY <1>2, UiOutcome
<1>3. CASE Initialize BY <1>3, InitializeOutcome
<1>4. CASE Dequeue BY <1>4, DequeueOutcome
<1>5. CASE LoopTop \/ SetReceive \/ FailClose \/ Wait \/ SpuriousWakeup
  BY <1>5, LoopOutcome
<1>6. CASE Receive BY <1>6, ReceiveOutcome
<1>7. CASE Send BY <1>7, SendOutcome
<1>8. CASE Shutdown BY <1>8, ShutdownOutcome
<1>9. CASE UNCHANGED vars
  BY <1>9 DEF vars, OutcomeInv, QueuedOnce, HandledOnce, EndedOnce, StopShape, NoSendForgotten,
              OneOutcome, LossIsReported, sending
<1>. QED BY <1>1, <1>2, <1>3, <1>4, <1>5, <1>6, <1>7, <1>8, <1>9 DEF Next, WorkerStep

(* The strengthening of the invariants about outcomes is inductive on top  *)
(* of WorkerInv.                                                           *)
THEOREM OutcomeInvariant == Spec => []OutcomeInv
<1>1. Spec => []WorkerInv
  BY WorkerInvariant
<1>. QED BY <1>1, OutcomeInit, OutcomeNext, PTL DEF Spec

(* Until a stop is requested an accepted send is queued, being handled or  *)
(* about to get its outcome: no handler of radio_worker.cpp drops one.     *)
THEOREM SendsAreNeverForgotten == Spec => []NoSendForgotten
<1>1. OutcomeInv => NoSendForgotten
  BY DEF OutcomeInv
<1>. QED BY <1>1, OutcomeInvariant, PTL

(* No send has two outcomes, though its own end, its exception handler and *)
(* the refusal of an uninitialized radio can each give it one.             *)
THEOREM SendsHaveOneOutcome == Spec => []OneOutcome
<1>1. OutcomeInv => OneOutcome
  BY DEF OutcomeInv
<1>. QED BY <1>1, OutcomeInvariant, PTL

(* An outcome that pushEvent() evicted has left an overflow notice, due or *)
(* popped.                                                                 *)
THEOREM LossesAreReported == Spec => []LossIsReported
<1>1. OutcomeInv => LossIsReported
  BY DEF OutcomeInv
<1>. QED BY <1>1, OutcomeInvariant, PTL
=============================================================================
