--------------------------- MODULE ChatLinkProofs ---------------------------
(***************************************************************************)
(* Theorems about ChatLink, for every set of radios and every value of the *)
(* constants: its types, and that it implements ChatDelivery where tokens  *)
(* are apart and the receivers' windows suffice.                           *)
(***************************************************************************)
EXTENDS ChatLink, FiniteSetTheorems, SequenceTheorems, TLAPS

(* What one radio does in a step.                                          *)
NodeStep(n) == Step(n) \/ Begin(n) \/ RadioFails(n) \/ Retry(n) \/ Restart(n)

LEMMA StepOfANode == Next => \E n \in Nodes : NodeStep(n) /\ UNCHANGED air
BY DEF Next, NodeStep

-----------------------------------------------------------------------------
(* The data.                                                               *)

(* A message is the sender's name and a number.                            *)
LEMMA MessageShape ==
  /\ \A m \in Messages : /\ m = <<m[1], m[2]>> /\ m[1] \in Nodes
                         /\ m[2] \in Nat /\ 1 <= m[2] /\ m[2] <= MessagesOf[m[1]]
  /\ \A n \in Nodes, i \in Nat :
       1 <= i /\ i <= MessagesOf[n] => <<n, i>> \in Messages
<1>1. ASSUME NEW m \in Messages
      PROVE  /\ m = <<m[1], m[2]>> /\ m[1] \in Nodes
             /\ m[2] \in Nat /\ 1 <= m[2] /\ m[2] <= MessagesOf[m[1]]
  <2>1. PICK n \in Nodes : m \in {n} \X (1..MessagesOf[n])
    BY <1>1 DEF Messages
  <2>2. MessagesOf[n] \in Nat
    BY LinkConstants
  <2> QED BY <2>1, <2>2
<1>2. ASSUME NEW n \in Nodes, NEW i \in Nat, 1 <= i, i <= MessagesOf[n]
      PROVE  <<n, i>> \in Messages
  <2>1. MessagesOf[n] \in Nat
    BY LinkConstants
  <2>2. <<n, i>> \in {n} \X (1..MessagesOf[n])
    BY <1>2, <2>1
  <2> QED BY <2>2 DEF Messages
<1> QED BY <1>1, <1>2

(* The frames of a message and of an acknowledgement.                      *)
LEMMA FrameShape ==
  /\ \A t \in Tokens, m \in Messages : Data(t, m) \in Frames
  /\ \A t \in Tokens : Ack(t) \in Frames
  /\ \A f \in Frames :
       /\ f.kind \in {"data", "ack"} /\ f.token \in Tokens
       /\ f.kind = "data" => f.msg \in Messages
BY DEF Frames, Data, Ack

(* The next token is a token.                                              *)
LEMMA NextTokenIsToken == \A t \in Tokens : NextToken(t) \in Tokens
BY LinkConstants DEF Tokens, NextToken

(* Zero is not a token.                                                    *)
LEMMA ZeroIsNoToken == 0 \notin Tokens
BY DEF Tokens

(* What counts as lost: what is flushed, missed or overflows.              *)
LEMMA LostCounts ==
  ASSUME TypeOK, NEW n \in Nodes, NEW S \in SUBSET (Nodes \ {n})
  PROVE  /\ LostWith(n, S) \in Nat
         /\ rx[n] # <<>> => LostWith(n, S) >= 1
         /\ \A k \in Nodes \ {n} :
              k \notin S \/ Len(rx[k]) = FifoFrames => LostWith(n, S) >= 1
<1> DEFINE full == {k \in S : Len(rx[k]) = FifoFrames}
           missed == Nodes \ S
<1>1. IsFiniteSet(Nodes) /\ FifoFrames \in Nat /\ rx[n] \in Seq(Frames)
  BY LinkConstants DEF TypeOK
<1>2. IsFiniteSet(full) /\ IsFiniteSet(missed) /\ n \in missed
  <2>1. full \subseteq Nodes /\ missed \subseteq Nodes
    OBVIOUS
  <2> QED BY <1>1, <2>1, FS_Subset
<1>3. LostWith(n, S) = Cardinality(missed) - 1 + Len(rx[n]) + Cardinality(full) * (FifoFrames + 1)
  BY DEF LostWith
<1>4. \A k \in Nodes \ {n} : k \notin S => k \in missed
  OBVIOUS
<1>5. \A k \in Nodes \ {n} : k \in S /\ Len(rx[k]) = FifoFrames => k \in full
  OBVIOUS
<1> HIDE DEF full, missed
<1>6. Cardinality(missed) \in Nat /\ Cardinality(missed) >= 1 /\ Cardinality(full) \in Nat
  <2>1. Cardinality(missed) \in Nat /\ Cardinality(missed) # 0 /\ Cardinality(full) \in Nat
    BY <1>2, FS_CardinalityType, FS_EmptySet
  <2> QED BY <2>1
<1>7. Cardinality(full) * (FifoFrames + 1) \in Nat
  BY <1>1, <1>6
<1>8. rx[n] # <<>> => Len(rx[n]) >= 1
  BY <1>1
<1>9. ASSUME NEW k \in Nodes \ {n}, k \in missed PROVE Cardinality(missed) >= 2
  <2>1. IsFiniteSet({n}) /\ Cardinality({n}) = 1 /\ k \notin {n}
    BY FS_Singleton
  <2>2. IsFiniteSet({n} \cup {k}) /\ Cardinality({n} \cup {k}) = 2
    BY <2>1, FS_AddElement
  <2>3. {n} \cup {k} \subseteq missed
    BY <1>2, <1>9
  <2> QED BY <1>2, <1>6, <2>2, <2>3, FS_Subset
<1>10. ASSUME NEW k \in full PROVE Cardinality(full) * (FifoFrames + 1) >= 1
  <2>1. Cardinality(full) >= 1
    <3>1. Cardinality(full) # 0
      BY <1>2, FS_EmptySet
    <3> QED BY <1>6, <3>1
  <2> QED BY <1>1, <1>6, <2>1
<1>11. Len(rx[n]) \in Nat
  BY <1>1
<1>12. LostWith(n, S) \in Nat /\ (rx[n] # <<>> => LostWith(n, S) >= 1)
  BY <1>3, <1>6, <1>7, <1>8, <1>11
<1>13. ASSUME NEW k \in Nodes \ {n}, k \notin S \/ Len(rx[k]) = FifoFrames
       PROVE  LostWith(n, S) >= 1
  <2>1. CASE k \notin S
    BY <1>3, <1>4, <1>6, <1>7, <1>9, <1>11, <2>1
  <2>2. CASE k \in S
    <3>1. Cardinality(full) * (FifoFrames + 1) >= 1
      BY <1>5, <1>10, <1>13, <2>2
    <3> QED BY <1>3, <1>6, <1>7, <1>11, <3>1
  <2> QED BY <2>1, <2>2
<1> QED BY <1>12, <1>13

-----------------------------------------------------------------------------
(* Types.                                                                  *)

(* Where a node is and what it has in hand; what became of each message.   *)
LinkShape ==
  /\ \A n \in Nodes :
       /\ pc[n] \in {"send", "wait"} => cur[n] # None
       /\ pc[n] \in {"poll", "down"} => cur[n] = None
       /\ pc[n] = "ack" => ackToken[n] \in Tokens
       /\ cur[n] # None => cur[n] = <<n, sent[n]>> /\ token[n] \in Tokens
  /\ \A m \in Messages :
       /\ outcome[m] = "new" <=> sent[m[1]] < m[2]
       /\ outcome[m] = "sending" <=> cur[m[1]] = m

(* A frame goes to some radios, and clears the FIFO of others.             *)
LEMMA BroadcastSpreads ==
  ASSUME TypeOK, NEW n \in Nodes, NEW f \in Frames, Broadcast(n, f)
  PROVE  /\ rx' \in [Nodes -> Seq(Frames)]
         /\ \A k \in Nodes : Len(rx'[k]) <= FifoFrames
         /\ losses' \in 0..(MaxAttempts - 1)
         /\ \A k \in Nodes : \/ rx'[k] \in {<<>>, rx[k]}
                             \/ k # n /\ rx'[k] = Append(rx[k], f)
<1>1. PICK S \in SUBSET {k \in Nodes \ {n} : Listening(k)} :
        /\ rx' = [k \in Nodes |-> IF k = n THEN <<>>
                                  ELSE IF k \in S THEN Heard(rx[k], f) ELSE rx[k]]
        /\ IF air = "rough"
           THEN UNCHANGED losses
           ELSE losses + LostWith(n, S) < MaxAttempts /\ losses' = losses + LostWith(n, S)
  BY DEF Broadcast
<1>2. /\ rx \in [Nodes -> Seq(Frames)] /\ \A k \in Nodes : Len(rx[k]) <= FifoFrames
      /\ FifoFrames \in Nat
  BY LinkConstants DEF TypeOK
<1>3. ASSUME NEW k \in Nodes
      PROVE  /\ rx'[k] \in Seq(Frames) /\ Len(rx'[k]) <= FifoFrames
             /\ \/ rx'[k] \in {<<>>, rx[k]}
                \/ k # n /\ rx'[k] = Append(rx[k], f)
  <2>1. rx[k] \in Seq(Frames) /\ Len(rx[k]) <= FifoFrames /\ Len(rx[k]) \in Nat
    BY <1>2
  <2>2. /\ <<>> \in Seq(Frames) /\ Len(<<>>) = 0
        /\ Append(rx[k], f) \in Seq(Frames) /\ Len(Append(rx[k], f)) = Len(rx[k]) + 1
    BY <2>1
  <2>3. CASE rx'[k] = <<>>
    BY <2>3, <2>2, <1>2
  <2>4. CASE rx'[k] = rx[k]
    BY <2>4, <2>1
  <2>5. CASE k # n /\ rx'[k] = Append(rx[k], f) /\ Len(rx[k]) < FifoFrames
    BY <2>5, <2>1, <2>2, <1>2
  <2> QED BY <1>1, <2>3, <2>4, <2>5 DEF Heard
<1>4. losses' \in 0..(MaxAttempts - 1)
  <2>1. LostWith(n, S) \in Nat
    BY LostCounts
  <2>2. losses \in 0..(MaxAttempts - 1) /\ MaxAttempts \in Nat
    BY LinkConstants DEF TypeOK
  <2> QED BY <1>1, <2>1, <2>2
<1>5. rx' \in [Nodes -> Seq(Frames)]
  BY <1>1, <1>3
<1> QED BY <1>3, <1>4, <1>5

(* What a step of n can do to the FIFO of k: clear it, drain its head, or  *)
(* add the frame that n has to send.                                       *)
Sends(n, f) == \/ pc[n] = "send" /\ f = Data(token[n], cur[n])
               \/ pc[n] = "ack" /\ f = Ack(ackToken[n])

FifoMoves(n, k) ==
  \/ rx'[k] \in {<<>>, rx[k]}
  \/ rx[k] # <<>> /\ rx'[k] = Tail(rx[k])
  \/ k # n /\ \E f \in Frames : Sends(n, f) /\ rx'[k] = Append(rx[k], f)

LEMMA FifosMove ==
  ASSUME TypeOK, LinkShape, NEW n \in Nodes, NodeStep(n)
  PROVE  /\ rx' \in [Nodes -> Seq(Frames)]
         /\ \A k \in Nodes : Len(rx'[k]) <= FifoFrames
         /\ losses' \in 0..(MaxAttempts - 1)
         /\ \A k \in Nodes : FifoMoves(n, k)
<1> DEFINE Goal == /\ rx' \in [Nodes -> Seq(Frames)]
                   /\ \A k \in Nodes : Len(rx'[k]) <= FifoFrames
                   /\ losses' \in 0..(MaxAttempts - 1)
                   /\ \A k \in Nodes : FifoMoves(n, k)
<1>0. /\ rx \in [Nodes -> Seq(Frames)] /\ \A k \in Nodes : Len(rx[k]) <= FifoFrames
      /\ FifoFrames \in Nat /\ losses \in 0..(MaxAttempts - 1)
  BY LinkConstants DEF TypeOK
<1>1. ASSUME losses' = losses, rx' = rx \/ rx' = [rx EXCEPT ![n] = <<>>]
      PROVE  Goal
  <2>1. \A k \in Nodes : rx'[k] \in {<<>>, rx[k]}
    BY <1>0, <1>1
  <2>2. <<>> \in Seq(Frames) /\ Len(<<>>) <= FifoFrames
    BY <1>0
  <2>3. rx' \in [Nodes -> Seq(Frames)] /\ \A k \in Nodes : Len(rx'[k]) <= FifoFrames
    BY <1>0, <1>1, <2>1, <2>2
  <2> QED BY <1>0, <1>1, <2>1, <2>3 DEF FifoMoves
<1>2. ASSUME losses' = losses, rx[n] # <<>>, rx' = [rx EXCEPT ![n] = Tail(@)]
      PROVE  Goal
  <2>1. Tail(rx[n]) \in Seq(Frames) /\ Len(Tail(rx[n])) <= FifoFrames
    BY <1>0, <1>2
  <2>2. \A k \in Nodes : rx'[k] = IF k = n THEN Tail(rx[n]) ELSE rx[k]
    BY <1>0, <1>2
  <2>3. rx' \in [Nodes -> Seq(Frames)] /\ \A k \in Nodes : Len(rx'[k]) <= FifoFrames
    BY <1>0, <1>2, <2>1, <2>2
  <2>4. \A k \in Nodes : FifoMoves(n, k)
    BY <1>2, <2>2 DEF FifoMoves
  <2> QED BY <1>0, <1>2, <2>3, <2>4
<1>3. ASSUME NEW f \in Frames, Sends(n, f), Broadcast(n, f)
      PROVE  Goal
  BY <1>3, BroadcastSpreads DEF FifoMoves
<1>4. CASE Begin(n)
  BY <1>4, <1>1 DEF Begin
<1>5. CASE Transmit(n)
  <2>1. Data(token[n], cur[n]) \in Frames
    BY <1>5, FrameShape DEF Transmit, LinkShape, TypeOK
  <2> QED BY <1>3, <1>5, <2>1 DEF Transmit, Sends
<1>6. CASE Timeout(n)
  BY <1>6, <1>1 DEF Timeout
<1>7. CASE ReceiveData(n)
  BY <1>7, <1>2 DEF ReceiveData, Drains
<1>8. CASE ReceiveAck(n)
  BY <1>8, <1>2 DEF ReceiveAck, Drains
<1>9. CASE Acknowledge(n)
  <2>1. Ack(ackToken[n]) \in Frames
    BY <1>9, FrameShape DEF Acknowledge, LinkShape
  <2> QED BY <1>3, <1>9, <2>1 DEF Acknowledge, Sends
<1>10. CASE RadioFails(n)
  BY <1>10, <1>1 DEF RadioFails
<1>11. CASE Retry(n)
  BY <1>11, <1>1 DEF Retry
<1>12. CASE Restart(n)
  BY <1>12, <1>1 DEF Restart
<1> QED BY <1>4, <1>5, <1>6, <1>7, <1>8, <1>9, <1>10, <1>11, <1>12 DEF NodeStep, Step

(* The head of a FIFO that is drained is a frame.                          *)
LEMMA DrainedFrame ==
  ASSUME TypeOK, NEW n \in Nodes, NEW kind, Drains(n, kind)
  PROVE  /\ Head(rx[n]) \in Frames /\ Head(rx[n]).kind = kind
         /\ Len(rx[n]) \in Nat /\ 1 <= Len(rx[n]) /\ Head(rx[n]) = rx[n][1]
BY DEF Drains, TypeOK

(* What a step of n does to its own place, session, tokens and attempts.   *)
LEMMA NodeEffects ==
  ASSUME NEW n \in Nodes, NodeStep(n)
  PROVE  /\ \/ pc' = pc
            \/ \E p \in {"poll", "send", "wait", "ack", "down"} : pc' = [pc EXCEPT ![n] = p]
         /\ \/ session' = session
            \/ session[n] < Len(StartTokens[n]) /\ session' = [session EXCEPT ![n] = @ + 1]
         /\ \/ next' = next
            \/ next' = [next EXCEPT ![n] = NextToken(@)]
            \/ /\ session[n] < Len(StartTokens[n])
               /\ \E t \in StartTokens[n][session[n] + 1] : next' = [next EXCEPT ![n] = t]
         /\ \/ sent' = sent
            \/ sent[n] < MessagesOf[n] /\ sent' = [sent EXCEPT ![n] = @ + 1]
         /\ token' = token \/ token' = [token EXCEPT ![n] = next[n]]
         /\ \/ attempt' = attempt
            \/ \E a \in {0, 1} : attempt' = [attempt EXCEPT ![n] = a]
            \/ attempt[n] < MaxAttempts /\ attempt' = [attempt EXCEPT ![n] = @ + 1]
         /\ \/ ackToken' = ackToken
            \/ ackToken' = [ackToken EXCEPT ![n] = 0]
            \/ ReceiveData(n) /\ ackToken' = [ackToken EXCEPT ![n] = Head(rx[n]).token]
<1>1. CASE Begin(n)
  BY <1>1 DEF Begin
<1>2. CASE Transmit(n)
  BY <1>2 DEF Transmit, sendVars
<1>3. CASE Timeout(n)
  BY <1>3 DEF Timeout, Concluded
<1>4. CASE ReceiveData(n)
  BY <1>4 DEF ReceiveData, sendVars
<1>5. CASE ReceiveAck(n)
  BY <1>5 DEF ReceiveAck, Concluded
<1>6. CASE Acknowledge(n)
  BY <1>6 DEF Acknowledge, sendVars
<1>7. CASE RadioFails(n)
  BY <1>7 DEF RadioFails, Concluded
<1>8. CASE Retry(n)
  BY <1>8 DEF Retry, sendVars
<1>9. CASE Restart(n)
  BY <1>9 DEF Restart
<1> QED BY <1>1, <1>2, <1>3, <1>4, <1>5, <1>6, <1>7, <1>8, <1>9 DEF NodeStep, Step

(* The types of everything but the FIFOs.                                  *)
LEMMA NodesKeepTypes ==
  ASSUME TypeOK, NEW n \in Nodes, NodeStep(n)
  PROVE  /\ pc' \in [Nodes -> {"poll", "send", "wait", "ack", "down"}]
         /\ session' \in [Nodes -> Nat \ {0}]
         /\ \A k \in Nodes : session'[k] <= Len(StartTokens[k])
         /\ next' \in [Nodes -> Tokens]
         /\ sent' \in [Nodes -> Nat] /\ \A k \in Nodes : sent'[k] <= MessagesOf[k]
         /\ token' \in [Nodes -> Tokens \cup {0}]
         /\ attempt' \in [Nodes -> 0..MaxAttempts]
         /\ ackToken' \in [Nodes -> Tokens \cup {0}]
<1>0. /\ pc \in [Nodes -> {"poll", "send", "wait", "ack", "down"}]
      /\ session \in [Nodes -> Nat \ {0}] /\ next \in [Nodes -> Tokens]
      /\ sent \in [Nodes -> Nat] /\ token \in [Nodes -> Tokens \cup {0}]
      /\ attempt \in [Nodes -> 0..MaxAttempts] /\ ackToken \in [Nodes -> Tokens \cup {0}]
      /\ \A k \in Nodes : session[k] <= Len(StartTokens[k])
      /\ \A k \in Nodes : sent[k] <= MessagesOf[k]
  BY DEF TypeOK
<1>1. pc' \in [Nodes -> {"poll", "send", "wait", "ack", "down"}]
  BY <1>0, NodeEffects
<1>2. /\ session' \in [Nodes -> Nat \ {0}]
      /\ \A k \in Nodes : session'[k] <= Len(StartTokens[k])
  <2>1. \A k \in Nodes : Len(StartTokens[k]) \in Nat
    BY LinkConstants
  <2>2. \/ session' = session
        \/ session[n] < Len(StartTokens[n]) /\ session' = [session EXCEPT ![n] = @ + 1]
    BY NodeEffects
  <2>3. /\ session \in [Nodes -> Nat \ {0}]
        /\ \A k \in Nodes : session[k] <= Len(StartTokens[k])
    BY <1>0
  <2>4. CASE session' = session
    BY <2>3, <2>4
  <2>5. CASE session[n] < Len(StartTokens[n]) /\ session' = [session EXCEPT ![n] = @ + 1]
    <3>1. session[n] + 1 \in Nat \ {0} /\ session[n] + 1 <= Len(StartTokens[n])
      BY <2>1, <2>3, <2>5
    <3>2. session' \in [Nodes -> Nat \ {0}]
      BY <2>3, <2>5, <3>1
    <3>3. \A k \in Nodes : session'[k] = IF k = n THEN session[n] + 1 ELSE session[k]
      BY <2>3, <2>5
    <3> QED BY <2>3, <3>1, <3>2, <3>3
  <2> QED BY <2>2, <2>4, <2>5
<1>3. next' \in [Nodes -> Tokens]
  <2>1. ASSUME session[n] < Len(StartTokens[n]), NEW t \in StartTokens[n][session[n] + 1]
        PROVE  t \in Tokens
    <3>1. StartTokens[n] \in Seq(SUBSET Tokens) /\ session[n] \in Nat
      BY <1>0, LinkConstants
    <3>2. StartTokens[n][session[n] + 1] \in SUBSET Tokens
      BY <2>1, <3>1
    <3> QED BY <3>2
  <2>2. NextToken(next[n]) \in Tokens
    BY <1>0, NextTokenIsToken
  <2>3. next' = next \/ \E t \in Tokens : next' = [next EXCEPT ![n] = t]
    BY <2>1, <2>2, NodeEffects
  <2> QED BY <1>0, <2>3
<1>4. sent' \in [Nodes -> Nat] /\ \A k \in Nodes : sent'[k] <= MessagesOf[k]
  <2>1. MessagesOf \in [Nodes -> Nat]
    BY LinkConstants
  <2>2. \/ sent' = sent
        \/ sent[n] < MessagesOf[n] /\ sent' = [sent EXCEPT ![n] = @ + 1]
    BY NodeEffects
  <2>3. sent \in [Nodes -> Nat] /\ \A k \in Nodes : sent[k] <= MessagesOf[k]
    BY <1>0
  <2>4. CASE sent' = sent
    BY <2>3, <2>4
  <2>5. CASE sent[n] < MessagesOf[n] /\ sent' = [sent EXCEPT ![n] = @ + 1]
    <3>1. sent[n] + 1 \in Nat /\ sent[n] + 1 <= MessagesOf[n]
      BY <2>1, <2>3, <2>5
    <3>2. sent' \in [Nodes -> Nat]
      BY <2>3, <2>5, <3>1
    <3>3. \A k \in Nodes : sent'[k] = IF k = n THEN sent[n] + 1 ELSE sent[k]
      BY <2>3, <2>5
    <3> QED BY <2>3, <3>1, <3>2, <3>3
  <2> QED BY <2>2, <2>4, <2>5
<1>5. token' \in [Nodes -> Tokens \cup {0}]
  <2>1. token \in [Nodes -> Tokens \cup {0}] /\ next[n] \in Tokens
    BY <1>0
  <2>2. token' = token \/ token' = [token EXCEPT ![n] = next[n]]
    BY NodeEffects
  <2> QED BY <2>1, <2>2
<1>6. attempt' \in [Nodes -> 0..MaxAttempts]
  <2>1. MaxAttempts \in Nat /\ 0 \in 0..MaxAttempts /\ 1 \in 0..MaxAttempts
    BY LinkConstants
  <2>2. attempt[n] \in Nat
    <3>1. attempt[n] \in 0..MaxAttempts
      BY <1>0
    <3> QED BY <3>1
  <2>3. attempt[n] < MaxAttempts => attempt[n] + 1 \in 0..MaxAttempts
    BY <2>1, <2>2
  <2>4. attempt' = attempt \/ \E a \in 0..MaxAttempts : attempt' = [attempt EXCEPT ![n] = a]
    BY <2>1, <2>3, NodeEffects
  <2> QED BY <1>0, <2>4
<1>7. ackToken' \in [Nodes -> Tokens \cup {0}]
  <2>1. ASSUME ReceiveData(n) PROVE Head(rx[n]).token \in Tokens
    BY <2>1, DrainedFrame, FrameShape DEF ReceiveData
  <2>2. ackToken' = ackToken \/ \E t \in Tokens \cup {0} : ackToken' = [ackToken EXCEPT ![n] = t]
    BY <2>1, NodeEffects
  <2> QED BY <1>0, <2>2
<1> QED BY <1>1, <1>2, <1>3, <1>4, <1>5, <1>6, <1>7

(* The message that comes next.                                            *)
LEMMA NextMessage ==
  ASSUME TypeOK, NEW n \in Nodes, sent[n] < MessagesOf[n]
  PROVE  <<n, sent[n] + 1>> \in Messages
<1>1. sent[n] \in Nat /\ MessagesOf[n] \in Nat
  BY LinkConstants DEF TypeOK
<1>2. sent[n] + 1 \in Nat /\ 1 <= sent[n] + 1 /\ sent[n] + 1 <= MessagesOf[n]
  BY <1>1
<1> QED BY <1>2, MessageShape

(* What a step of n does to its message, its window and what users see.    *)
LEMMA UserEffects ==
  ASSUME NEW n \in Nodes, NodeStep(n)
  PROVE  /\ \/ cur' = cur \/ cur' = [cur EXCEPT ![n] = None]
            \/ Begin(n) /\ cur' = [cur EXCEPT ![n] = <<n, sent[n] + 1>>]
         /\ \/ recent' = recent \/ recent' = [recent EXCEPT ![n] = <<>>]
            \/ /\ ReceiveData(n)
               /\ recent' = [recent EXCEPT ![n] = Remembered(@, Head(rx[n]).token)]
         /\ \/ outcome' = outcome
            \/ \E m, how : /\ how \in {"sending", "completed", "failed"}
                           /\ outcome' = [outcome EXCEPT ![m] = how]
            \/ outcome' = [m \in Messages |-> IF m = cur[n] THEN "abandoned" ELSE outcome[m]]
         /\ \/ shown' = shown
            \/ shown' = [m \in Messages |-> [shown[m] EXCEPT ![n] = 0]]
            \/ /\ ReceiveData(n)
               /\ shown' = [shown EXCEPT ![Head(rx[n]).msg][n] = IF @ = 2 THEN 2 ELSE @ + 1]
         /\ \/ reached' = reached
            \/ ReceiveData(n) /\ reached' = reached \cup {Head(rx[n]).msg}
<1>1. CASE Begin(n)
  BY <1>1 DEF Begin
<1>2. CASE Transmit(n)
  BY <1>2 DEF Transmit, sendVars, users
<1>3. CASE Timeout(n)
  BY <1>3 DEF Timeout, Concluded, users
<1>4. CASE ReceiveData(n)
  BY <1>4 DEF ReceiveData, sendVars
<1>5. CASE ReceiveAck(n)
  BY <1>5 DEF ReceiveAck, Concluded
<1>6. CASE Acknowledge(n)
  BY <1>6 DEF Acknowledge, sendVars, users
<1>7. CASE RadioFails(n)
  BY <1>7 DEF RadioFails, Concluded
<1>8. CASE Retry(n)
  BY <1>8 DEF Retry, sendVars, users
<1>9. CASE Restart(n)
  BY <1>9 DEF Restart
<1> QED BY <1>1, <1>2, <1>3, <1>4, <1>5, <1>6, <1>7, <1>8, <1>9 DEF NodeStep, Step

(* A window never outgrows its length.                                     *)
LEMMA WindowKeepsLength ==
  ASSUME NEW q \in Seq(Tokens), Len(q) <= TokenWindow, NEW t \in Tokens
  PROVE  Remembered(q, t) \in Seq(Tokens) /\ Len(Remembered(q, t)) <= TokenWindow
<1>1. Len(q) \in Nat /\ TokenWindow \in Nat \ {0}
  BY LinkConstants
<1>2. CASE Len(q) >= TokenWindow
  <2>1. Len(q) = TokenWindow /\ q # <<>>
    BY <1>1, <1>2
  <2>2. Tail(q) \in Seq(Tokens) /\ Len(Tail(q)) = TokenWindow - 1
    BY <2>1
  <2>3. Remembered(q, t) = Append(Tail(q), t)
    BY <1>2 DEF Remembered
  <2>4. Append(Tail(q), t) \in Seq(Tokens) /\ Len(Append(Tail(q), t)) = Len(Tail(q)) + 1
    BY <2>2
  <2> QED BY <1>1, <2>2, <2>3, <2>4
<1>3. CASE ~(Len(q) >= TokenWindow)
  <2>1. Remembered(q, t) = Append(q, t)
    BY <1>3 DEF Remembered
  <2>2. Append(q, t) \in Seq(Tokens) /\ Len(Append(q, t)) = Len(q) + 1
    OBVIOUS
  <2> QED BY <1>1, <1>3, <2>1, <2>2
<1> QED BY <1>2, <1>3

LEMMA UsersKeepTypes ==
  ASSUME TypeOK, NEW n \in Nodes, NodeStep(n)
  PROVE  /\ cur' \in [Nodes -> Messages \cup {None}]
         /\ recent' \in [Nodes -> Seq(Tokens)]
         /\ \A k \in Nodes : Len(recent'[k]) <= TokenWindow
         /\ outcome' \in [Messages -> {"new", "sending", "completed", "failed", "abandoned"}]
         /\ shown' \in [Messages -> [Nodes -> 0..2]]
         /\ reached' \subseteq Messages
<1>1. cur' \in [Nodes -> Messages \cup {None}]
  <2>1. ASSUME Begin(n) PROVE <<n, sent[n] + 1>> \in Messages
    BY <2>1, NextMessage DEF Begin
  <2>2. cur \in [Nodes -> Messages \cup {None}]
    BY DEF TypeOK
  <2>3. cur' = cur \/ \E m \in Messages \cup {None} : cur' = [cur EXCEPT ![n] = m]
    BY <2>1, UserEffects
  <2> QED BY <2>2, <2>3
<1>2. ASSUME ReceiveData(n)
      PROVE  Head(rx[n]).msg \in Messages /\ Head(rx[n]).token \in Tokens
  BY <1>2, DrainedFrame, FrameShape DEF ReceiveData
<1>3. /\ recent' \in [Nodes -> Seq(Tokens)]
      /\ \A k \in Nodes : Len(recent'[k]) <= TokenWindow
  <2>1. /\ recent \in [Nodes -> Seq(Tokens)] /\ TokenWindow \in Nat
        /\ \A k \in Nodes : Len(recent[k]) <= TokenWindow
    BY LinkConstants DEF TypeOK
  <2>2. <<>> \in Seq(Tokens) /\ Len(<<>>) <= TokenWindow
    BY <2>1
  <2>3. \A t \in Tokens : /\ Remembered(recent[n], t) \in Seq(Tokens)
                          /\ Len(Remembered(recent[n], t)) <= TokenWindow
    BY <2>1, WindowKeepsLength
  <2>4. \/ recent' = recent
        \/ \E q \in Seq(Tokens) : Len(q) <= TokenWindow /\ recent' = [recent EXCEPT ![n] = q]
    BY <1>2, <2>2, <2>3, UserEffects
  <2> QED BY <2>1, <2>4
<1>4. outcome' \in [Messages -> {"new", "sending", "completed", "failed", "abandoned"}]
  <2>1. outcome \in [Messages -> {"new", "sending", "completed", "failed", "abandoned"}]
    BY DEF TypeOK
  <2>2. \/ outcome' = outcome
        \/ \E m, how : /\ how \in {"sending", "completed", "failed"}
                       /\ outcome' = [outcome EXCEPT ![m] = how]
        \/ outcome' = [m \in Messages |-> IF m = cur[n] THEN "abandoned" ELSE outcome[m]]
    BY UserEffects
  <2> QED BY <2>1, <2>2
<1>5. shown' \in [Messages -> [Nodes -> 0..2]]
  <2>1. shown \in [Messages -> [Nodes -> 0..2]]
    BY DEF TypeOK
  <2>2. ASSUME NEW m \in Messages,
               shown' = [shown EXCEPT ![m][n] = IF @ = 2 THEN 2 ELSE @ + 1]
        PROVE  shown' \in [Messages -> [Nodes -> 0..2]]
    <3> DEFINE more == IF shown[m][n] = 2 THEN 2 ELSE shown[m][n] + 1
    <3>1. shown[m] \in [Nodes -> 0..2]
      BY <2>1
    <3>2. shown[m][n] \in 0..2
      BY <3>1
    <3>3. more \in 0..2
      BY <3>2
    <3>4. shown' = [shown EXCEPT ![m] = [shown[m] EXCEPT ![n] = more]]
      BY <2>1, <2>2
    <3> HIDE DEF more
    <3>5. [shown[m] EXCEPT ![n] = more] \in [Nodes -> 0..2]
      BY <3>1, <3>3
    <3> QED BY <2>1, <3>4, <3>5
  <2>3. CASE shown' = [m \in Messages |-> [shown[m] EXCEPT ![n] = 0]]
    <3>1. \A m \in Messages : [shown[m] EXCEPT ![n] = 0] \in [Nodes -> 0..2]
      BY <2>1
    <3> QED BY <2>3, <3>1
  <2>4. \/ shown' = shown
        \/ shown' = [m \in Messages |-> [shown[m] EXCEPT ![n] = 0]]
        \/ \E m \in Messages : shown' = [shown EXCEPT ![m][n] = IF @ = 2 THEN 2 ELSE @ + 1]
    BY <1>2, UserEffects
  <2> QED BY <2>1, <2>2, <2>3, <2>4
<1>6. reached' \subseteq Messages
  <2>1. reached \subseteq Messages
    BY DEF TypeOK
  <2>2. \/ reached' = reached
        \/ ReceiveData(n) /\ reached' = reached \cup {Head(rx[n]).msg}
    BY UserEffects
  <2>3. CASE reached' = reached
    BY <2>1, <2>3
  <2>4. CASE ReceiveData(n) /\ reached' = reached \cup {Head(rx[n]).msg}
    BY <1>2, <2>1, <2>4
  <2> QED BY <2>2, <2>3, <2>4
<1> QED BY <1>1, <1>3, <1>4, <1>5, <1>6

LEMMA LinkKeepsTypes ==
  ASSUME TypeOK, LinkShape, NEW n \in Nodes, NodeStep(n), UNCHANGED air
  PROVE  TypeOK'
BY NodesKeepTypes, UsersKeepTypes, FifosMove DEF TypeOK

(* The shape is kept: one step per action.                                 *)
LEMMA LinkKeepsShape ==
  ASSUME TypeOK, LinkShape, NEW n \in Nodes, NodeStep(n)
  PROVE  LinkShape'
<1>0. /\ pc \in [Nodes -> {"poll", "send", "wait", "ack", "down"}]
      /\ sent \in [Nodes -> Nat] /\ cur \in [Nodes -> Messages \cup {None}]
      /\ token \in [Nodes -> Tokens \cup {0}] /\ ackToken \in [Nodes -> Tokens \cup {0}]
      /\ outcome \in [Messages -> {"new", "sending", "completed", "failed", "abandoned"}]
      /\ next \in [Nodes -> Tokens] /\ None \notin Messages
  BY LinkConstants DEF TypeOK
<1>1. \A m \in Messages : m = <<m[1], m[2]>> /\ m[1] \in Nodes /\ m[2] \in Nat
  BY MessageShape
<1>2. cur[n] # None => cur[n] \in Messages /\ cur[n][1] = n
  BY <1>0 DEF LinkShape
<1>3. ASSUME NEW how \in {"completed", "failed"}, cur[n] # None, Concluded(n, how),
             sent' = sent, token' = token, ackToken' = ackToken \/ pc'[n] # "ack",
             \A k \in Nodes \ {n} : ackToken'[k] = ackToken[k],
             NEW p \in {"poll", "down"}, pc' = [pc EXCEPT ![n] = p]
      PROVE  LinkShape'
  BY <1>0, <1>1, <1>2, <1>3 DEF LinkShape, Concluded
<1>4. CASE Begin(n)
  <2> DEFINE new == <<n, sent[n] + 1>>
  <2>1. new \in Messages /\ new # None /\ new[1] = n /\ new[2] = sent[n] + 1
    BY <1>0, <1>4, NextMessage DEF Begin
  <2>2. /\ sent' = [sent EXCEPT ![n] = sent[n] + 1] /\ cur' = [cur EXCEPT ![n] = new]
        /\ outcome' = [outcome EXCEPT ![new] = "sending"]
        /\ token' = [token EXCEPT ![n] = next[n]] /\ pc' = [pc EXCEPT ![n] = "send"]
        /\ ackToken' = ackToken /\ cur[n] = None
    BY <1>4 DEF Begin, LinkShape
  <2> HIDE DEF new
  <2>3. ASSUME NEW k \in Nodes
        PROVE  /\ pc'[k] \in {"send", "wait"} => cur'[k] # None
               /\ pc'[k] \in {"poll", "down"} => cur'[k] = None
               /\ pc'[k] = "ack" => ackToken'[k] \in Tokens
               /\ cur'[k] # None => cur'[k] = <<k, sent'[k]>> /\ token'[k] \in Tokens
    <3>1. new = <<n, sent[n] + 1>>
      BY DEF new
    <3> QED BY <1>0, <2>1, <2>2, <3>1 DEF LinkShape
  <2>4. ASSUME NEW m \in Messages
        PROVE  /\ outcome'[m] = "new" <=> sent'[m[1]] < m[2]
               /\ outcome'[m] = "sending" <=> cur'[m[1]] = m
    <3>1. CASE m = new
      BY <1>0, <2>1, <2>2, <3>1
    <3>2. CASE m # new
      <4>1. m[1] = n => m[2] # sent[n] + 1
        BY <1>1, <3>2 DEF new
      <4>2. outcome'[m] = outcome[m]
        BY <1>0, <2>2, <3>2
      <4>3. outcome[m] = "new" <=> sent'[m[1]] < m[2]
        BY <1>0, <1>1, <2>2, <4>1 DEF LinkShape
      <4>4. outcome[m] = "sending" <=> cur'[m[1]] = m
        BY <1>0, <1>1, <2>1, <2>2, <3>2 DEF LinkShape
      <4> QED BY <4>2, <4>3, <4>4
    <3> QED BY <3>1, <3>2
  <2> QED BY <2>3, <2>4 DEF LinkShape
<1>5. CASE Transmit(n)
  BY <1>0, <1>5 DEF LinkShape, Transmit, sendVars, users
<1>6. CASE Timeout(n)
  <2>1. CASE attempt[n] < MaxAttempts
    BY <1>0, <1>6, <2>1 DEF LinkShape, Timeout, users
  <2>2. CASE ~(attempt[n] < MaxAttempts)
    BY <1>0, <1>3, <1>6, <2>2 DEF LinkShape, Timeout
  <2> QED BY <2>1, <2>2
<1>7. CASE ReceiveData(n)
  <2>1. Head(rx[n]).token \in Tokens
    BY <1>7, DrainedFrame, FrameShape DEF ReceiveData
  <2>2. pc[n] \in {"poll", "wait"}
    BY <1>7 DEF ReceiveData, Drains, Listening
  <2> QED BY <1>0, <1>7, <2>1, <2>2 DEF LinkShape, ReceiveData, sendVars
<1>8. CASE ReceiveAck(n)
  <2>1. CASE Expected(n, Head(rx[n]))
    BY <1>0, <1>3, <1>8, <2>1 DEF LinkShape, ReceiveAck, Expected
  <2>2. CASE ~Expected(n, Head(rx[n]))
    BY <1>0, <1>8, <2>2 DEF LinkShape, ReceiveAck
  <2> QED BY <2>1, <2>2
<1>9. CASE Acknowledge(n)
  BY <1>0, <1>9 DEF LinkShape, Acknowledge, sendVars, users
<1>10. CASE RadioFails(n)
  <2>1. CASE cur[n] = None
    BY <1>0, <1>10, <2>1 DEF LinkShape, RadioFails
  <2>2. CASE cur[n] # None
    <3>1. PICK p \in {"poll", "down"} : pc' = [pc EXCEPT ![n] = p]
      BY <1>10, <2>2 DEF RadioFails
    <3> QED BY <1>0, <1>3, <1>10, <2>2, <3>1 DEF RadioFails
  <2> QED BY <2>1, <2>2
<1>11. CASE Retry(n)
  BY <1>0, <1>11 DEF LinkShape, Retry, sendVars, users
<1>12. CASE Restart(n)
  BY <1>0, <1>1, <1>2, <1>12 DEF LinkShape, Restart
<1> QED BY <1>4, <1>5, <1>6, <1>7, <1>8, <1>9, <1>10, <1>11, <1>12 DEF NodeStep, Step

LEMMA LinkInitially == Init => TypeOK /\ LinkShape
<1> SUFFICES ASSUME Init PROVE TypeOK /\ LinkShape
  OBVIOUS
<1>1. /\ MaxAttempts \in Nat \ {0} /\ TokenWindow \in Nat /\ FifoFrames \in Nat
      /\ MessagesOf \in [Nodes -> Nat] /\ None \notin Messages
      /\ \A n \in Nodes : StartTokens[n] \in Seq(SUBSET Tokens) /\ StartTokens[n] # <<>>
      /\ air \in {"rough", "calm"}
  BY LinkConstants DEF Init
<1>2. \A n \in Nodes : Len(StartTokens[n]) \in Nat /\ 1 <= Len(StartTokens[n])
  BY <1>1
<1>3. <<>> \in Seq(Tokens) /\ <<>> \in Seq(Frames) /\ Len(<<>>) = 0
  OBVIOUS
<1>4. TypeOK
  <2>1. 0 \in 0..(MaxAttempts - 1) /\ 0 \in 0..MaxAttempts /\ 0 \in 0..2
    BY <1>1
  <2> QED BY <1>1, <1>2, <1>3, <2>1 DEF Init, TypeOK
<1>5. LinkShape
  BY <1>1, MessageShape DEF Init, LinkShape
<1> QED BY <1>4, <1>5

LEMMA TypesStutter ==
  ASSUME TypeOK, LinkShape, UNCHANGED vars
  PROVE  TypeOK' /\ LinkShape'
BY DEF TypeOK, LinkShape, vars, sendVars, users

(* Every node is where its send says: a message is under way exactly while *)
(* its sender holds it (radio_worker.cpp:345-410).                         *)
THEOREM LinkShapeHolds == Spec => [](TypeOK /\ LinkShape)
<1>1. Init => TypeOK /\ LinkShape
  BY LinkInitially
<1>2. TypeOK /\ LinkShape /\ [Next]_vars => (TypeOK /\ LinkShape)'
  BY StepOfANode, LinkKeepsTypes, LinkKeepsShape, TypesStutter
<1> QED BY <1>1, <1>2, PTL DEF Spec

(* The link is of its types: no FIFO and no window holds more than it has  *)
(* room for, and a token is never zero (radio_worker.cpp:484-505).         *)
THEOREM LinkTypeCorrect == Spec => []TypeOK
BY LinkShapeHolds, PTL

-----------------------------------------------------------------------------
(* What the frames, windows and acknowledgements say of the messages.      *)
(* Which token a message was sent with is not part of the state: the       *)
(* invariant speaks of some assignment tok of tokens to messages.          *)

Begun == {m \in Messages : m[2] <= sent[m[1]]}
ShownAt(n) == {m \in Messages : shown[m][n] # 0}

(* A frame carries the token of its message, which its sender has begun,   *)
(* and no radio hears itself.                                              *)
Carries(tok) ==
  /\ \A n \in Nodes : cur[n] # None => token[n] = tok[cur[n]]
  /\ \A n \in Nodes : \A i \in 1..Len(rx[n]) : rx[n][i].kind = "data" =>
       /\ rx[n][i].msg \in Begun \cap Others(n)
       /\ rx[n][i].token = tok[rx[n][i].msg]
  /\ \A n \in Nodes : ShownAt(n) \subseteq Begun \cap Others(n)
  /\ reached \subseteq Begun

(* What n hears of one sender comes in order, and the window ends with the *)
(* newest message shown.                                                   *)
InOrder(tok, n) ==
  /\ \A i, j \in 1..Len(rx[n]) :
       i <= j /\ rx[n][i].kind = "data" /\ rx[n][j].kind = "data"
         => rx[n][i].msg[2] <= rx[n][j].msg[2]
  /\ \A m \in ShownAt(n) : \A i \in 1..Len(rx[n]) :
       rx[n][i].kind = "data" => m[2] <= rx[n][i].msg[2]
  /\ \A m \in ShownAt(n) :
       (\A w \in ShownAt(n) : w[2] <= m[2])
         => recent[n] # <<>> /\ tok[m] = recent[n][Len(recent[n])]

(* Of few messages the window forgets none.                                *)
AllKept(tok, n) ==
  /\ Len(recent[n]) = Cardinality(ShownAt(n))
  /\ \A m \in ShownAt(n) : tok[m] \in Range(recent[n])

Window(tok) == \A n \in Nodes : /\ OneVoice(n) => InOrder(tok, n)
                                /\ FewMessages(n) => AllKept(tok, n)

(* A token that is remembered or acknowledged is that of a message that    *)
(* somebody was shown.                                                     *)
Known(tok, t) == \E m \in reached : tok[m] = t

Accounted(tok) ==
  /\ \A n \in Nodes : \A t \in Range(recent[n]) : Known(tok, t)
  /\ \A n \in Nodes : pc[n] = "ack" => Known(tok, ackToken[n])
  /\ \A n \in Nodes : \A i \in 1..Len(rx[n]) :
       rx[n][i].kind = "ack" => Known(tok, rx[n][i].token)

(* In its session n has begun the messages after its b-th with the tokens  *)
(* from t on, and the others in earlier sessions.                          *)
NumberedFrom(tok, n, t, b) ==
  /\ next[n] = TokenAfter(t, sent[n] - b)
  /\ \A i \in 1..sent[n] :
       IF i <= b THEN \E s \in 1..(session[n] - 1) : tok[<<n, i>>] \in TokensOf(n, s)
       ELSE tok[<<n, i>>] = TokenAfter(t, i - b - 1)
Numbered(tok, n) ==
  \E t \in StartTokens[n][session[n]], b \in 0..sent[n] : NumberedFrom(tok, n, t, b)

Distinct(tok) ==
  TokensApart => /\ \A m, w \in Begun : tok[m] = tok[w] => m = w
                 /\ \A n \in Nodes : Numbered(tok, n)

TokensTold(tok) == Carries(tok) /\ Window(tok) /\ Accounted(tok) /\ Distinct(tok)

LinkInv == /\ TypeOK /\ LinkShape
           /\ \E tok \in [Messages -> Tokens \cup {0}] : TokensTold(tok)

(* The next message is given the next token.                               *)
Foreseen(tok, n) == Begin(n) => tok[<<n, sent[n] + 1>>] = next[n]

(* What a step does to the send of n.                                      *)
LEMMA SendMoves ==
  ASSUME NEW n \in Nodes, NodeStep(n)
  PROVE  \/ UNCHANGED <<cur, token, sent>>
         \/ cur' = [cur EXCEPT ![n] = None] /\ UNCHANGED <<token, sent>>
         \/ Begin(n)
BY DEF NodeStep, Step, Transmit, Timeout, Concluded, ReceiveData,
       ReceiveAck, Acknowledge, RadioFails, Retry, Restart, sendVars, users

(* The message a sender begins.                                            *)
LEMMA BegunMoves ==
  ASSUME TypeOK, NEW n \in Nodes, NodeStep(n)
  PROVE  /\ Begun \subseteq Begun'
         /\ Begin(n) => Begun' = Begun \cup {<<n, sent[n] + 1>>}
         /\ ~Begin(n) => Begun' = Begun
<1>0. sent \in [Nodes -> Nat]
  BY DEF TypeOK
<1>1. ASSUME sent' = sent PROVE Begun' = Begun
  BY <1>1 DEF Begun
<1>2. ASSUME Begin(n) PROVE Begun' = Begun \cup {<<n, sent[n] + 1>>}
  <2>1. <<n, sent[n] + 1>> \in Messages
    BY <1>2, NextMessage DEF Begin
  <2>2. sent' = [sent EXCEPT ![n] = sent[n] + 1]
    BY <1>2 DEF Begin
  <2>3. ASSUME NEW m \in Messages
        PROVE  m \in Begun' <=> (m \in Begun \/ m = <<n, sent[n] + 1>>)
    <3>1. m = <<m[1], m[2]>> /\ m[1] \in Nodes /\ m[2] \in Nat
      BY MessageShape
    <3>2. (m[2] <= sent'[m[1]]) <=> (m[2] <= sent[m[1]] \/ m = <<n, sent[n] + 1>>)
      <4>1. CASE m[1] = n
        <5>1. sent'[n] = sent[n] + 1 /\ sent[n] \in Nat
          BY <1>0, <2>2
        <5>2. (m = <<n, sent[n] + 1>>) <=> (m[2] = sent[n] + 1)
          BY <3>1, <4>1
        <5> QED BY <3>1, <4>1, <5>1, <5>2
      <4>2. CASE m[1] # n
        <5>1. sent'[m[1]] = sent[m[1]] /\ m # <<n, sent[n] + 1>>
          BY <1>0, <2>2, <3>1, <4>2
        <5> QED BY <5>1
      <4> QED BY <4>1, <4>2
    <3> QED BY <3>1, <3>2 DEF Begun
  <2> QED BY <2>1, <2>3 DEF Begun
<1> QED BY <1>1, <1>2, SendMoves

(* Where a frame in the FIFO of k comes from.                              *)
LEMMA FramesFrom ==
  ASSUME TypeOK, LinkShape, NEW n \in Nodes, NodeStep(n),
         NEW k \in Nodes, NEW i \in 1..Len(rx'[k])
  PROVE  \/ \E j \in 1..Len(rx[k]) : rx'[k][i] = rx[k][j]
         \/ k # n /\ rx'[k][i] \in Frames /\ Sends(n, rx'[k][i])
<1>0. rx[k] \in Seq(Frames) /\ FifoMoves(n, k)
  BY FifosMove DEF TypeOK
<1>1. CASE rx'[k] = <<>>
  BY <1>1
<1>2. CASE rx'[k] = rx[k]
  BY <1>2
<1>3. CASE rx[k] # <<>> /\ rx'[k] = Tail(rx[k])
  <2>1. i \in Nat /\ i + 1 \in 1..Len(rx[k]) /\ rx'[k][i] = rx[k][i + 1]
    BY <1>0, <1>3
  <2> QED BY <2>1
<1>4. ASSUME k # n, NEW f \in Frames, Sends(n, f), rx'[k] = Append(rx[k], f)
      PROVE  \/ \E j \in 1..Len(rx[k]) : rx'[k][i] = rx[k][j]
             \/ rx'[k][i] \in Frames /\ Sends(n, rx'[k][i])
  <2>1. \/ i \in 1..Len(rx[k]) /\ rx'[k][i] = rx[k][i]
        \/ rx'[k][i] = f
    BY <1>0, <1>4
  <2> QED BY <1>4, <2>1
<1> QED BY <1>0, <1>1, <1>2, <1>3, <1>4 DEF FifoMoves

(* A message of another node that n has not remembered is shown.           *)
Shows(n) ==
  /\ Drains(n, "data") /\ Head(rx[n]).token \notin Range(recent[n])
  /\ recent' = [recent EXCEPT ![n] = Remembered(@, Head(rx[n]).token)]
  /\ reached' = reached \cup {Head(rx[n]).msg}

(* What a step of n does to what n has shown and remembers.                *)
LEMMA ShownMoves ==
  ASSUME TypeOK, NEW n \in Nodes, NodeStep(n)
  PROVE  /\ \A k \in Nodes \ {n} : ShownAt(k)' = ShownAt(k) /\ recent'[k] = recent[k]
         /\ \/ /\ ShownAt(n)' = ShownAt(n) /\ recent'[n] = recent[n]
               /\ UNCHANGED <<shown, recent, reached>>
            \/ /\ ShownAt(n)' = {} /\ recent'[n] = <<>> /\ rx'[n] = <<>>
               /\ reached' = reached /\ Restart(n)
            \/ /\ Shows(n) /\ ReceiveData(n)
               /\ ShownAt(n)' = ShownAt(n) \cup {Head(rx[n]).msg}
<1>0. /\ shown \in [Messages -> [Nodes -> 0..2]] /\ recent \in [Nodes -> Seq(Tokens)]
      /\ rx \in [Nodes -> Seq(Frames)]
  BY DEF TypeOK
<1>1. CASE UNCHANGED <<shown, recent, reached>>
  BY <1>1 DEF ShownAt
<1>2. CASE Restart(n)
  <2>1. /\ shown' = [m \in Messages |-> [shown[m] EXCEPT ![n] = 0]]
        /\ recent' = [recent EXCEPT ![n] = <<>>] /\ rx' = [rx EXCEPT ![n] = <<>>]
        /\ reached' = reached
    BY <1>2 DEF Restart
  <2>2. \A m \in Messages, k \in Nodes :
          shown'[m][k] = IF k = n THEN 0 ELSE shown[m][k]
    BY <1>0, <2>1
  <2> QED BY <1>0, <1>2, <2>1, <2>2 DEF ShownAt
<1>3. CASE ReceiveData(n) /\ Head(rx[n]).token \notin Range(recent[n])
  <2> DEFINE msg == Head(rx[n]).msg
             more == IF shown[msg][n] = 2 THEN 2 ELSE shown[msg][n] + 1
  <2>1. Shows(n)
    BY <1>3 DEF ReceiveData, Shows
  <2>2. msg \in Messages
    BY <1>3, DrainedFrame, FrameShape DEF ReceiveData
  <2>3. shown' = [shown EXCEPT ![msg][n] = IF @ = 2 THEN 2 ELSE @ + 1]
    BY <1>3 DEF ReceiveData
  <2>4. more \in 0..2 /\ more # 0
    <3>1. shown[msg] \in [Nodes -> 0..2]
      BY <1>0, <2>2
    <3>2. shown[msg][n] \in 0..2
      BY <3>1
    <3> QED BY <3>2
  <2>5. \A m \in Messages, k \in Nodes :
          shown'[m][k] = IF m = msg /\ k = n THEN more ELSE shown[m][k]
    BY <1>0, <2>2, <2>3
  <2> HIDE DEF msg, more
  <2>6. ShownAt(n)' = ShownAt(n) \cup {msg}
    BY <2>2, <2>4, <2>5 DEF ShownAt
  <2>7. \A k \in Nodes \ {n} : ShownAt(k)' = ShownAt(k) /\ recent'[k] = recent[k]
    BY <1>0, <2>1, <2>5 DEF ShownAt, Shows
  <2> QED BY <1>3, <2>1, <2>6, <2>7 DEF msg
<1>4. \/ UNCHANGED <<shown, recent, reached>> \/ Restart(n)
      \/ ReceiveData(n) /\ Head(rx[n]).token \notin Range(recent[n])
  BY DEF NodeStep, Step, Begin, Transmit, Timeout, Concluded, ReceiveData,
         ReceiveAck, Acknowledge, RadioFails, Retry, users
<1> QED BY <1>1, <1>2, <1>3, <1>4

(* Frames keep the tokens of their messages.                               *)
LEMMA CarriesKept ==
  ASSUME TypeOK, LinkShape, NEW tok, Carries(tok),
         NEW n \in Nodes, NodeStep(n), Foreseen(tok, n)
  PROVE  Carries(tok)'
<1>0. /\ cur \in [Nodes -> Messages \cup {None}] /\ token \in [Nodes -> Tokens \cup {0}]
      /\ rx \in [Nodes -> Seq(Frames)] /\ next \in [Nodes -> Tokens]
      /\ sent \in [Nodes -> Nat]
  BY DEF TypeOK
<1>1. Begun \subseteq Begun'
  BY BegunMoves
<1>2. \A k \in Nodes : cur'[k] # None => token'[k] = tok[cur'[k]]
  <2>1. CASE UNCHANGED <<cur, token, sent>>
    BY <2>1 DEF Carries
  <2>2. CASE cur' = [cur EXCEPT ![n] = None] /\ UNCHANGED <<token, sent>>
    BY <1>0, <2>2 DEF Carries
  <2>3. CASE Begin(n)
    <3>1. /\ cur' = [cur EXCEPT ![n] = <<n, sent[n] + 1>>]
          /\ token' = [token EXCEPT ![n] = next[n]]
          /\ tok[<<n, sent[n] + 1>>] = next[n]
      BY <2>3 DEF Begin, Foreseen
    <3> QED BY <1>0, <3>1 DEF Carries
  <2> QED BY <2>1, <2>2, <2>3, SendMoves
<1>3. ASSUME NEW k \in Nodes, NEW i \in 1..Len(rx'[k]), rx'[k][i].kind = "data"
      PROVE  /\ rx'[k][i].msg \in Begun' \cap Others(k)
             /\ rx'[k][i].token = tok[rx'[k][i].msg]
  <2>1. CASE \E j \in 1..Len(rx[k]) : rx'[k][i] = rx[k][j]
    BY <1>1, <1>3, <2>1 DEF Carries
  <2>2. CASE k # n /\ rx'[k][i] \in Frames /\ Sends(n, rx'[k][i])
    <3>1. rx'[k][i] = Data(token[n], cur[n]) /\ pc[n] = "send"
      BY <1>3, <2>2 DEF Sends, Ack
    <3>2. cur[n] \in Messages /\ cur[n] = <<n, sent[n]>> /\ sent[n] \in Nat
      BY <1>0, <3>1 DEF LinkShape
    <3>3. cur[n] \in Begun /\ Sender(cur[n]) = n /\ cur[n] # None
      BY <3>1, <3>2 DEF Begun, Sender, LinkShape
    <3>4. rx'[k][i].token = token[n] /\ rx'[k][i].msg = cur[n]
      BY <3>1 DEF Data
    <3>5. token[n] = tok[cur[n]]
      BY <3>3 DEF Carries
    <3>6. cur[n] \in Others(k)
      BY <2>2, <3>2, <3>3 DEF Others
    <3> QED BY <1>1, <3>3, <3>4, <3>5, <3>6
  <2> QED BY <2>1, <2>2, <1>3, FramesFrom
<1>4. ASSUME Drains(n, "data")
      PROVE  Head(rx[n]).msg \in Begun \cap Others(n)
  BY <1>4, DrainedFrame DEF Carries
<1>5. ASSUME NEW k \in Nodes PROVE ShownAt(k)' \subseteq Begun' \cap Others(k)
  BY <1>1, <1>4, ShownMoves DEF Carries, Shows
<1>6. reached' \subseteq Begun'
  BY <1>1, <1>4, ShownMoves DEF Carries, Shows
<1>7. \A k \in Nodes : Others(k)' = Others(k)
  BY DEF Others
<1> QED BY <1>2, <1>3, <1>5, <1>6, <1>7 DEF Carries

(* A copy of a message already shown is recognised.                        *)
LEMMA CopyIsRemembered ==
  ASSUME TypeOK, NEW tok, Carries(tok), Window(tok), NEW n \in Nodes,
         OneVoice(n) \/ FewMessages(n), Drains(n, "data"),
         Head(rx[n]).msg \in ShownAt(n)
  PROVE  Head(rx[n]).token \in Range(recent[n])
<1> DEFINE msg == Head(rx[n]).msg
<1>0. /\ 1 \in 1..Len(rx[n]) /\ Head(rx[n]) = rx[n][1] /\ rx[n][1].kind = "data"
      /\ recent[n] \in Seq(Tokens)
  BY DrainedFrame DEF TypeOK
<1>1. Head(rx[n]).token = tok[msg]
  BY <1>0 DEF Carries
<1>2. CASE FewMessages(n)
  BY <1>1, <1>2 DEF Window, AllKept
<1>3. CASE OneVoice(n)
  <2>1. \A w \in ShownAt(n) : w[2] <= msg[2]
    BY <1>0, <1>3 DEF Window, InOrder
  <2>2. recent[n] # <<>> /\ tok[msg] = recent[n][Len(recent[n])]
    BY <1>3, <2>1 DEF Window, InOrder
  <2>3. Len(recent[n]) \in DOMAIN recent[n]
    BY <1>0, <2>2
  <2> QED BY <1>1, <2>2, <2>3 DEF Range
<1> QED BY <1>2, <1>3

(* A radio that transmits data adds its newest message to the FIFOs.       *)
LEMMA SentIsNewest ==
  ASSUME TypeOK, LinkShape, NEW n \in Nodes, NEW k \in Nodes, k # n, OneVoice(k),
         NEW f \in Frames, Sends(n, f), f.kind = "data",
         NEW m \in Begun \cap Others(k)
  PROVE  m[2] <= f.msg[2]
<1>1. f = Data(token[n], cur[n]) /\ pc[n] = "send"
  BY DEF Sends, Ack
<1>2. cur[n] \in Messages /\ cur[n] = <<n, sent[n]>> /\ f.msg = cur[n]
  BY <1>1 DEF LinkShape, TypeOK, Data
<1>3. cur[n] \in Others(k) /\ m \in Others(k) /\ m[2] <= sent[m[1]]
  BY <1>2 DEF Others, Sender, Begun
<1>4. m[1] = n
  BY <1>2, <1>3 DEF OneVoice, Sender
<1> QED BY <1>2, <1>3, <1>4

(* What n hears of one sender stays in order.                              *)
LEMMA OrderKept ==
  ASSUME TypeOK, LinkShape, NEW tok, Carries(tok), Window(tok),
         NEW n \in Nodes, NodeStep(n), NEW k \in Nodes, OneVoice(k)
  PROVE  InOrder(tok, k)'
<1>0. /\ rx[k] \in Seq(Frames) /\ recent[k] \in Seq(Tokens) /\ InOrder(tok, k)
      /\ FifoMoves(n, k) /\ rx'[k] \in Seq(Frames)
  BY FifosMove DEF TypeOK, Window
<1>1. \A m \in Messages : m[2] \in Nat
  BY MessageShape
<1> DEFINE sorted(q) == \A i, j \in 1..Len(q) :
             i <= j /\ q[i].kind = "data" /\ q[j].kind = "data" => q[i].msg[2] <= q[j].msg[2]
           behind(q, M) == \A m \in M : \A i \in 1..Len(q) :
             q[i].kind = "data" => m[2] <= q[i].msg[2]
<1>2. \A i \in 1..Len(rx[k]) : rx[k][i].kind = "data" => rx[k][i].msg \in Begun \cap Others(k)
  BY DEF Carries
<1>3. sorted(rx[k]) /\ behind(rx[k], ShownAt(k))
  BY <1>0 DEF InOrder
<1>4. sorted(rx'[k]) /\ behind(rx'[k], ShownAt(k))
  <2>1. CASE rx'[k] = <<>>
    BY <2>1
  <2>2. CASE rx'[k] = rx[k]
    BY <1>3, <2>2
  <2>3. CASE rx[k] # <<>> /\ rx'[k] = Tail(rx[k])
    <3>1. \A i \in 1..Len(rx'[k]) :
            i \in Nat /\ i + 1 \in 1..Len(rx[k]) /\ rx'[k][i] = rx[k][i + 1]
      BY <1>0, <2>3
    <3>2. sorted(rx'[k])
      <4> SUFFICES ASSUME NEW i \in 1..Len(rx'[k]), NEW j \in 1..Len(rx'[k]), i <= j,
                          rx'[k][i].kind = "data", rx'[k][j].kind = "data"
                   PROVE  rx'[k][i].msg[2] <= rx'[k][j].msg[2]
        OBVIOUS
      <4>1. i \in Nat /\ j \in Nat /\ i + 1 <= j + 1
        OBVIOUS
      <4> QED BY <1>3, <3>1, <4>1
    <3>3. behind(rx'[k], ShownAt(k))
      BY <1>3, <3>1
    <3> QED BY <3>2, <3>3
  <2>4. ASSUME k # n, NEW f \in Frames, Sends(n, f), rx'[k] = Append(rx[k], f)
        PROVE  sorted(rx'[k]) /\ behind(rx'[k], ShownAt(k))
    <3>1. /\ Len(rx[k]) \in Nat /\ Len(rx'[k]) = Len(rx[k]) + 1
          /\ \A i \in 1..Len(rx[k]) : rx'[k][i] = rx[k][i]
          /\ rx'[k][Len(rx[k]) + 1] = f
      BY <1>0, <2>4
    <3>2. f.kind = "data" => \A m \in Begun \cap Others(k) : m[2] <= f.msg[2]
      BY <2>4, SentIsNewest
    <3>3. f.kind = "data" => f.msg[2] \in Nat
      BY <1>1, FrameShape
    <3>4. sorted(rx'[k])
      <4> SUFFICES ASSUME NEW i \in 1..Len(rx'[k]), NEW j \in 1..Len(rx'[k]), i <= j,
                          rx'[k][i].kind = "data", rx'[k][j].kind = "data"
                   PROVE  rx'[k][i].msg[2] <= rx'[k][j].msg[2]
        OBVIOUS
      <4>1. CASE j \in 1..Len(rx[k])
        <5>1. i \in 1..Len(rx[k])
          BY <3>1, <4>1
        <5> QED BY <1>3, <3>1, <4>1, <5>1
      <4>2. CASE i \in 1..Len(rx[k]) /\ j = Len(rx[k]) + 1
        BY <1>2, <3>1, <3>2, <4>2
      <4>3. CASE i = Len(rx[k]) + 1 /\ j = Len(rx[k]) + 1
        BY <3>1, <3>3, <4>3
      <4> QED BY <3>1, <4>1, <4>2, <4>3
    <3>5. behind(rx'[k], ShownAt(k))
      <4> SUFFICES ASSUME NEW m \in ShownAt(k), NEW i \in 1..Len(rx'[k]), rx'[k][i].kind = "data"
                   PROVE  m[2] <= rx'[k][i].msg[2]
        OBVIOUS
      <4>1. m \in Begun \cap Others(k)
        BY DEF Carries
      <4>2. i \in 1..Len(rx[k]) \/ i = Len(rx[k]) + 1
        BY <3>1
      <4> QED BY <1>3, <3>1, <3>2, <4>1, <4>2
    <3> QED BY <3>4, <3>5
  <2> QED BY <1>0, <2>1, <2>2, <2>3, <2>4 DEF FifoMoves
<1>5. CASE ShownAt(k)' = ShownAt(k) /\ recent'[k] = recent[k]
  BY <1>0, <1>4, <1>5 DEF InOrder
<1>6. CASE ShownAt(k)' = {}
  BY <1>4, <1>6 DEF InOrder
<1>7. CASE k = n /\ Shows(n) /\ ShownAt(n)' = ShownAt(n) \cup {Head(rx[n]).msg}
  <2> DEFINE msg == Head(rx[n]).msg
  <2>1. /\ 1 \in 1..Len(rx[n]) /\ Head(rx[n]) = rx[n][1] /\ rx[n][1].kind = "data"
        /\ msg \in Begun \cap Others(n) /\ Head(rx[n]).token = tok[msg]
    BY <1>7, DrainedFrame DEF Shows, Carries
  <2>2. rx'[n] = Tail(rx[n]) /\ rx[n] # <<>>
    BY <1>7 DEF Shows, Drains, TypeOK
  <2>3. \A w \in ShownAt(n) : w[2] <= msg[2]
    BY <1>3, <1>7, <2>1
  <2>4. behind(rx'[n], {msg})
    <3>1. \A i \in 1..Len(rx'[n]) :
            i \in Nat /\ i + 1 \in 1..Len(rx[n]) /\ rx'[n][i] = rx[n][i + 1] /\ 1 <= i + 1
      BY <1>0, <1>7, <2>2
    <3> QED BY <1>3, <1>7, <2>1, <3>1
  <2>5. recent'[n] # <<>> /\ recent'[n][Len(recent'[n])] = tok[msg]
    <3>1. /\ recent[n] \in Seq(Tokens) /\ tok[msg] \in Tokens
          /\ recent'[n] = Remembered(recent[n], tok[msg])
      BY <1>7, <2>1, DrainedFrame, FrameShape DEF TypeOK, Shows
    <3>2. TokenWindow \in Nat \ {0}
      BY LinkConstants
    <3>3. PICK q \in Seq(Tokens) : recent'[n] = Append(q, tok[msg])
      <4>1. CASE Len(recent[n]) >= TokenWindow
        <5>1. Len(recent[n]) \in Nat /\ Len(recent[n]) # 0
          BY <3>1, <3>2, <4>1
        <5>2. Tail(recent[n]) \in Seq(Tokens)
          BY <3>1, <5>1
        <5> QED BY <3>1, <4>1, <5>2 DEF Remembered
      <4>2. CASE ~(Len(recent[n]) >= TokenWindow)
        BY <3>1, <4>2 DEF Remembered
      <4> QED BY <4>1, <4>2
    <3> QED BY <3>1, <3>3
  <2>6. ASSUME NEW m \in ShownAt(n)', \A w \in ShownAt(n)' : w[2] <= m[2]
        PROVE  m = msg
    <3>1. msg[2] <= m[2] /\ m[2] <= msg[2]
      BY <1>7, <2>1, <2>3, <2>6, <1>1 DEF Others
    <3>2. m \in Others(n) /\ msg \in Others(n)
      BY <1>7, <2>1, <2>6 DEF Carries
    <3>3. m[1] = msg[1] /\ m = <<m[1], m[2]>> /\ msg = <<msg[1], msg[2]>>
      BY <1>7, <3>2, MessageShape DEF OneVoice, Sender, Others
    <3>4. m[2] \in Nat /\ msg[2] \in Nat
      BY <1>1, <3>2 DEF Others
    <3> QED BY <3>1, <3>3, <3>4
  <2>7. behind(rx'[n], ShownAt(n)')
    BY <1>4, <1>7, <2>4
  <2> HIDE DEF msg
  <2> QED BY <1>4, <1>7, <2>5, <2>6, <2>7 DEF InOrder
<1> QED BY <1>5, <1>6, <1>7, ShownMoves

(* The messages are finitely many.                                         *)
LEMMA MessagesFinite == IsFiniteSet(Messages)
<1> DEFINE by == [n \in Nodes |-> {n} \X (1..MessagesOf[n])]
           sets == {by[n] : n \in Nodes}
<1>1. \A n \in Nodes : IsFiniteSet(by[n])
  <2> TAKE n \in Nodes
  <2>1. IsFiniteSet({n})
    BY FS_Singleton
  <2>2. IsFiniteSet(1..MessagesOf[n])
    BY LinkConstants, FS_Interval
  <2> QED BY <2>1, <2>2, FS_Product
<1>2. by \in Surjection(Nodes, sets)
  BY DEF Surjection
<1>3. IsFiniteSet(sets)
  BY <1>2, LinkConstants, FS_Surjection DEF ExistsSurjection
<1>4. Messages = UNION sets
  BY DEF Messages
<1> QED BY <1>1, <1>3, <1>4, FS_UNION

(* Of few messages the window still forgets none.                          *)
LEMMA AllStillKept ==
  ASSUME TypeOK, LinkShape, NEW tok, Carries(tok), Window(tok),
         NEW n \in Nodes, NodeStep(n), NEW k \in Nodes, FewMessages(k)
  PROVE  AllKept(tok, k)'
<1>0. recent[k] \in Seq(Tokens) /\ AllKept(tok, k)
  BY DEF TypeOK, Window
<1>1. CASE ShownAt(k)' = ShownAt(k) /\ recent'[k] = recent[k]
  BY <1>0, <1>1 DEF AllKept
<1>2. CASE ShownAt(k)' = {} /\ recent'[k] = <<>>
  BY <1>2, FS_EmptySet DEF AllKept
<1>3. CASE k = n /\ Shows(n) /\ ShownAt(n)' = ShownAt(n) \cup {Head(rx[n]).msg}
  <2> DEFINE msg == Head(rx[n]).msg
  <2>1. /\ 1 \in 1..Len(rx[n]) /\ Head(rx[n]) = rx[n][1] /\ rx[n][1].kind = "data"
        /\ msg \in Begun \cap Others(n) /\ Head(rx[n]).token = tok[msg]
        /\ tok[msg] \in Tokens
    BY <1>3, DrainedFrame, FrameShape DEF Shows, Carries
  <2>2. msg \notin ShownAt(n)
    BY <1>3, CopyIsRemembered DEF Shows
  <2>3. ShownAt(n)' \subseteq Others(n) /\ IsFiniteSet(Others(n)) /\ IsFiniteSet(ShownAt(n))
    BY <1>3, <2>1, MessagesFinite, FS_Subset DEF Carries, Others, ShownAt
  <2> HIDE DEF msg
  <2>4. /\ Cardinality(ShownAt(n)') = Cardinality(ShownAt(n)) + 1
        /\ Cardinality(ShownAt(n)') <= Cardinality(Others(n))
        /\ Cardinality(ShownAt(n)) \in Nat /\ Cardinality(Others(n)) \in Nat
    BY <1>3, <2>2, <2>3, FS_AddElement, FS_Subset, FS_CardinalityType DEF msg
  <2>5. Len(recent[n]) < TokenWindow
    BY <1>0, <1>3, <2>4, LinkConstants DEF AllKept, FewMessages
  <2>6. recent'[n] = Append(recent[n], tok[msg])
    <3>1. recent'[n] = Remembered(recent[n], tok[msg])
      BY <1>3, <2>1 DEF Shows, TypeOK, msg
    <3>2. Len(recent[n]) \in Nat /\ TokenWindow \in Nat
      BY <1>0, <1>3, LinkConstants
    <3> QED BY <2>5, <3>1, <3>2 DEF Remembered
  <2>7. Range(recent'[n]) = Range(recent[n]) \cup {tok[msg]}
    <3>1. /\ Len(recent[n]) \in Nat /\ Len(recent'[n]) = Len(recent[n]) + 1
          /\ DOMAIN recent[n] = 1..Len(recent[n]) /\ DOMAIN recent'[n] = 1..Len(recent'[n])
          /\ \A i \in 1..Len(recent[n]) : recent'[n][i] = recent[n][i]
          /\ recent'[n][Len(recent[n]) + 1] = tok[msg]
      BY <1>0, <1>3, <2>1, <2>6
    <3>2. /\ Range(recent[n]) = {recent[n][i] : i \in 1..Len(recent[n])}
          /\ Range(recent'[n]) = {recent'[n][i] : i \in 1..Len(recent'[n])}
      BY <3>1 DEF Range
    <3>3. ASSUME NEW i \in 1..Len(recent'[n])
          PROVE  i \in 1..Len(recent[n]) \/ i = Len(recent[n]) + 1
      BY <3>1
    <3>4. Len(recent[n]) + 1 \in 1..Len(recent'[n])
      BY <3>1
    <3>5. \A i \in 1..Len(recent[n]) : i \in 1..Len(recent'[n])
      BY <3>1
    <3>6. Range(recent'[n]) \subseteq Range(recent[n]) \cup {tok[msg]}
      BY <3>1, <3>2, <3>3
    <3>7. Range(recent[n]) \cup {tok[msg]} \subseteq Range(recent'[n])
      BY <3>1, <3>2, <3>4, <3>5
    <3> QED BY <3>6, <3>7
  <2>8. Len(recent'[n]) = Len(recent[n]) + 1
    BY <1>0, <1>3, <2>1, <2>6
  <2>9. /\ Len(recent'[n]) = Cardinality(ShownAt(n)')
        /\ \A m \in ShownAt(n)' : tok[m] \in Range(recent'[n])
    BY <1>0, <1>3, <2>4, <2>7, <2>8 DEF AllKept, msg
  <2> QED BY <1>3, <2>9 DEF AllKept
<1> QED BY <1>1, <1>2, <1>3, ShownMoves

LEMMA WindowKept ==
  ASSUME TypeOK, LinkShape, NEW tok, Carries(tok), Window(tok), NEW n \in Nodes, NodeStep(n)
  PROVE  Window(tok)'
<1>1. ASSUME NEW k \in Nodes
      PROVE  (OneVoice(k)' <=> OneVoice(k)) /\ (FewMessages(k)' <=> FewMessages(k))
  BY DEF OneVoice, FewMessages, Others
<1> QED BY <1>1, OrderKept, AllStillKept DEF Window

(* A window never holds a token it was not given.                          *)
LEMMA WindowElements ==
  ASSUME NEW q \in Seq(Tokens), NEW t \in Tokens
  PROVE  Range(Remembered(q, t)) \subseteq Range(q) \cup {t}
<1> DEFINE kept == IF Len(q) >= TokenWindow THEN Tail(q) ELSE q
<1>1. Len(q) >= TokenWindow => q # <<>>
  BY LinkConstants
<1>2. kept \in Seq(Tokens) /\ \A i \in 1..Len(kept) : kept[i] \in Range(q)
  <2>1. CASE Len(q) >= TokenWindow
    <3>1. \A i \in 1..Len(Tail(q)) : i + 1 \in DOMAIN q /\ Tail(q)[i] = q[i + 1]
      BY <1>1, <2>1
    <3> QED BY <1>1, <2>1, <3>1 DEF Range
  <2>2. CASE ~(Len(q) >= TokenWindow)
    <3>1. kept = q /\ DOMAIN q = 1..Len(q)
      BY <2>2
    <3> QED BY <3>1 DEF Range
  <2> QED BY <2>1, <2>2
<1>3. Remembered(q, t) = Append(kept, t)
  BY DEF Remembered
<1> HIDE DEF kept
<1>4. \A i \in DOMAIN Append(kept, t) : Append(kept, t)[i] \in Range(q) \cup {t}
  BY <1>2
<1> QED BY <1>3, <1>4 DEF Range

(* What is remembered or acknowledged was shown.                           *)
LEMMA AccountedKept ==
  ASSUME TypeOK, LinkShape, NEW tok, Carries(tok), Accounted(tok),
         NEW n \in Nodes, NodeStep(n)
  PROVE  Accounted(tok)'
<1>0. reached \subseteq reached'
  BY ShownMoves DEF Shows
<1>1. \A t : Known(tok, t) => \E m \in reached' : tok[m] = t
  BY <1>0 DEF Known
<1>2. ASSUME Drains(n, "data")
      PROVE  Head(rx[n]).token = tok[Head(rx[n]).msg] /\ Head(rx[n]).token \in Tokens
  BY <1>2, DrainedFrame, FrameShape DEF Carries
<1>3. ASSUME NEW k \in Nodes, NEW t \in Range(recent'[k]) PROVE \E m \in reached' : tok[m] = t
  <2>1. CASE recent'[k] = recent[k]
    BY <1>1, <1>3, <2>1 DEF Accounted
  <2>2. CASE recent'[k] = <<>>
    BY <1>3, <2>2 DEF Range
  <2>3. CASE k = n /\ Shows(n)
    <3>1. recent'[n] = Remembered(recent[n], Head(rx[n]).token) /\ recent[n] \in Seq(Tokens)
      BY <2>3 DEF Shows, TypeOK
    <3>2. t \in Range(recent[n]) \/ t = Head(rx[n]).token
      BY <1>2, <1>3, <2>3, <3>1, WindowElements DEF Shows
    <3>3. CASE t \in Range(recent[n])
      BY <1>1, <3>3 DEF Accounted
    <3>4. CASE t = Head(rx[n]).token
      BY <1>2, <2>3, <3>4 DEF Shows, Known
    <3> QED BY <3>2, <3>3, <3>4
  <2> QED BY <2>1, <2>2, <2>3, ShownMoves
<1>4. ASSUME NEW k \in Nodes, pc'[k] = "ack" PROVE \E m \in reached' : tok[m] = ackToken'[k]
  <2>0. pc \in [Nodes -> {"poll", "send", "wait", "ack", "down"}]
        /\ ackToken \in [Nodes -> Tokens \cup {0}]
    BY DEF TypeOK
  <2>1. CASE pc[k] = "ack" /\ ackToken'[k] = ackToken[k]
    BY <1>1, <2>1 DEF Accounted
  <2>2. CASE k = n /\ ReceiveData(n)
    <3>1. ackToken'[n] = Head(rx[n]).token
      BY <2>0, <2>2 DEF ReceiveData
    <3>2. \E m \in reached' : tok[m] = Head(rx[n]).token
      <4>1. CASE Head(rx[n]).token \in Range(recent[n])
        BY <1>1, <4>1 DEF Accounted
      <4>2. CASE Head(rx[n]).token \notin Range(recent[n])
        BY <1>2, <2>2, <4>2 DEF ReceiveData, Known
      <4> QED BY <4>1, <4>2
    <3> QED BY <2>2, <3>1, <3>2
  <2>3. \/ pc[k] = "ack" /\ ackToken'[k] = ackToken[k]
        \/ k = n /\ ReceiveData(n)
    <3> DEFINE Goal == \/ pc[k] = "ack" /\ ackToken'[k] = ackToken[k]
                       \/ k = n /\ ReceiveData(n)
    <3>1. CASE Begin(n)
      BY <1>4, <2>0, <3>1 DEF Begin
    <3>2. CASE Transmit(n)
      BY <1>4, <2>0, <3>2 DEF Transmit
    <3>3. CASE Timeout(n)
      BY <1>4, <2>0, <3>3 DEF Timeout
    <3>4. CASE ReceiveAck(n)
      <4>1. pc'[k] = pc[k] \/ pc'[k] = "poll"
        BY <2>0, <3>4 DEF ReceiveAck
      <4> QED BY <1>4, <3>4, <4>1 DEF ReceiveAck
    <3>5. CASE Acknowledge(n)
      <4>1. k # n /\ pc[k] = "ack"
        BY <1>4, <2>0, <3>5 DEF Acknowledge
      <4> QED BY <2>0, <3>5, <4>1 DEF Acknowledge
    <3>6. CASE RadioFails(n)
      BY <1>4, <2>0, <3>6 DEF RadioFails
    <3>7. CASE Retry(n)
      BY <1>4, <2>0, <3>7 DEF Retry
    <3>8. CASE Restart(n)
      BY <1>4, <2>0, <3>8 DEF Restart
    <3>9. CASE ReceiveData(n)
      <4>1. k # n => pc[k] = "ack" /\ ackToken'[k] = ackToken[k]
        BY <1>4, <2>0, <3>9 DEF ReceiveData
      <4> QED BY <3>9, <4>1
    <3> QED BY <3>1, <3>2, <3>3, <3>4, <3>5, <3>6, <3>7, <3>8, <3>9 DEF NodeStep, Step
  <2> QED BY <2>1, <2>2, <2>3
<1>5. ASSUME NEW k \in Nodes, NEW i \in 1..Len(rx'[k]), rx'[k][i].kind = "ack"
      PROVE  \E m \in reached' : tok[m] = rx'[k][i].token
  <2>1. CASE \E j \in 1..Len(rx[k]) : rx'[k][i] = rx[k][j]
    BY <1>1, <1>5, <2>1 DEF Accounted
  <2>2. CASE Sends(n, rx'[k][i])
    <3>1. pc[n] = "ack" /\ rx'[k][i] = Ack(ackToken[n])
      BY <1>5, <2>2 DEF Sends, Data
    <3> QED BY <1>1, <3>1 DEF Accounted, Ack
  <2> QED BY <2>1, <2>2, FramesFrom
<1> QED BY <1>3, <1>4, <1>5 DEF Accounted, Known

-----------------------------------------------------------------------------
(* Tokens apart.                                                           *)

(* The tokens drawn from one on are different, and NextToken draws them.   *)
LEMMA TokensFollow ==
  ASSUME NEW t \in Tokens
  PROVE  /\ TokenAfter(t, 0) = t
         /\ \A i \in Nat : i < MaxToken => NextToken(TokenAfter(t, i)) = TokenAfter(t, i + 1)
         /\ \A i, j \in Nat : i < j /\ j < MaxToken => TokenAfter(t, i) # TokenAfter(t, j)
<1>1. MaxToken \in Nat /\ t \in Nat /\ 1 <= t /\ t <= MaxToken
  BY LinkConstants DEF Tokens
<1> QED BY <1>1 DEF TokenAfter, NextToken

(* The tokens of what a node has begun are of its sessions so far.         *)
LEMMA TokensOfSessions ==
  ASSUME TypeOK, NEW tok, TokensApart, NEW n \in Nodes, Numbered(tok, n),
         NEW i \in 1..sent[n]
  PROVE  \E s \in 1..session[n] : tok[<<n, i>>] \in TokensOf(n, s)
<1>0. /\ sent[n] \in Nat /\ session[n] \in Nat /\ session[n] >= 1
      /\ MessagesOf[n] \in Nat /\ sent[n] <= MessagesOf[n] /\ i \in Nat
  BY LinkConstants DEF TypeOK
<1>1. PICK t \in StartTokens[n][session[n]], b \in 0..sent[n] : NumberedFrom(tok, n, t, b)
  BY DEF Numbered
<1>2. CASE i <= b
  <2>1. PICK s \in 1..(session[n] - 1) : tok[<<n, i>>] \in TokensOf(n, s)
    BY <1>1, <1>2 DEF NumberedFrom
  <2>2. s \in 1..session[n]
    BY <1>0
  <2> QED BY <2>1, <2>2
<1>3. CASE ~(i <= b)
  <2>1. tok[<<n, i>>] = TokenAfter(t, i - b - 1)
    BY <1>1, <1>3 DEF NumberedFrom
  <2>2. i - b - 1 \in 0..(MessagesOf[n] - 1)
    BY <1>0, <1>3
  <2>3. tok[<<n, i>>] \in TokensOf(n, session[n])
    BY <2>1, <2>2 DEF TokensOf
  <2>4. session[n] \in 1..session[n]
    BY <1>0
  <2> QED BY <2>3, <2>4
<1> QED BY <1>2, <1>3

(* The next token of a node with messages left is new.                     *)
LEMMA NextTokenIsNew ==
  ASSUME TypeOK, NEW tok, TokensApart, \A k \in Nodes : Numbered(tok, k),
         NEW n \in Nodes, sent[n] < MessagesOf[n], NEW m \in Begun
  PROVE  tok[m] # next[n]
<1>0. /\ sent[n] \in Nat /\ session[n] \in Nat /\ session[n] >= 1
      /\ MessagesOf[n] \in Nat /\ MaxToken \in Nat /\ MessagesOf[n] <= MaxToken
      /\ session[n] \in 1..Len(StartTokens[n])
  <2>1. /\ sent[n] \in Nat /\ session[n] \in Nat /\ session[n] >= 1
        /\ session[n] <= Len(StartTokens[n])
    BY DEF TypeOK
  <2>2. StartTokens[n] \in Seq(SUBSET Tokens) /\ MessagesOf[n] \in Nat /\ MaxToken \in Nat
    BY LinkConstants
  <2> QED BY <2>1, <2>2 DEF TokensApart
<1>1. PICK t \in StartTokens[n][session[n]], b \in 0..sent[n] : NumberedFrom(tok, n, t, b)
  BY DEF Numbered
<1>2. next[n] = TokenAfter(t, sent[n] - b)
  BY <1>1 DEF NumberedFrom
<1>3. next[n] \in TokensOf(n, session[n])
  <2>1. sent[n] - b \in 0..(MessagesOf[n] - 1)
    BY <1>0
  <2> QED BY <1>2, <2>1 DEF TokensOf
<1>4. /\ m = <<m[1], m[2]>> /\ m[1] \in Nodes /\ sent[m[1]] \in Nat
      /\ m[2] \in 1..sent[m[1]]
  <2>1. m \in Messages /\ m[2] <= sent[m[1]]
    BY DEF Begun
  <2>2. m = <<m[1], m[2]>> /\ m[1] \in Nodes /\ m[2] \in Nat /\ 1 <= m[2]
    BY <2>1, MessageShape
  <2>3. sent[m[1]] \in Nat
    BY <2>2 DEF TypeOK
  <2> QED BY <2>1, <2>2, <2>3
<1>5. CASE m[1] # n
  <2>1. PICK s \in 1..session[m[1]] : tok[m] \in TokensOf(m[1], s)
    BY <1>4, TokensOfSessions
  <2>2. s \in 1..Len(StartTokens[m[1]])
    <3>1. StartTokens[m[1]] \in Seq(SUBSET Tokens)
      BY <1>4, LinkConstants
    <3>2. session[m[1]] \in Nat /\ session[m[1]] <= Len(StartTokens[m[1]])
      BY <1>4 DEF TypeOK
    <3> QED BY <3>1, <3>2
  <2>3. TokensOf(m[1], s) \cap TokensOf(n, session[n]) = {}
    BY <1>0, <1>4, <1>5, <2>2 DEF TokensApart
  <2> QED BY <1>3, <2>1, <2>3
<1>6. CASE m[1] = n /\ m[2] <= b
  <2>1. PICK s \in 1..(session[n] - 1) : tok[m] \in TokensOf(n, s)
    BY <1>1, <1>4, <1>6 DEF NumberedFrom
  <2>2. s \in 1..Len(StartTokens[n]) /\ s # session[n]
    <3>1. StartTokens[n] \in Seq(SUBSET Tokens)
      BY LinkConstants
    <3> QED BY <1>0, <3>1
  <2>3. TokensOf(n, s) \cap TokensOf(n, session[n]) = {}
    BY <1>0, <2>2 DEF TokensApart
  <2> QED BY <1>3, <2>1, <2>3
<1>7. CASE m[1] = n /\ ~(m[2] <= b)
  <2>1. tok[m] = TokenAfter(t, m[2] - b - 1)
    BY <1>1, <1>4, <1>7 DEF NumberedFrom
  <2>2. t \in Tokens
    BY <1>0, LinkConstants
  <2>3. /\ m[2] - b - 1 \in Nat /\ sent[n] - b \in Nat
        /\ m[2] - b - 1 < sent[n] - b /\ sent[n] - b < MaxToken
    <3>1. /\ b \in Nat /\ b <= sent[n] /\ m[2] \in Nat /\ m[2] > b /\ m[2] <= sent[n]
          /\ sent[n] < MaxToken
      BY <1>0, <1>4, <1>7
    <3>2. MaxToken \in Nat /\ sent[n] \in Nat
      BY <1>0
    <3> QED BY <3>1, <3>2
  <2> QED BY <1>2, <2>1, <2>2, <2>3, TokensFollow
<1> QED BY <1>5, <1>6, <1>7

(* What a step does to the tokens of n.                                    *)
LEMMA TokenMoves ==
  ASSUME NEW n \in Nodes, NodeStep(n)
  PROVE  \/ UNCHANGED <<next, sent, session>>
         \/ Begin(n)
         \/ Restart(n)
BY DEF NodeStep, Step, Transmit, Timeout, Concluded, ReceiveData, ReceiveAck,
       Acknowledge, RadioFails, Retry, sendVars, users

(* Every node goes on with the tokens of its session.                      *)
LEMMA NumberedKept ==
  ASSUME TypeOK, NEW tok, TokensApart, NEW n \in Nodes, NodeStep(n), Foreseen(tok, n),
         NEW k \in Nodes, Numbered(tok, k)
  PROVE  Numbered(tok, k)'
<1>0. /\ next \in [Nodes -> Tokens] /\ sent \in [Nodes -> Nat]
      /\ session \in [Nodes -> Nat \ {0}]
      /\ sent[k] <= MessagesOf[k] /\ session[k] <= Len(StartTokens[k])
  BY DEF TypeOK
<1>1. PICK t \in StartTokens[k][session[k]], b \in 0..sent[k] : NumberedFrom(tok, k, t, b)
  BY DEF Numbered
<1>2. StartTokens[k] \in Seq(SUBSET Tokens) /\ MessagesOf[k] \in Nat /\ MaxToken \in Nat
  BY LinkConstants
<1>3. CASE k # n \/ UNCHANGED <<next, sent, session>>
  <2>1. next'[k] = next[k] /\ sent'[k] = sent[k] /\ session'[k] = session[k]
    <3>1. CASE UNCHANGED <<next, sent, session>>
      BY <3>1
    <3>2. CASE k # n /\ Begin(n)
      BY <1>0, <3>2 DEF Begin
    <3>3. CASE k # n /\ Restart(n)
      BY <1>0, <3>3 DEF Restart
    <3> QED BY <1>3, <3>1, <3>2, <3>3, TokenMoves
  <2> QED BY <1>1, <2>1 DEF Numbered, NumberedFrom
<1>4. CASE k = n /\ Begin(n)
  <2>1. /\ next'[n] = NextToken(next[n]) /\ sent'[n] = sent[n] + 1 /\ session' = session
        /\ tok[<<n, sent[n] + 1>>] = next[n] /\ sent[n] < MessagesOf[n]
    BY <1>0, <1>4 DEF Begin, Foreseen
  <2>2. /\ sent[n] \in Nat /\ b \in 0..sent'[n] /\ sent[n] - b \in Nat
        /\ sent[n] - b < MaxToken
    BY <1>0, <1>2, <1>4, <2>1 DEF TokensApart
  <2>3. t \in Tokens
    <3>1. session[k] \in 1..Len(StartTokens[k])
      BY <1>0, <1>2
    <3> QED BY <1>2, <3>1
  <2>4. next'[n] = TokenAfter(t, sent'[n] - b)
    <3>1. next[n] = TokenAfter(t, sent[n] - b)
      BY <1>1, <1>4 DEF NumberedFrom
    <3>2. (sent[n] - b) + 1 = sent'[n] - b
      BY <2>1, <2>2
    <3> QED BY <2>1, <2>2, <2>3, <3>1, <3>2, TokensFollow
  <2>5. ASSUME NEW i \in 1..sent'[n]
        PROVE  IF i <= b THEN \E s \in 1..(session'[n] - 1) : tok[<<n, i>>] \in TokensOf(n, s)
               ELSE tok[<<n, i>>] = TokenAfter(t, i - b - 1)
    <3>1. CASE i \in 1..sent[n]
      BY <1>1, <1>4, <2>1, <3>1 DEF NumberedFrom
    <3>2. CASE i = sent[n] + 1
      <4>1. ~(i <= b) /\ i - b - 1 = sent[n] - b
        BY <2>2, <3>2
      <4> QED BY <1>1, <1>4, <2>1, <3>2, <4>1 DEF NumberedFrom
    <3> QED BY <2>1, <2>2, <3>1, <3>2
  <2>6. NumberedFrom(tok, n, t, b)'
    BY <2>4, <2>5 DEF NumberedFrom, TokenAfter, TokensOf
  <2> QED BY <1>4, <2>1, <2>2, <2>6 DEF Numbered
<1>5. CASE k = n /\ Restart(n)
  <2>1. /\ session'[n] = session[n] + 1 /\ sent' = sent
        /\ session[n] < Len(StartTokens[n])
    BY <1>0, <1>5 DEF Restart
  <2>2. PICK new \in StartTokens[n][session[n] + 1] : next' = [next EXCEPT ![n] = new]
    BY <1>5 DEF Restart
  <2>3. new \in Tokens /\ new \in StartTokens[n][session'[n]]
    <3>1. session[n] + 1 \in 1..Len(StartTokens[n])
      BY <1>0, <1>2, <1>5, <2>1
    <3> QED BY <1>2, <1>5, <2>1, <2>2, <3>1
  <2>4. PICK old \in Nat : old = sent'[n]
    BY <1>0, <2>1
  <2>5. next'[n] = TokenAfter(new, sent'[n] - old)
    <3>1. sent'[n] - old = 0
      BY <2>4
    <3> QED BY <1>0, <2>2, <2>3, <3>1, TokensFollow
  <2>6. ASSUME NEW i \in 1..sent'[n]
        PROVE  i <= old /\ \E s \in 1..(session'[n] - 1) : tok[<<n, i>>] \in TokensOf(n, s)
    <3>1. \E s \in 1..session[n] : tok[<<n, i>>] \in TokensOf(n, s)
      BY <1>5, <2>1, TokensOfSessions
    <3>2. session'[n] - 1 = session[n] /\ i <= old
      BY <1>0, <2>1, <2>4
    <3> QED BY <3>1, <3>2
  <2>7. NumberedFrom(tok, n, new, old)'
    BY <2>5, <2>6 DEF NumberedFrom, TokenAfter, TokensOf
  <2>8. old \in 0..sent'[n]
    BY <2>4
  <2> QED BY <1>5, <2>3, <2>7, <2>8 DEF Numbered
<1> QED BY <1>3, <1>4, <1>5, TokenMoves

(* Messages keep tokens of their own.                                      *)
LEMMA DistinctKept ==
  ASSUME TypeOK, NEW tok, Distinct(tok), NEW n \in Nodes, NodeStep(n), Foreseen(tok, n)
  PROVE  Distinct(tok)'
<1>0. TokensApart' <=> TokensApart
  BY DEF TokensApart, TokensOf, TokenAfter
<1>1. ASSUME TokensApart PROVE \A k \in Nodes : Numbered(tok, k)'
  BY <1>1, NumberedKept DEF Distinct
<1>2. ASSUME TokensApart, NEW m \in Begun', NEW w \in Begun', tok[m] = tok[w]
      PROVE  m = w
  <2>0. \A x, y \in Begun : tok[x] = tok[y] => x = y
    BY <1>2 DEF Distinct
  <2>1. CASE Begin(n)
    <3> DEFINE new == <<n, sent[n] + 1>>
    <3>1. Begun' = Begun \cup {new} /\ tok[new] = next[n]
      BY <2>1, BegunMoves DEF Foreseen
    <3>2. \A x \in Begun : tok[x] # tok[new]
      <4>1. sent[n] < MessagesOf[n]
        BY <2>1 DEF Begin
      <4> QED BY <1>2, <3>1, <4>1, NextTokenIsNew DEF Distinct
    <3> HIDE DEF new
    <3> QED BY <1>2, <2>0, <3>1, <3>2
  <2>2. CASE ~Begin(n)
    BY <1>2, <2>0, <2>2, BegunMoves
  <2> QED BY <2>1, <2>2
<1> QED BY <1>0, <1>1, <1>2 DEF Distinct

-----------------------------------------------------------------------------
(* The invariant.                                                          *)

(* Only the tokens of the messages begun matter.                           *)
LEMMA TokensAgree ==
  ASSUME TypeOK, LinkShape, NEW tok, TokensTold(tok),
         NEW other, \A m \in Begun : other[m] = tok[m]
  PROVE  TokensTold(other)
<1>1. ASSUME NEW n \in Nodes, cur[n] # None PROVE cur[n] \in Begun
  <2>1. cur[n] \in Messages /\ cur[n] = <<n, sent[n]>> /\ sent[n] \in Nat
    BY <1>1 DEF TypeOK, LinkShape
  <2> QED BY <2>1 DEF Begun
<1>2. Carries(other)
  BY <1>1 DEF TokensTold, Carries
<1>3. \A n \in Nodes : ShownAt(n) \subseteq Begun
  BY DEF TokensTold, Carries
<1>4. Window(other)
  BY <1>3 DEF TokensTold, Window, InOrder, AllKept
<1>5. Accounted(other)
  <2>1. \A t : Known(tok, t) => Known(other, t)
    BY DEF TokensTold, Carries, Known
  <2> QED BY <2>1 DEF TokensTold, Accounted
<1>6. Distinct(other)
  <2>1. ASSUME NEW n \in Nodes, NEW i \in 1..sent[n] PROVE other[<<n, i>>] = tok[<<n, i>>]
    <3>1. sent[n] \in Nat /\ MessagesOf[n] \in Nat /\ sent[n] <= MessagesOf[n]
      BY LinkConstants DEF TypeOK
    <3>2. i \in Nat /\ 1 <= i /\ i <= MessagesOf[n] /\ i <= sent[n]
      BY <3>1
    <3>3. <<n, i>> \in Messages
      BY <3>2, MessageShape
    <3> QED BY <3>2, <3>3 DEF Begun
  <2>2. \A n \in Nodes : Numbered(tok, n) => Numbered(other, n)
    BY <2>1 DEF Numbered, NumberedFrom
  <2> QED BY <2>2 DEF TokensTold, Distinct
<1> QED BY <1>2, <1>4, <1>5, <1>6 DEF TokensTold

LEMMA TokensToldKept ==
  ASSUME TypeOK, LinkShape, NEW tok, TokensTold(tok),
         NEW n \in Nodes, NodeStep(n), Foreseen(tok, n)
  PROVE  TokensTold(tok)'
BY CarriesKept, WindowKept, AccountedKept, DistinctKept DEF TokensTold

LEMMA LinkInvKept == LinkInv /\ [Next]_vars => LinkInv'
<1> SUFFICES ASSUME LinkInv, [Next]_vars PROVE LinkInv'
  OBVIOUS
<1>1. PICK tok \in [Messages -> Tokens \cup {0}] : TokensTold(tok)
  BY DEF LinkInv
<1>2. ASSUME NEW n \in Nodes, NodeStep(n), UNCHANGED air PROVE LinkInv'
  <2> DEFINE new == <<n, sent[n] + 1>>
  <2>1. PICK told \in [Messages -> Tokens \cup {0}] :
          told = IF Begin(n) THEN [tok EXCEPT ![new] = next[n]] ELSE tok
    <3>1. next[n] \in Tokens
      BY DEF LinkInv, TypeOK
    <3> QED BY <1>1, <3>1
  <2>2. new \notin Begun
    <3>1. sent[n] \in Nat
      BY DEF LinkInv, TypeOK
    <3> QED BY <3>1 DEF Begun
  <2>3. \A m \in Begun : told[m] = tok[m]
    BY <1>1, <2>1, <2>2 DEF Begun
  <2>4. Foreseen(told, n)
    <3>1. ASSUME Begin(n) PROVE new \in Messages
      BY <3>1, NextMessage DEF Begin, LinkInv
    <3> QED BY <1>1, <2>1, <3>1 DEF Foreseen
  <2> HIDE DEF new
  <2>5. TokensTold(told)
    BY <1>1, <2>3, TokensAgree DEF LinkInv
  <2>6. TokensTold(told)'
    BY <1>2, <2>4, <2>5, TokensToldKept DEF LinkInv
  <2>7. TypeOK' /\ LinkShape'
    BY <1>2, LinkKeepsTypes, LinkKeepsShape DEF LinkInv
  <2> QED BY <2>6, <2>7 DEF LinkInv
<1>3. ASSUME UNCHANGED vars PROVE LinkInv'
  <2>1. TypeOK' /\ LinkShape'
    BY <1>3, TypesStutter DEF LinkInv
  <2>2. UNCHANGED <<pc, session, next, sent, cur, token, ackToken, recent, rx, shown, reached>>
    BY <1>3 DEF vars, sendVars, users
  <2>3. Begun' = Begun /\ \A n \in Nodes : ShownAt(n)' = ShownAt(n)
    BY <2>2 DEF Begun, ShownAt
  <2>4. Carries(tok)'
    BY <1>1, <2>2, <2>3 DEF TokensTold, Carries, Others
  <2>5. Window(tok)'
    <3> USE DEF Window
    <3> TAKE n \in Nodes
    <3>1. (OneVoice(n)' <=> OneVoice(n)) /\ (FewMessages(n)' <=> FewMessages(n))
      BY DEF OneVoice, FewMessages, Others
    <3>2. InOrder(tok, n) => InOrder(tok, n)'
      BY <2>2, <2>3 DEF InOrder
    <3>3. AllKept(tok, n) => AllKept(tok, n)'
      BY <2>2, <2>3 DEF AllKept
    <3> QED BY <1>1, <3>1, <3>2, <3>3 DEF TokensTold
  <2>6. Accounted(tok)'
    BY <1>1, <2>2 DEF TokensTold, Accounted, Known
  <2>7. Distinct(tok)'
    <3>1. TokensApart' <=> TokensApart
      BY DEF TokensApart, TokensOf, TokenAfter
    <3>2. \A n \in Nodes : Numbered(tok, n) => Numbered(tok, n)'
      BY <2>2 DEF Numbered, NumberedFrom, TokenAfter, TokensOf
    <3> QED BY <1>1, <2>3, <3>1, <3>2 DEF TokensTold, Distinct
  <2> QED BY <1>1, <2>1, <2>4, <2>5, <2>6, <2>7 DEF LinkInv, TokensTold
<1> QED BY <1>2, <1>3, StepOfANode

LEMMA LinkInvInitially == Init => LinkInv
<1> SUFFICES ASSUME Init PROVE LinkInv
  OBVIOUS
<1> DEFINE tok == [m \in Messages |-> 0]
<1>1. TypeOK /\ LinkShape
  BY LinkInitially
<1>2. Begun = {} /\ \A n \in Nodes : ShownAt(n) = {}
  <2>1. \A m \in Messages : m[1] \in Nodes /\ m[2] \in Nat /\ 1 <= m[2]
    BY MessageShape
  <2> QED BY <2>1 DEF Init, Begun, ShownAt
<1>3. \A n \in Nodes : cur[n] = None /\ pc[n] = "poll" /\ rx[n] = <<>> /\ recent[n] = <<>>
  BY DEF Init
<1>4. Carries(tok)
  BY <1>2, <1>3 DEF Carries, Init
<1>5. Window(tok)
  <2> SUFFICES ASSUME NEW n \in Nodes PROVE InOrder(tok, n) /\ AllKept(tok, n)
    BY DEF Window
  <2>1. rx[n] = <<>> /\ recent[n] = <<>> /\ ShownAt(n) = {} /\ Len(<<>>) = 0
    BY <1>2, <1>3
  <2>2. Cardinality({}) = 0
    BY FS_EmptySet
  <2> QED BY <2>1, <2>2 DEF InOrder, AllKept
<1>6. Accounted(tok)
  BY <1>3 DEF Accounted, Range
<1>7. Distinct(tok)
  <2>1. ASSUME NEW n \in Nodes PROVE Numbered(tok, n)
    <3>1. next[n] \in StartTokens[n][session[n]] /\ next[n] \in Tokens /\ sent[n] = 0
      BY <1>1 DEF Init, TypeOK
    <3>2. 0 \in 0..sent[n] /\ sent[n] - 0 = 0
      BY <3>1
    <3>3. NumberedFrom(tok, n, next[n], 0)
      BY <3>1, <3>2, TokensFollow DEF NumberedFrom
    <3> QED BY <3>1, <3>2, <3>3 DEF Numbered
  <2> QED BY <1>2, <2>1 DEF Distinct
<1>8. tok \in [Messages -> Tokens \cup {0}]
  OBVIOUS
<1> HIDE DEF tok
<1> QED BY <1>1, <1>4, <1>5, <1>6, <1>7, <1>8 DEF LinkInv, TokensTold

(* Whatever is lost: the frames, the windows and the acknowledgements tell *)
(* of messages begun, in the order they were begun.                        *)
THEOREM LinkInvariant == Spec => []LinkInv
<1>1. Init => LinkInv
  BY LinkInvInitially
<1> QED BY <1>1, LinkInvKept, PTL DEF Spec

-----------------------------------------------------------------------------
(* What the users are promised.                                            *)

(* What n receives for the first time it has not shown.                    *)
LEMMA FreshIsNotShown ==
  ASSUME LinkInv, WindowSuffices, NEW n \in Nodes, Drains(n, "data"),
         Head(rx[n]).token \notin Range(recent[n])
  PROVE  Head(rx[n]).msg \notin ShownAt(n)
BY CopyIsRemembered DEF LinkInv, TokensTold, WindowSuffices

(* What is acknowledged has been shown.                                    *)
LEMMA ExpectedWasShown ==
  ASSUME LinkInv, TokensApart, NEW n \in Nodes, Drains(n, "ack"), Expected(n, Head(rx[n]))
  PROVE  cur[n] \in reached
<1>1. PICK tok \in [Messages -> Tokens \cup {0}] : TokensTold(tok)
  BY DEF LinkInv
<1>2. cur[n] # None /\ token[n] = tok[cur[n]] /\ Head(rx[n]).token = token[n]
  BY <1>1 DEF Expected, LinkInv, LinkShape, TokensTold, Carries
<1>3. PICK m \in reached : tok[m] = Head(rx[n]).token
  <2>1. 1 \in 1..Len(rx[n]) /\ Head(rx[n]) = rx[n][1] /\ rx[n][1].kind = "ack"
    BY DrainedFrame DEF LinkInv
  <2> QED BY <1>1, <2>1 DEF TokensTold, Accounted, Known
<1>4. cur[n] \in Begun
  <2>1. cur[n] \in Messages /\ cur[n] = <<n, sent[n]>> /\ sent[n] \in Nat
    BY <1>2 DEF LinkInv, TypeOK, LinkShape
  <2> QED BY <2>1 DEF Begun
<1>5. m \in Begun
  BY <1>1, <1>3 DEF TokensTold, Carries
<1>6. m = cur[n]
  BY <1>1, <1>2, <1>3, <1>4, <1>5 DEF TokensTold, Distinct
<1> QED BY <1>3, <1>6

(* A step of a node is a step of the delivery, or nothing the users see.   *)
LEMMA NodeDelivers ==
  ASSUME LinkInv, TokensApart, WindowSuffices, NEW n \in Nodes, NodeStep(n)
  PROVE  [Delivery!DeliveryNext]_(Delivery!deliveryVars)
<1>0. /\ outcome \in [Messages -> {"new", "sending", "completed", "failed", "abandoned"}]
      /\ shown \in [Messages -> [Nodes -> 0..2]] /\ reached \subseteq Messages
      /\ None \notin Messages /\ TypeOK /\ LinkShape
  BY LinkConstants DEF LinkInv, TypeOK
<1>1. ASSUME UNCHANGED users PROVE UNCHANGED Delivery!deliveryVars
  BY <1>1 DEF Delivery!deliveryVars, users
<1>2. ASSUME cur[n] # None
      PROVE  cur[n] \in Messages /\ outcome[cur[n]] = "sending"
  BY <1>0, <1>2 DEF TypeOK, LinkShape
<1>3. ASSUME cur[n] # None, Concluded(n, "failed"), UNCHANGED <<shown, reached>>
      PROVE  Delivery!DeliveryNext
  BY <1>2, <1>3 DEF Concluded, Delivery!DeliveryNext, Delivery!Fail, Delivery!Concludes
<1>4. CASE Begin(n)
  <2> DEFINE new == <<n, sent[n] + 1>>
  <2>1. new \in Messages
    BY <1>0, <1>4, NextMessage DEF Begin
  <2>2. outcome[new] = "new"
    <3>1. sent[n] \in Nat /\ new[1] = n /\ new[2] = sent[n] + 1
      BY <1>0 DEF TypeOK
    <3> QED BY <1>0, <2>1, <3>1 DEF LinkShape
  <2>3. outcome' = [outcome EXCEPT ![new] = "sending"] /\ UNCHANGED <<shown, reached>>
    BY <1>4 DEF Begin
  <2> HIDE DEF new
  <2> QED BY <2>1, <2>2, <2>3 DEF Delivery!DeliveryNext, Delivery!Submit
<1>5. CASE Transmit(n)
  BY <1>1, <1>5 DEF Transmit
<1>6. CASE Timeout(n)
  <2>1. CASE attempt[n] < MaxAttempts
    BY <1>1, <1>6, <2>1 DEF Timeout
  <2>2. CASE ~(attempt[n] < MaxAttempts)
    <3>1. cur[n] # None
      BY <1>0, <1>6 DEF Timeout, LinkShape
    <3> QED BY <1>3, <1>6, <2>2, <3>1 DEF Timeout
  <2> QED BY <2>1, <2>2
<1>7. CASE ReceiveData(n)
  <2> DEFINE msg == Head(rx[n]).msg
  <2>1. CASE Head(rx[n]).token \in Range(recent[n])
    BY <1>1, <1>7, <2>1 DEF ReceiveData, users
  <2>2. CASE Head(rx[n]).token \notin Range(recent[n])
    <3>1. msg \in Messages /\ msg \notin ShownAt(n) /\ msg \in Begun \cap Others(n)
      <4>1. msg \in Messages
        BY <1>0, <1>7, DrainedFrame, FrameShape DEF ReceiveData
      <4>2. msg \notin ShownAt(n)
        BY <1>7, <2>2, FreshIsNotShown DEF ReceiveData
      <4>3. msg \in Begun \cap Others(n)
        <5>1. PICK tok : Carries(tok)
          BY DEF LinkInv, TokensTold
        <5>2. 1 \in 1..Len(rx[n]) /\ Head(rx[n]) = rx[n][1] /\ rx[n][1].kind = "data"
          BY <1>0, <1>7, DrainedFrame DEF ReceiveData
        <5> QED BY <5>1, <5>2 DEF Carries
      <4> QED BY <4>1, <4>2, <4>3
    <3>2. /\ shown' = [shown EXCEPT ![msg][n] = IF @ = 2 THEN 2 ELSE @ + 1]
          /\ reached' = reached \cup {msg} /\ outcome' = outcome
      BY <1>7, <2>2 DEF ReceiveData
    <3> HIDE DEF msg
    <3>3. shown[msg][n] = 0 /\ Sender(msg) # n
      BY <3>1 DEF ShownAt, Others
    <3>4. outcome[msg] # "new"
      <4>1. msg[2] <= sent[msg[1]] /\ msg[2] \in Nat /\ sent[msg[1]] \in Nat
        BY <1>0, <3>1, MessageShape DEF Begun, TypeOK
      <4> QED BY <1>0, <3>1, <4>1 DEF LinkShape
    <3>5. shown' = [shown EXCEPT ![msg][n] = 1]
      BY <1>0, <3>1, <3>2, <3>3
    <3> QED BY <3>1, <3>2, <3>3, <3>4, <3>5 DEF Delivery!DeliveryNext, Delivery!Show
  <2> QED BY <2>1, <2>2
<1>8. CASE ReceiveAck(n)
  <2>1. CASE Expected(n, Head(rx[n]))
    <3>1. cur[n] \in reached
      BY <1>8, <2>1, ExpectedWasShown DEF ReceiveAck
    <3>2. Concluded(n, "completed") /\ UNCHANGED <<shown, reached>>
      BY <1>8, <2>1 DEF ReceiveAck
    <3> QED BY <1>0, <1>2, <3>1, <3>2
         DEF Concluded, Delivery!DeliveryNext, Delivery!Complete, Delivery!Concludes
  <2>2. CASE ~Expected(n, Head(rx[n]))
    BY <1>1, <1>8, <2>2 DEF ReceiveAck, users
  <2> QED BY <2>1, <2>2
<1>9. CASE Acknowledge(n)
  BY <1>1, <1>9 DEF Acknowledge
<1>10. CASE RadioFails(n)
  <2>1. CASE cur[n] = None
    BY <1>1, <1>10, <2>1 DEF RadioFails, users
  <2>2. CASE cur[n] # None
    BY <1>3, <1>10, <2>2 DEF RadioFails
  <2> QED BY <2>1, <2>2
<1>11. CASE Retry(n)
  BY <1>1, <1>11 DEF Retry
<1>12. CASE Restart(n)
  <2>1. \A m \in Messages : m = cur[n] <=> (Sender(m) = n /\ outcome[m] = "sending")
    BY <1>0 DEF LinkShape, Sender
  <2>2. outcome' = [m \in Messages |-> IF Sender(m) = n /\ outcome[m] = "sending"
                                       THEN "abandoned" ELSE outcome[m]]
    BY <1>12, <2>1 DEF Restart
  <2> QED BY <1>12, <2>2 DEF Restart, Delivery!DeliveryNext, Delivery!EndSession
<1> QED BY <1>4, <1>5, <1>6, <1>7, <1>8, <1>9, <1>10, <1>11, <1>12 DEF NodeStep, Step

(* Where tokens are apart and windows suffice, the protocol keeps its      *)
(* promise over every loss, failure and restart: a message is shown at     *)
(* most once in a session of each receiver and called delivered only if    *)
(* somebody was shown it (radio_worker.cpp:345-505).                       *)
THEOREM LinkImplementsDelivery ==
  ASSUME TokensApart, WindowSuffices
  PROVE  Spec => Implements
<1>1. Init => Delivery!DeliveryInit
  BY DEF Init, Delivery!DeliveryInit
<1>2. LinkInv /\ [Next]_vars => [Delivery!DeliveryNext]_(Delivery!deliveryVars)
  <2>1. ASSUME LinkInv, UNCHANGED vars PROVE UNCHANGED Delivery!deliveryVars
    BY <2>1 DEF vars, users, Delivery!deliveryVars
  <2> QED BY <2>1, NodeDelivers, StepOfANode
<1> QED BY <1>1, <1>2, LinkInvariant, PTL DEF Spec, Implements, Delivery!DeliverySpec

-----------------------------------------------------------------------------
(* The two promises apart, each with the condition it takes.               *)

CompletedWasShown == \A m \in Messages : outcome[m] = "completed" => m \in reached
ShownAtMostOnce   == \A m \in Messages, n \in Nodes : shown[m][n] # 2

(* However often the windows forget, a message called delivered was shown  *)
(* to somebody, if the tokens are apart (radio_worker.cpp:448-453).        *)
THEOREM DeliveredWasShown ==
  ASSUME TokensApart
  PROVE  Spec => []CompletedWasShown
<1>1. Init => CompletedWasShown
  BY DEF Init, CompletedWasShown
<1>2. ASSUME LinkInv, CompletedWasShown, NEW n \in Nodes, NodeStep(n)
      PROVE  CompletedWasShown'
  <2>0. /\ outcome \in [Messages -> {"new", "sending", "completed", "failed", "abandoned"}]
        /\ reached \subseteq reached'
    BY <1>2, ShownMoves DEF LinkInv, TypeOK, Shows
  <2>1. CASE ReceiveAck(n) /\ Expected(n, Head(rx[n]))
    <3>1. cur[n] \in reached /\ outcome' = [outcome EXCEPT ![cur[n]] = "completed"]
      BY <1>2, <2>1, ExpectedWasShown DEF ReceiveAck, Concluded
    <3> QED BY <1>2, <2>0, <3>1 DEF CompletedWasShown
  <2>2. CASE ~(ReceiveAck(n) /\ Expected(n, Head(rx[n])))
    <3>1. \A m \in Messages : outcome'[m] = "completed" => outcome[m] = "completed"
      <4>1. \/ outcome' = outcome
            \/ \E m, how : /\ how \in {"sending", "failed"}
                           /\ outcome' = [outcome EXCEPT ![m] = how]
            \/ outcome' = [m \in Messages |-> IF m = cur[n] THEN "abandoned" ELSE outcome[m]]
        BY <1>2, <2>2 DEF NodeStep, Step, Begin, Transmit, Timeout, Concluded, ReceiveData,
           ReceiveAck, Acknowledge, RadioFails, Retry, Restart, users
      <4> QED BY <2>0, <4>1
    <3> QED BY <1>2, <2>0, <3>1 DEF CompletedWasShown
  <2> QED BY <2>1, <2>2
<1>3. LinkInv /\ CompletedWasShown /\ [Next]_vars => CompletedWasShown'
  <2>1. ASSUME CompletedWasShown, UNCHANGED vars PROVE CompletedWasShown'
    BY <2>1 DEF CompletedWasShown, vars, users
  <2> QED BY <1>2, <2>1, StepOfANode
<1> QED BY <1>1, <1>3, LinkInvariant, PTL DEF Spec

(* Whatever tokens are drawn, no receiver shows a message twice in a       *)
(* session, if its window suffices (radio_worker.cpp:458-463, 499-505).    *)
THEOREM ShownOnce ==
  ASSUME WindowSuffices
  PROVE  Spec => []ShownAtMostOnce
<1> DEFINE Once == \A m \in Messages, n \in Nodes : shown[m][n] \in {0, 1}
<1>1. Init => Once
  BY DEF Init
<1>2. ASSUME LinkInv, Once, NEW n \in Nodes, NodeStep(n)
      PROVE  Once'
  <2>0. TypeOK /\ shown \in [Messages -> [Nodes -> 0..2]]
    BY <1>2 DEF LinkInv, TypeOK
  <2>1. CASE UNCHANGED shown
    BY <1>2, <2>1
  <2>2. CASE Restart(n)
    <3>1. shown' = [m \in Messages |-> [shown[m] EXCEPT ![n] = 0]]
      BY <2>2 DEF Restart
    <3> QED BY <1>2, <2>0, <3>1
  <2>3. CASE Shows(n) /\ ReceiveData(n)
    <3> DEFINE msg == Head(rx[n]).msg
    <3>1. msg \in Messages /\ msg \notin ShownAt(n)
      BY <1>2, <2>0, <2>3, DrainedFrame, FrameShape, FreshIsNotShown DEF Shows
    <3>2. shown' = [shown EXCEPT ![msg][n] = IF @ = 2 THEN 2 ELSE @ + 1]
      BY <2>3 DEF Shows, ReceiveData
    <3> HIDE DEF msg
    <3>3. shown[msg][n] = 0
      BY <3>1 DEF ShownAt
    <3>4. shown' = [shown EXCEPT ![msg][n] = 1]
      BY <2>0, <3>1, <3>2, <3>3
    <3> QED BY <1>2, <2>0, <3>1, <3>4
  <2> QED BY <1>2, <2>0, <2>1, <2>2, <2>3, ShownMoves
<1>3. LinkInv /\ Once /\ [Next]_vars => Once'
  <2>1. ASSUME Once, UNCHANGED vars PROVE Once'
    BY <2>1 DEF vars, users
  <2> QED BY <1>2, <2>1, StepOfANode
<1>4. Once => ShownAtMostOnce
  BY DEF ShownAtMostOnce
<1> HIDE DEF Once
<1> QED BY <1>1, <1>3, <1>4, LinkInvariant, PTL DEF Spec

-----------------------------------------------------------------------------
(* Calm air: every attempt that runs out has cost a frame.                 *)

(* Somebody else has heard n and is to answer, or n has the answer.        *)
Answered(n) ==
  \/ \E k \in Nodes \ {n} :
       \/ pc[k] = "ack" /\ ackToken[k] = token[n]
       \/ \E i \in 1..Len(rx[k]) : rx[k][i].kind = "data" /\ rx[k][i].token = token[n]
  \/ \E i \in 1..Len(rx[n]) : rx[n][i].kind = "ack" /\ rx[n][i].token = token[n]

(* The attempts before the present one lost a frame each, and so did the   *)
(* present one if no answer to it is under way.                            *)
Charge(n) ==
  cur[n] # None => /\ attempt[n] <= losses + 1
                   /\ pc[n] # "send" /\ ~Answered(n) => attempt[n] <= losses

Charged == air = "calm" => /\ \A n \in Nodes : pc[n] # "down" /\ Charge(n)
                           /\ \A m \in Messages : outcome[m] # "failed"

(* In calm air a frame reaches every other radio and nothing is flushed,   *)
(* or a loss is counted.                                                   *)
LEMMA CalmBroadcast ==
  ASSUME TypeOK, air = "calm", NEW n \in Nodes, NEW f, Broadcast(n, f)
  PROVE  /\ losses' \in Nat /\ losses' >= losses
         /\ \/ losses' >= losses + 1
            \/ rx[n] = <<>> /\ \A k \in Nodes \ {n} : rx'[k] = Append(rx[k], f)
<1>1. PICK S \in SUBSET {k \in Nodes \ {n} : Listening(k)} :
        /\ rx' = [k \in Nodes |-> IF k = n THEN <<>>
                                  ELSE IF k \in S THEN Heard(rx[k], f) ELSE rx[k]]
        /\ losses' = losses + LostWith(n, S)
  BY DEF Broadcast
<1>2. /\ losses \in Nat /\ FifoFrames \in Nat
      /\ \A k \in Nodes : Len(rx[k]) \in Nat /\ Len(rx[k]) <= FifoFrames
  BY LinkConstants DEF TypeOK
<1>3. S \in SUBSET (Nodes \ {n})
  OBVIOUS
<1>4. LostWith(n, S) \in Nat
  BY <1>3, LostCounts
<1>5. CASE LostWith(n, S) >= 1
  BY <1>1, <1>2, <1>4, <1>5
<1>6. CASE ~(LostWith(n, S) >= 1)
  <2>1. rx[n] = <<>> /\ \A k \in Nodes \ {n} : k \in S /\ Len(rx[k]) # FifoFrames
    BY <1>3, <1>6, LostCounts
  <2>2. \A k \in Nodes \ {n} : Len(rx[k]) < FifoFrames
    BY <1>2, <2>1
  <2> QED BY <1>1, <1>2, <1>4, <2>1, <2>2 DEF Heard
<1> QED BY <1>5, <1>6

(* Where the frames of a FIFO are after its head is drained.               *)
LEMMA AfterDrain ==
  ASSUME TypeOK, NEW n \in Nodes, NEW kind, Drains(n, kind),
         NEW i \in 1..Len(rx[n]), rx[n][i] # Head(rx[n])
  PROVE  \E j \in 1..Len(rx'[n]) : rx'[n][j] = rx[n][i]
<1>1. rx[n] \in Seq(Frames) /\ rx[n] # <<>> /\ rx'[n] = Tail(rx[n])
  BY DEF Drains, TypeOK
<1>2. i # 1 /\ i \in Nat /\ i <= Len(rx[n]) /\ Len(rx[n]) \in Nat /\ 1 <= i
  BY <1>1
<1>3. i - 1 \in 1..Len(rx'[n]) /\ rx'[n][i - 1] = rx[n][i]
  BY <1>1, <1>2
<1> QED BY <1>3

(* The answer to k stays under way while the others keep what they have.   *)
LEMMA AnswerStays ==
  ASSUME NEW k \in Nodes, Answered(k), token'[k] = token[k],
         \A j \in Nodes \ {k} : pc[j] = "ack" /\ ackToken[j] = token[k]
           => pc'[j] = "ack" /\ ackToken'[j] = ackToken[j],
         \A j \in Nodes : \A i \in 1..Len(rx[j]) : rx[j][i].token = token[k] =>
           \E h \in 1..Len(rx'[j]) : rx'[j][h] = rx[j][i]
  PROVE  Answered(k)'
<1>1. CASE \E j \in Nodes \ {k} : pc[j] = "ack" /\ ackToken[j] = token[k]
  BY <1>1 DEF Answered
<1>2. CASE \E j \in Nodes \ {k} : \E i \in 1..Len(rx[j]) :
             rx[j][i].kind = "data" /\ rx[j][i].token = token[k]
  <2>1. PICK j \in Nodes \ {k} : \E i \in 1..Len(rx[j]) :
          rx[j][i].kind = "data" /\ rx[j][i].token = token[k]
    BY <1>2
  <2>2. PICK i \in 1..Len(rx[j]) : rx[j][i].kind = "data" /\ rx[j][i].token = token[k]
    BY <2>1
  <2>3. PICK h \in 1..Len(rx'[j]) : rx'[j][h] = rx[j][i]
    BY <2>2
  <2> QED BY <2>2, <2>3 DEF Answered
<1>3. CASE \E i \in 1..Len(rx[k]) : rx[k][i].kind = "ack" /\ rx[k][i].token = token[k]
  <2>1. PICK i \in 1..Len(rx[k]) : rx[k][i].kind = "ack" /\ rx[k][i].token = token[k]
    BY <1>3
  <2>2. PICK h \in 1..Len(rx'[k]) : rx'[k][h] = rx[k][i]
    BY <2>1
  <2> QED BY <2>1, <2>2 DEF Answered
<1> QED BY <1>1, <1>2, <1>3 DEF Answered

(* A transmission counts a loss, or is heard.                              *)
LEMMA ChargeOfBroadcast ==
  ASSUME TypeOK, LinkShape, Company, air = "calm", Charged,
         NEW n \in Nodes, Transmit(n) \/ Acknowledge(n), NEW k \in Nodes
  PROVE  Charge(k)'
<1> DEFINE f == IF pc[n] = "send" THEN Data(token[n], cur[n]) ELSE Ack(ackToken[n])
<1>0. /\ rx \in [Nodes -> Seq(Frames)] /\ losses \in Nat /\ attempt[k] \in Nat
      /\ pc \in [Nodes -> {"poll", "send", "wait", "ack", "down"}]
      /\ ackToken \in [Nodes -> Tokens \cup {0}]
  <2>1. MaxAttempts \in Nat \ {0}
    BY LinkConstants
  <2>2. losses \in 0..(MaxAttempts - 1) /\ attempt \in [Nodes -> 0..MaxAttempts]
    BY DEF TypeOK
  <2>3. losses \in Nat
    BY <2>1, <2>2
  <2>4. attempt[k] \in 0..MaxAttempts
    BY <2>2
  <2>5. attempt[k] \in Nat
    BY <2>1, <2>4
  <2> QED BY <2>3, <2>5 DEF TypeOK
<1>1. Broadcast(n, f) /\ UNCHANGED <<cur, token, attempt>>
  BY DEF Transmit, Acknowledge, sendVars
<1>2. \A j \in Nodes \ {n} : pc'[j] = pc[j] /\ ackToken'[j] = ackToken[j]
  BY <1>0 DEF Transmit, Acknowledge
<1>3. Charge(k)
  BY DEF Charged
<1>6. f \in Frames
  <2>1. CASE pc[n] = "send"
    <3>1. cur[n] \in Messages /\ token[n] \in Tokens
      BY <2>1 DEF LinkShape, TypeOK
    <3> QED BY <2>1, <3>1, FrameShape
  <2>2. CASE pc[n] # "send"
    <3>1. ackToken[n] \in Tokens
      BY <2>2 DEF Transmit, Acknowledge, LinkShape
    <3> QED BY <2>2, <3>1, FrameShape
  <2> QED BY <2>1, <2>2
<1> HIDE DEF f
<1>4. CASE losses' >= losses + 1
  <2>1. losses' \in Nat
    BY <1>1, CalmBroadcast
  <2>2. cur[k] # None => attempt[k] <= losses'
    BY <1>0, <1>3, <1>4, <2>1 DEF Charge
  <2>3. cur[k] # None => attempt[k] <= losses' + 1
    BY <1>0, <2>1, <2>2
  <2> QED BY <1>1, <2>2, <2>3 DEF Charge
<1>5. CASE rx[n] = <<>> /\ \A j \in Nodes \ {n} : rx'[j] = Append(rx[j], f)
  <2>1. losses' \in Nat /\ losses' >= losses
    BY <1>1, CalmBroadcast
  <2>2. \A j \in Nodes \ {n} :
          /\ Len(rx'[j]) = Len(rx[j]) + 1 /\ Len(rx[j]) \in Nat
          /\ \A i \in 1..Len(rx[j]) : i \in 1..Len(rx'[j]) /\ rx'[j][i] = rx[j][i]
          /\ Len(rx'[j]) \in 1..Len(rx'[j]) /\ rx'[j][Len(rx'[j])] = f
    <3> TAKE j \in Nodes \ {n}
    <3>1. rx[j] \in Seq(Frames) /\ rx'[j] = Append(rx[j], f)
      BY <1>0, <1>5
    <3> QED BY <1>6, <3>1
  <2>3. \A j \in Nodes : \A i \in 1..Len(rx[j]) : \E h \in 1..Len(rx'[j]) : rx'[j][h] = rx[j][i]
    BY <1>5, <2>2
  <2>4. CASE k = n /\ Transmit(n)
    <3>1. PICK j \in Nodes : j # n
      BY DEF Company
    <3>2. f = Data(token[n], cur[n])
      BY <2>4 DEF f, Transmit
    <3>3. Answered(n)'
      BY <1>1, <2>2, <3>1, <3>2 DEF Answered, Data
    <3>4. cur[k] # None => attempt[k] <= losses' + 1
      BY <1>0, <1>3, <2>1 DEF Charge
    <3> QED BY <1>1, <2>4, <3>3, <3>4 DEF Charge
  <2>5. CASE ~(k = n /\ Transmit(n))
    <3>1. pc'[k] # "send" => pc[k] # "send"
      BY <1>2, <2>5 DEF Acknowledge
    <3>2. Answered(k) => Answered(k)'
      <4>1. CASE k # n /\ Acknowledge(n) /\ ackToken[n] = token[k]
        <5>1. f = Ack(ackToken[n])
          BY <4>1 DEF f, Acknowledge
        <5> QED BY <1>1, <2>2, <4>1, <5>1 DEF Answered, Ack
      <4>2. CASE k = n \/ Transmit(n) \/ ackToken[n] # token[k]
        <5>1. \A j \in Nodes \ {k} : pc[j] = "ack" /\ ackToken[j] = token[k]
                => pc'[j] = "ack" /\ ackToken'[j] = ackToken[j]
          BY <1>2, <4>2 DEF Transmit
        <5> QED BY <1>1, <2>3, <5>1, AnswerStays
      <4> QED BY <4>1, <4>2
    <3>3. attempt[k] <= losses => attempt[k] <= losses'
      BY <1>0, <2>1
    <3>4. attempt[k] <= losses + 1 => attempt[k] <= losses' + 1
      BY <1>0, <2>1
    <3> QED BY <1>1, <1>3, <3>1, <3>2, <3>3, <3>4 DEF Charge
  <2> QED BY <2>4, <2>5
<1> QED BY <1>1, <1>4, <1>5, CalmBroadcast

(* Every step keeps the account, and no send fails.                        *)
LEMMA ChargeKept ==
  ASSUME TypeOK, LinkShape, Company, air = "calm", Charged,
         NEW n \in Nodes, NodeStep(n)
  PROVE  /\ \A k \in Nodes : pc'[k] # "down" /\ Charge(k)'
         /\ \A m \in Messages : outcome'[m] # "failed"
<1> DEFINE Goal == /\ \A k \in Nodes : pc'[k] # "down" /\ Charge(k)'
                   /\ \A m \in Messages : outcome'[m] # "failed"
<1>0. /\ rx \in [Nodes -> Seq(Frames)] /\ losses \in Nat
      /\ losses + 1 <= MaxAttempts /\ MaxAttempts \in Nat
      /\ attempt \in [Nodes -> 0..MaxAttempts] /\ \A k \in Nodes : attempt[k] \in Nat
      /\ pc \in [Nodes -> {"poll", "send", "wait", "ack", "down"}]
      /\ ackToken \in [Nodes -> Tokens \cup {0}] /\ token \in [Nodes -> Tokens \cup {0}]
      /\ cur \in [Nodes -> Messages \cup {None}]
      /\ outcome \in [Messages -> {"new", "sending", "completed", "failed", "abandoned"}]
  BY LinkConstants DEF TypeOK
<1>1. /\ \A k \in Nodes : pc[k] # "down" /\ Charge(k)
      /\ \A m \in Messages : outcome[m] # "failed"
  BY DEF Charged
(* Where n is not to acknowledge and no frame is drained, answers stay.    *)
<1>2. ASSUME NEW k \in Nodes, Answered(k), token'[k] = token[k], rx' = rx, pc[n] # "ack",
             \A j \in Nodes \ {n} : pc'[j] = pc[j] /\ ackToken'[j] = ackToken[j]
      PROVE  Answered(k)'
  BY <1>2, AnswerStays
<1>3. CASE Begin(n)
  <2>1. /\ pc[n] = "poll" /\ pc' = [pc EXCEPT ![n] = "send"] /\ rx' = rx /\ losses' = losses
        /\ attempt' = [attempt EXCEPT ![n] = 1] /\ token' = [token EXCEPT ![n] = next[n]]
        /\ ackToken' = ackToken
    BY <1>3 DEF Begin
  <2>2. Charge(n)' /\ pc'[n] # "down"
    <3>1. pc'[n] = "send" /\ attempt'[n] = 1 /\ 1 <= losses' + 1
      BY <1>0, <2>1
    <3> QED BY <3>1 DEF Charge
  <2>3. ASSUME NEW k \in Nodes \ {n} PROVE Charge(k)' /\ pc'[k] # "down"
    <3>1. /\ cur'[k] = cur[k] /\ attempt'[k] = attempt[k] /\ pc'[k] = pc[k]
          /\ token'[k] = token[k]
      BY <1>0, <1>3, <2>1 DEF Begin
    <3>2. Answered(k) => Answered(k)'
      BY <1>0, <1>2, <2>1, <3>1
    <3> QED BY <1>1, <2>1, <3>1, <3>2 DEF Charge
  <2>4. \A m \in Messages : outcome'[m] # "failed"
    BY <1>0, <1>1, <1>3 DEF Begin
  <2> QED BY <2>2, <2>3, <2>4
<1>4. CASE Transmit(n) \/ Acknowledge(n)
  <2>1. \A k \in Nodes : Charge(k)'
    BY <1>4, ChargeOfBroadcast
  <2>2. outcome' = outcome /\ \A k \in Nodes : pc'[k] # "down"
    BY <1>0, <1>1, <1>4 DEF Transmit, Acknowledge, users
  <2> QED BY <1>1, <2>1, <2>2
<1>5. CASE Timeout(n)
  <2>1. pc[n] = "wait" /\ cur[n] # None /\ ~Answering(n)
    BY <1>5 DEF Timeout, LinkShape
  <2>2. ~Answered(n)
    BY <2>1 DEF Answered, Answering
  <2>3. attempt[n] <= losses
    BY <1>1, <2>1, <2>2 DEF Charge
  <2>4. attempt[n] < MaxAttempts
    BY <1>0, <2>3
  <2>5. /\ attempt' = [attempt EXCEPT ![n] = @ + 1] /\ pc' = [pc EXCEPT ![n] = "send"]
        /\ UNCHANGED <<cur, token, rx, ackToken, losses, outcome>>
    BY <1>5, <2>4 DEF Timeout, users
  <2>6. Charge(n)' /\ pc'[n] # "down"
    <3>1. pc'[n] = "send" /\ attempt'[n] = attempt[n] + 1 /\ attempt[n] + 1 <= losses' + 1
      BY <1>0, <2>3, <2>5
    <3> QED BY <3>1 DEF Charge
  <2>7. ASSUME NEW k \in Nodes \ {n} PROVE Charge(k)' /\ pc'[k] # "down"
    <3>1. attempt'[k] = attempt[k] /\ pc'[k] = pc[k]
      BY <1>0, <2>5
    <3>2. Answered(k) => Answered(k)'
      BY <1>0, <1>2, <2>1, <2>5
    <3> QED BY <1>1, <2>5, <3>1, <3>2 DEF Charge
  <2> QED BY <1>1, <2>5, <2>6, <2>7
<1>6. CASE ReceiveData(n)
  <2>1. /\ Drains(n, "data") /\ pc' = [pc EXCEPT ![n] = "ack"]
        /\ ackToken' = [ackToken EXCEPT ![n] = Head(rx[n]).token]
        /\ UNCHANGED <<cur, token, attempt, losses, outcome>>
    BY <1>6 DEF ReceiveData, sendVars
  <2>2. pc[n] \in {"poll", "wait"} /\ Head(rx[n]).kind = "data"
        /\ \A j \in Nodes \ {n} : rx'[j] = rx[j]
    BY <1>0, <2>1 DEF Drains, Listening
  <2>3. \A j \in Nodes \ {n} : pc'[j] = pc[j] /\ ackToken'[j] = ackToken[j]
    BY <1>0, <2>1
  <2>4. ASSUME NEW k \in Nodes, Answered(k) PROVE Answered(k)'
    <3>1. CASE k # n /\ Head(rx[n]).token = token[k]
      <4>1. pc'[n] = "ack" /\ ackToken'[n] = token'[k]
        BY <1>0, <2>1, <3>1
      <4> QED BY <3>1, <4>1 DEF Answered
    <3>2. CASE k # n /\ Head(rx[n]).token # token[k]
      <4>1. \A j \in Nodes : \A i \in 1..Len(rx[j]) : rx[j][i].token = token[k] =>
              \E h \in 1..Len(rx'[j]) : rx'[j][h] = rx[j][i]
        BY <2>1, <2>2, <3>2, AfterDrain
      <4> QED BY <2>1, <2>2, <2>3, <2>4, <4>1, AnswerStays
    <3>3. CASE k = n
      <4>1. \A i \in 1..Len(rx[n]) : rx[n][i].kind = "ack" =>
              \E h \in 1..Len(rx'[n]) : rx'[n][h] = rx[n][i]
        BY <2>1, <2>2, AfterDrain
      <4> QED BY <2>1, <2>2, <2>3, <2>4, <3>3, <4>1 DEF Answered
    <3> QED BY <3>1, <3>2, <3>3
  <2>5. ASSUME NEW k \in Nodes PROVE Charge(k)' /\ pc'[k] # "down"
    <3>1. pc'[k] # "down" /\ (cur[k] # None /\ pc'[k] # "send" => pc[k] # "send")
      BY <1>0, <1>1, <2>1, <2>2
    <3> QED BY <1>1, <2>1, <2>4, <3>1 DEF Charge
  <2> QED BY <1>1, <2>1, <2>5
<1>7. CASE ReceiveAck(n)
  <2>1. /\ Drains(n, "ack") /\ UNCHANGED <<token, ackToken, losses>>
        /\ \A j \in Nodes \ {n} : rx'[j] = rx[j] /\ pc'[j] = pc[j] /\ cur'[j] = cur[j]
                                  /\ attempt'[j] = attempt[j]
    BY <1>0, <1>7 DEF ReceiveAck, Drains, Concluded
  <2>2. pc[n] \in {"poll", "wait"} /\ Head(rx[n]).kind = "ack"
    BY <2>1 DEF Drains, Listening
  <2>3. \A i \in 1..Len(rx[n]) : rx[n][i].kind = "data" =>
          \E h \in 1..Len(rx'[n]) : rx'[n][h] = rx[n][i]
    BY <2>1, <2>2, AfterDrain
  <2>4. ASSUME NEW k \in Nodes \ {n} PROVE Charge(k)' /\ pc'[k] # "down"
    <3>1. Answered(k) => Answered(k)'
      BY <2>1, <2>2, <2>3 DEF Answered
    <3> QED BY <1>1, <2>1, <3>1 DEF Charge
  <2>5. Charge(n)' /\ pc'[n] # "down"
    <3>1. CASE Expected(n, Head(rx[n]))
      <4>1. cur'[n] = None /\ pc'[n] = "poll"
        BY <1>0, <1>7, <3>1 DEF ReceiveAck, Concluded
      <4> QED BY <4>1 DEF Charge
    <3>2. CASE ~Expected(n, Head(rx[n]))
      <4>1. UNCHANGED <<pc, cur, attempt>>
        BY <1>7, <3>2 DEF ReceiveAck
      <4>2. ASSUME cur[n] # None, Answered(n) PROVE Answered(n)'
        <5>1. Head(rx[n]).token # token[n]
          BY <2>2, <3>2, <4>2 DEF Expected, LinkShape
        <5>2. \A j \in Nodes : \A i \in 1..Len(rx[j]) : rx[j][i].token = token[n] =>
                \E h \in 1..Len(rx'[j]) : rx'[j][h] = rx[j][i]
          BY <2>1, <5>1, AfterDrain
        <5> QED BY <2>1, <4>1, <4>2, <5>2, AnswerStays
      <4> QED BY <1>1, <2>1, <4>1, <4>2 DEF Charge
    <3> QED BY <3>1, <3>2
  <2>6. \A m \in Messages : outcome'[m] # "failed"
    <3>1. outcome' = outcome \/ outcome' = [outcome EXCEPT ![cur[n]] = "completed"]
      BY <1>7 DEF ReceiveAck, Concluded
    <3> QED BY <1>0, <1>1, <3>1
  <2> QED BY <2>4, <2>5, <2>6
<1>8. CASE RadioFails(n)
  BY <1>8 DEF RadioFails
<1>9. CASE Retry(n)
  BY <1>1, <1>9 DEF Retry
<1>10. CASE Restart(n)
  BY <1>10 DEF Restart
<1> QED BY <1>3, <1>4, <1>5, <1>6, <1>7, <1>8, <1>9, <1>10 DEF NodeStep, Step

(* Among radios that are not alone, as long as fewer frames are lost than  *)
(* a send has attempts and peers answer in time, no send fails, whatever   *)
(* the tokens (radio_worker.cpp:352-391, 413-482).                         *)
THEOREM LinkToleratesLosses ==
  ASSUME Company
  PROVE  Spec => []ToleratesLosses
<1>1. Init => Charged
  BY DEF Init, Charged, Charge
<1>2. TypeOK /\ LinkShape /\ Charged /\ [Next]_vars => Charged'
  <2> SUFFICES ASSUME TypeOK, LinkShape, Charged, [Next]_vars PROVE Charged'
    OBVIOUS
  <2>1. ASSUME NEW n \in Nodes, NodeStep(n), UNCHANGED air PROVE Charged'
    BY <2>1, ChargeKept DEF Charged
  <2>2. CASE UNCHANGED vars
    BY <2>2 DEF Charged, Charge, Answered, vars, sendVars, users
  <2> QED BY <2>1, <2>2, StepOfANode
<1>3. Charged => ToleratesLosses
  BY DEF Charged, ToleratesLosses
<1> QED BY <1>1, <1>2, <1>3, LinkShapeHolds, PTL DEF Spec
=============================================================================
