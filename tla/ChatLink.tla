------------------------------ MODULE ChatLink ------------------------------
(***************************************************************************)
(* Several radios on one frequency, each running the protocol of           *)
(* src/src/radio/radio_worker.cpp with receive mode on: a sender           *)
(* transmits a data frame and waits for its acknowledgement, at most       *)
(* MaxAttempts times; a receiver acknowledges every data frame and shows   *)
(* it unless its token is among the last TokenWindow it remembers.         *)
(*                                                                         *)
(* RadioWorker says how one worker goes through its backend calls; here a  *)
(* transmission with the receive restart that follows it is one step, and  *)
(* what other radios transmit meanwhile is lost.  The medium is a          *)
(* broadcast that any listening radio may miss.  A radio keeps what it     *)
(* hears in the chip's FIFO until receive() drains it, and every           *)
(* startReceive() and stopReceive() flushes that FIFO.                     *)
(***************************************************************************)
EXTENDS Naturals, Sequences, SequencesExt, FiniteSets

CONSTANTS
  Nodes,         (* the radios in range of each other                      *)
  MessagesOf,    (* how many messages each node sends                      *)
  StartTokens,   (* per node, one set per session: the first tokens that   *)
                 (* randomProtocolToken() may draw in it                   *)
  MaxToken,      (* kProtocolTokenMask                                     *)
  MaxAttempts,   (* kMaximumSendAttempts                                   *)
  TokenWindow,   (* kRecentTokenCapacity                                   *)
  FifoFrames,    (* frames the chip's FIFO holds                           *)
  Conditions,    (* under which of rough and calm the radios work          *)
  None

Tokens   == 1..MaxToken
Messages == UNION {{n} \X (1..MessagesOf[n]) : n \in Nodes}
Sender(m) == m[1]

ASSUME LinkConstants ==
  /\ IsFiniteSet(Nodes) /\ MessagesOf \in [Nodes -> Nat]
  /\ StartTokens \in [Nodes -> Seq(SUBSET Tokens)]
  /\ \A n \in Nodes : StartTokens[n] # <<>>
  /\ \A n \in Nodes : \A s \in 1..Len(StartTokens[n]) : StartTokens[n][s] # {}
  /\ MaxToken \in Nat \ {0} /\ MaxAttempts \in Nat \ {0}
  /\ TokenWindow \in Nat \ {0} /\ FifoFrames \in Nat \ {0}
  /\ Conditions \subseteq {"rough", "calm"}
  /\ None \notin Messages

Data(t, m) == [kind |-> "data", token |-> t, msg |-> m]
Ack(t)     == [kind |-> "ack", token |-> t, msg |-> None]
Frames     == [kind : {"data"}, token : Tokens, msg : Messages]
                \cup [kind : {"ack"}, token : Tokens, msg : {None}]

VARIABLES
  pc,        (* poll, send, wait, ack, or down after a failure             *)
  session,   (* how many times the node has been started                   *)
  next,      (* _next_protocol_token                                       *)
  sent,      (* how many of its messages the node has begun to send        *)
  cur,       (* the message being sent, or None                            *)
  token,     (* handleSend()'s token                                       *)
  attempt,   (* handleSend()'s attempt                                     *)
  ackToken,  (* the token acknowledge() was called with                    *)
  recent,    (* _recent_rx_tokens                                          *)
  rx,        (* the frames in the chip's FIFO                              *)
  air,       (* calm: no backend call fails, peers answer in time, and     *)
             (* fewer frames are lost than a send has attempts             *)
  losses     (* frames lost so far in calm air                             *)

(* History: what the users have seen.                                      *)
VARIABLES outcome, shown, reached

sendVars == <<sent, cur, token, attempt>>
users    == <<outcome, shown, reached>>
vars == <<pc, session, next, sendVars, ackToken, recent, rx, air, losses, users>>

Init ==
  /\ pc = [n \in Nodes |-> "poll"] /\ session = [n \in Nodes |-> 1]
  /\ next \in [Nodes -> Tokens] /\ \A n \in Nodes : next[n] \in StartTokens[n][1]
  /\ sent = [n \in Nodes |-> 0] /\ cur = [n \in Nodes |-> None]
  /\ token = [n \in Nodes |-> 0] /\ attempt = [n \in Nodes |-> 0]
  /\ ackToken = [n \in Nodes |-> 0] /\ recent = [n \in Nodes |-> <<>>]
  /\ rx = [n \in Nodes |-> <<>>] /\ air \in Conditions /\ losses = 0
  /\ outcome = [m \in Messages |-> "new"]
  /\ shown = [m \in Messages |-> [n \in Nodes |-> 0]]
  /\ reached = {}
-----------------------------------------------------------------------------
(* The medium and the FIFO.                                                *)

(* A radio keeps what it hears only between a startReceive() and the next  *)
(* call that flushes.                                                      *)
Listening(n) == pc[n] \in {"poll", "wait"}

(* A FIFO that overflows is reset, with all it held.                       *)
Heard(q, f) == IF Len(q) < FifoFrames THEN Append(q, f) ELSE <<>>

(* The frames lost when the radios of S hear what n transmits: those not    *)
(* heard, those flushed at n, and those of a FIFO that overflows.          *)
LostWith(n, S) ==
  LET full == {k \in S : Len(rx[k]) = FifoFrames} IN
  Cardinality(Nodes \ S) - 1 + Len(rx[n]) + Cardinality(full) * (FifoFrames + 1)

(* n transmits f, its own FIFO flushed before and after.                   *)
Broadcast(n, f) ==
  \E S \in SUBSET {k \in Nodes \ {n} : Listening(k)} :
    /\ rx' = [k \in Nodes |-> IF k = n THEN <<>>
                              ELSE IF k \in S THEN Heard(rx[k], f) ELSE rx[k]]
    /\ IF air = "rough"
       THEN UNCHANGED losses
       ELSE losses + LostWith(n, S) < MaxAttempts /\ losses' = losses + LostWith(n, S)
-----------------------------------------------------------------------------
(* Mutant of NextToken: the counter wraps to zero.                         *)
WrapToZero(t) == IF t = MaxToken THEN 0 ELSE t + 1

(* nextProtocolToken(): zero is not a token.                               *)
NextToken(t) == IF t = MaxToken THEN 1 ELSE t + 1

(* The end of the current send of n.                                       *)
Concluded(n, how) ==
  /\ cur' = [cur EXCEPT ![n] = None]
  /\ attempt' = [attempt EXCEPT ![n] = 0]
  /\ outcome' = [outcome EXCEPT ![cur[n]] = how]

(* handleSend() begins with the next message.                              *)
Begin(n) ==
  /\ pc[n] = "poll" /\ sent[n] < MessagesOf[n]
  /\ sent' = [sent EXCEPT ![n] = @ + 1]
  /\ LET m == <<n, sent[n] + 1>> IN
     /\ cur' = [cur EXCEPT ![n] = m]
     /\ outcome' = [outcome EXCEPT ![m] = "sending"]
  /\ token' = [token EXCEPT ![n] = next[n]]
  /\ next' = [next EXCEPT ![n] = NextToken(@)]
  /\ attempt' = [attempt EXCEPT ![n] = 1]
  /\ pc' = [pc EXCEPT ![n] = "send"]
  /\ UNCHANGED <<session, ackToken, recent, rx, losses, shown, reached>>

(* One attempt: stopReceive, transmit, startReceive.                       *)
Transmit(n) ==
  /\ pc[n] = "send"
  /\ Broadcast(n, Data(token[n], cur[n]))
  /\ pc' = [pc EXCEPT ![n] = "wait"]
  /\ UNCHANGED <<session, next, sendVars, ackToken, recent, users>>

(* In calm air the deadline passes only when neither the frame nor   *)
(* its acknowledgement is under way.                                       *)
Answering(n) ==
  \E k \in Nodes : \/ pc[k] = "ack" /\ ackToken[k] = token[n]
                   \/ \E i \in 1..Len(rx[k]) : rx[k][i].token = token[n]

(* Mutant of Timeout: a send out of attempts starts over.                  *)
TimeoutRetriesForever(n) ==
  /\ pc[n] = "wait" /\ (air = "calm" => ~Answering(n))
  /\ attempt' = [attempt EXCEPT ![n] = IF @ < MaxAttempts THEN @ + 1 ELSE 1]
  /\ pc' = [pc EXCEPT ![n] = "send"]
  /\ UNCHANGED <<session, next, sent, cur, token, rx, ackToken, recent, losses, users>>

(* The acknowledgement wait runs out: the next attempt, or, after the      *)
(* last, the failure and an RX reset.                                      *)
Timeout(n) ==
  /\ pc[n] = "wait" /\ (air = "calm" => ~Answering(n))
  /\ IF attempt[n] < MaxAttempts
     THEN /\ attempt' = [attempt EXCEPT ![n] = @ + 1]
          /\ pc' = [pc EXCEPT ![n] = "send"]
          /\ UNCHANGED <<sent, cur, token, rx, users>>
     ELSE /\ Concluded(n, "failed")
          /\ pc' = [pc EXCEPT ![n] = "poll"]
          /\ rx' = [rx EXCEPT ![n] = <<>>]
          /\ UNCHANGED <<sent, token, shown, reached>>
  /\ UNCHANGED <<session, next, ackToken, recent, losses>>
-----------------------------------------------------------------------------
Remembered(q, t) == Append(IF Len(q) >= TokenWindow THEN Tail(q) ELSE q, t)

Drains(n, kind) ==
  /\ Listening(n) /\ rx[n] # <<>> /\ Head(rx[n]).kind = kind
  /\ rx' = [rx EXCEPT ![n] = Tail(@)]

(* Mutant of ReceiveData: a frame is shown every time it is heard.         *)
ReceiveDataTwice(n) ==
  /\ Drains(n, "data")
  /\ LET f == Head(rx[n]) IN
     /\ shown' = [shown EXCEPT ![f.msg][n] = IF @ = 2 THEN 2 ELSE @ + 1]
     /\ reached' = reached \cup {f.msg}
     /\ ackToken' = [ackToken EXCEPT ![n] = f.token]
  /\ pc' = [pc EXCEPT ![n] = "ack"]
  /\ UNCHANGED <<session, next, sendVars, recent, losses, outcome>>

(* Mutant of ReceiveData: a duplicate is dropped without acknowledgement.  *)
ReceiveDataAckOnce(n) ==
  /\ Drains(n, "data")
  /\ LET f == Head(rx[n]) IN
     IF f.token \in Range(recent[n])
     THEN UNCHANGED <<pc, recent, ackToken, shown, reached>>
     ELSE /\ recent' = [recent EXCEPT ![n] = Remembered(@, f.token)]
          /\ shown' = [shown EXCEPT ![f.msg][n] = IF @ = 2 THEN 2 ELSE @ + 1]
          /\ reached' = reached \cup {f.msg}
          /\ ackToken' = [ackToken EXCEPT ![n] = f.token]
          /\ pc' = [pc EXCEPT ![n] = "ack"]
  /\ UNCHANGED <<session, next, sendVars, losses, outcome>>

(* processReceivedPacket() of a data frame.  A frame shown twice counts 2. *)
ReceiveData(n) ==
  /\ Drains(n, "data")
  /\ LET f == Head(rx[n]) IN
     /\ IF f.token \in Range(recent[n])
        THEN UNCHANGED <<recent, shown, reached>>
        ELSE /\ recent' = [recent EXCEPT ![n] = Remembered(@, f.token)]
             /\ shown' = [shown EXCEPT ![f.msg][n] = IF @ = 2 THEN 2 ELSE @ + 1]
             /\ reached' = reached \cup {f.msg}
     /\ ackToken' = [ackToken EXCEPT ![n] = f.token]
  /\ pc' = [pc EXCEPT ![n] = "ack"]
  /\ UNCHANGED <<session, next, sendVars, losses, outcome>>

(* Mutant of Expected: any acknowledgement will do.                        *)
AnyAcknowledgement(n, f) == pc[n] = "wait"

(* The acknowledgement the sender waits for.                               *)
Expected(n, f) == pc[n] = "wait" /\ f.token = token[n]

(* processReceivedPacket() of an acknowledgement; a stale one is ignored.  *)
ReceiveAck(n) ==
  /\ Drains(n, "ack")
  /\ IF Expected(n, Head(rx[n]))
     THEN Concluded(n, "completed") /\ pc' = [pc EXCEPT ![n] = "poll"]
     ELSE UNCHANGED <<pc, cur, attempt, outcome>>
  /\ UNCHANGED <<session, next, sent, token, ackToken, recent, losses, shown, reached>>

(* acknowledge(), and back to the wait or the loop it was called from.     *)
Acknowledge(n) ==
  /\ pc[n] = "ack"
  /\ Broadcast(n, Ack(ackToken[n]))
  /\ pc' = [pc EXCEPT ![n] = IF cur[n] = None THEN "poll" ELSE "wait"]
  /\ ackToken' = [ackToken EXCEPT ![n] = 0]
  /\ UNCHANGED <<session, next, sendVars, recent, users>>
-----------------------------------------------------------------------------
(* Failures.                                                               *)

(* A backend call throws: a send in progress fails, and the radio is back  *)
(* in receive mode or closed; without a send it is closed.                 *)
RadioFails(n) ==
  /\ pc[n] # "down" /\ air = "rough"
  /\ IF cur[n] = None
     THEN pc' = [pc EXCEPT ![n] = "down"] /\ UNCHANGED <<cur, attempt, outcome>>
     ELSE /\ \E p \in {"poll", "down"} : pc' = [pc EXCEPT ![n] = p]
          /\ Concluded(n, "failed")
  /\ rx' = [rx EXCEPT ![n] = <<>>]
  /\ ackToken' = [ackToken EXCEPT ![n] = 0]
  /\ UNCHANGED <<session, next, sent, token, recent, losses, shown, reached>>

(* The user retries: the radio is open again, its tokens and its window    *)
(* are those it had.                                                       *)
Retry(n) ==
  /\ pc[n] = "down"
  /\ pc' = [pc EXCEPT ![n] = "poll"]
  /\ UNCHANGED <<session, next, sendVars, ackToken, recent, rx, losses, users>>

(* stop() and start(), at any moment: nothing is remembered, and the first *)
(* token is drawn again.                                                   *)
Restart(n) ==
  /\ air = "rough" /\ session[n] < Len(StartTokens[n])
  /\ session' = [session EXCEPT ![n] = @ + 1]
  /\ \E t \in StartTokens[n][session[n] + 1] : next' = [next EXCEPT ![n] = t]
  /\ pc' = [pc EXCEPT ![n] = "poll"]
  /\ cur' = [cur EXCEPT ![n] = None] /\ attempt' = [attempt EXCEPT ![n] = 0]
  /\ recent' = [recent EXCEPT ![n] = <<>>] /\ rx' = [rx EXCEPT ![n] = <<>>]
  /\ ackToken' = [ackToken EXCEPT ![n] = 0]
  /\ outcome' = [m \in Messages |-> IF m = cur[n] THEN "abandoned" ELSE outcome[m]]
  /\ shown' = [m \in Messages |-> [shown[m] EXCEPT ![n] = 0]]
  /\ UNCHANGED <<sent, token, losses, reached>>

Step(n) == \/ Transmit(n) \/ Timeout(n) \/ ReceiveData(n) \/ ReceiveAck(n)
           \/ Acknowledge(n)

Next == \E n \in Nodes : /\ \/ Step(n) \/ Begin(n)
                            \/ RadioFails(n) \/ Retry(n) \/ Restart(n)
                         /\ UNCHANGED air

Spec == Init /\ [][Next]_vars

(* Every worker thread runs.                                               *)
FairSpec == Spec /\ \A n \in Nodes : WF_vars(Step(n) /\ UNCHANGED air)
-----------------------------------------------------------------------------
TypeOK ==
  /\ pc \in [Nodes -> {"poll", "send", "wait", "ack", "down"}]
  /\ session \in [Nodes -> Nat \ {0}]
  /\ \A n \in Nodes : session[n] <= Len(StartTokens[n])
  /\ next \in [Nodes -> Tokens]
  /\ sent \in [Nodes -> Nat] /\ \A n \in Nodes : sent[n] <= MessagesOf[n]
  /\ cur \in [Nodes -> Messages \cup {None}]
  /\ token \in [Nodes -> Tokens \cup {0}]
  /\ attempt \in [Nodes -> 0..MaxAttempts]
  /\ ackToken \in [Nodes -> Tokens \cup {0}]
  /\ recent \in [Nodes -> Seq(Tokens)]
  /\ \A n \in Nodes : Len(recent[n]) <= TokenWindow
  /\ rx \in [Nodes -> Seq(Frames)]
  /\ \A n \in Nodes : Len(rx[n]) <= FifoFrames
  /\ air \in {"rough", "calm"} /\ losses \in 0..(MaxAttempts - 1)
  /\ outcome \in [Messages -> {"new", "sending", "completed", "failed", "abandoned"}]
  /\ shown \in [Messages -> [Nodes -> 0..2]]
  /\ reached \subseteq Messages

Delivery == INSTANCE ChatDelivery

(* The protocol keeps the promise of ChatDelivery over every loss, failure *)
(* and restart: no receiver shows a message twice in a session, and no     *)
(* message is called completed that nobody was shown.                      *)
Implements == Delivery!DeliverySpec

(* What it takes for that.  A receiver knows a copy by its token, and for  *)
(* as long as the window holds it: no two sessions may draw from the same  *)
(* tokens, and a receiver hears one other sender, or no more messages than *)
(* its window holds.  The code ensures neither: the first tokens are       *)
(* random, and the window is TokenWindow long (radio_worker.cpp:45, 28).   *)
TokenAfter(t, i) == IF t + i <= MaxToken THEN t + i ELSE t + i - MaxToken
TokensOf(n, s) == {TokenAfter(t, i) : t \in StartTokens[n][s], i \in 0..(MessagesOf[n] - 1)}
TokensApart ==
  /\ \A n \in Nodes : MessagesOf[n] <= MaxToken
  /\ \A n, k \in Nodes : \A s \in 1..Len(StartTokens[n]), r \in 1..Len(StartTokens[k]) :
       n # k \/ s # r => TokensOf(n, s) \cap TokensOf(k, r) = {}

Others(n) == {m \in Messages : Sender(m) # n}
OneVoice(n) == \A m, w \in Others(n) : Sender(m) = Sender(w)
FewMessages(n) == Cardinality(Others(n)) <= TokenWindow
WindowSuffices == \A n \in Nodes : OneVoice(n) \/ FewMessages(n)

(* The attempts are worth what they cost: as long as fewer frames are lost *)
(* than a send has attempts (in the air, in a flush, by an overflow) and   *)
(* peers answer in time, no send fails, whichever frames are lost,         *)
(* acknowledgements among them, and with sends under way both ways         *)
(* (radio_worker.cpp:377-457).                                             *)
ToleratesLosses == air = "calm" => \A m \in Messages : outcome[m] # "failed"

(* What that takes: no radio is alone.                                     *)
Company == \A n \in Nodes : Nodes # {n}

(* Every send that begins ends, whatever the other radios transmit.        *)
SendsConclude == \A m \in Messages : outcome[m] = "sending" ~> outcome[m] # "sending"
=============================================================================
