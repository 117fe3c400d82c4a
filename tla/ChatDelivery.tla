---------------------------- MODULE ChatDelivery ----------------------------
(***************************************************************************)
(* What the chat promises its users, and nothing of how: a message is      *)
(* shown at most once in a session of each receiver, it is called          *)
(* delivered only if somebody was shown it, and a failure says nothing     *)
(* about delivery.  ChatLink implements it.                                *)
(***************************************************************************)
EXTENDS Naturals

CONSTANTS
  Nodes,     (* the radios in range of each other                          *)
  Messages,  (* the messages sent, each once                               *)
  Sender(_)  (* the node that sends a message                              *)

VARIABLES
  outcome,   (* what the sender's screen says of each message              *)
  shown,     (* how often each node has shown it in its present session    *)
  reached    (* the messages somebody was ever shown                       *)

deliveryVars == <<outcome, shown, reached>>

Outcomes == {"new", "sending", "completed", "failed", "abandoned"}

DeliveryInit ==
  /\ outcome = [m \in Messages |-> "new"]
  /\ shown = [m \in Messages |-> [n \in Nodes |-> 0]]
  /\ reached = {}

Concludes(m, how) ==
  /\ outcome[m] = "sending"
  /\ outcome' = [outcome EXCEPT ![m] = how]
  /\ UNCHANGED <<shown, reached>>

Submit(m) ==
  /\ outcome[m] = "new"
  /\ outcome' = [outcome EXCEPT ![m] = "sending"]
  /\ UNCHANGED <<shown, reached>>

(* A late copy may be shown after the sender has given up.                 *)
Show(m, n) ==
  /\ outcome[m] # "new" /\ n # Sender(m) /\ shown[m][n] = 0
  /\ shown' = [shown EXCEPT ![m][n] = 1]
  /\ reached' = reached \cup {m}
  /\ UNCHANGED outcome

Complete(m) == m \in reached /\ Concludes(m, "completed")

Fail(m) == Concludes(m, "failed")

(* The end of a session: the node forgets what it showed, and what it was  *)
(* sending has no outcome.                                                 *)
EndSession(n) ==
  /\ outcome' = [m \in Messages |-> IF Sender(m) = n /\ outcome[m] = "sending"
                                    THEN "abandoned" ELSE outcome[m]]
  /\ shown' = [m \in Messages |-> [shown[m] EXCEPT ![n] = 0]]
  /\ UNCHANGED reached

DeliveryNext ==
  \/ \E m \in Messages : Submit(m) \/ Complete(m) \/ Fail(m)
  \/ \E m \in Messages, n \in Nodes : Show(m, n)
  \/ \E n \in Nodes : EndSession(n)

DeliverySpec == DeliveryInit /\ [][DeliveryNext]_deliveryVars
=============================================================================
