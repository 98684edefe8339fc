--------------------------- MODULE MessageDelivery ---------------------------
(***************************************************************************)
(* What messaging promises, without its network: between two starts of a   *)
(* node its user is shown a message at most once, only after it was sent,  *)
(* and not after it has expired on that node.                              *)
(***************************************************************************)
EXTENDS Integers

CONSTANTS
  Node,     \* the nodes of the network
  Envelope  \* the messages

VARIABLES
  sent,     \* the messages that have been sent
  shown,    \* shown[n][e]: how often n has shown e to its user since it started
  expired   \* expired[n]: the messages that have expired by the clock of n

vars == <<sent, shown, expired>>

Init ==
  /\ sent = {}
  /\ shown = [n \in Node |-> [e \in Envelope |-> 0]]
  /\ expired = [n \in Node |-> {}]

\* Messages are written, and shown to their author.
Send(n, es) ==
  /\ es \cap sent = {}
  /\ sent' = sent \cup es
  /\ shown' = [shown EXCEPT ![n] = [e \in Envelope |-> IF e \in es THEN 1 ELSE shown[n][e]]]
  /\ UNCHANGED expired

\* Messages that have been sent come to a node that has not shown them.
Show(n, es) ==
  /\ es \subseteq sent \ expired[n]
  /\ \A e \in es : shown[n][e] = 0
  /\ shown' = [shown EXCEPT ![n] = [e \in Envelope |-> IF e \in es THEN 1 ELSE shown[n][e]]]
  /\ UNCHANGED <<sent, expired>>

Expire(n, e) ==
  /\ e \in sent
  /\ expired' = [expired EXCEPT ![n] = @ \cup {e}]
  /\ UNCHANGED <<sent, shown>>

\* A restarted node has forgotten what it has shown.
Restart(n) ==
  /\ shown' = [shown EXCEPT ![n] = [e \in Envelope |-> 0]]
  /\ UNCHANGED <<sent, expired>>

Next ==
  \E n \in Node :
    \/ \E es \in SUBSET Envelope : Send(n, es) \/ Show(n, es)
    \/ \E e \in Envelope : Expire(n, e)
    \/ Restart(n)

Spec == Init /\ [][Next]_vars

=============================================================================
