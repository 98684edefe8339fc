--------------------------- MODULE MessagingProofs ---------------------------
(***************************************************************************)
(* Proofs about Messaging for every network, every set of envelopes and    *)
(* every hop limit.  IInv is the inductive invariant.  Beside the types    *)
(* and the safety properties it says that nothing exists before it was     *)
(* written, that held messages are remembered, that a sender still knows   *)
(* what it has on the way, and that no node is its own peer.               *)
(***************************************************************************)
EXTENDS Messaging, TLAPS

\* What is remembered, expired or shown has been written.
OnlyCreated ==
  \A n \in Node :
    /\ localHistory[n] \subseteq created
    /\ expired[n] \subseteq created
    /\ \A e \in Envelope : shown[n][e] > 0 => e \in created

\* The held messages are part of the history: both forget what has expired.
HeldIsRemembered == \A n \in Node : heldMessages[n] \subseteq localHistory[n]

\* Who sent what is still on the way remembers it, unless it has expired there: a crash
\* of the sender empties the channel.  So a relay need not send anything back.
SenderRemembers == \A n, m \in Node, e \in Envelope : OnTheWay(n, m, e) => Served(n, e)

NeverItsOwnPeer == \A n \in Node : n \notin peers[n]

IInv ==
  /\ TypeOK
  /\ OnlyCreated
  /\ HeldIsRemembered
  /\ SenderRemembers
  /\ NeverItsOwnPeer
  /\ HeldForAbsentPeers
  /\ ShownIsRemembered
  /\ RecipientIsServed
  /\ HeldIsShared

-----------------------------------------------------------------------------
(* What is sent. *)

\* A connection joins two nodes.
LEMMA LinkJoinsTwo ==
  ASSUME NEW n \in Node, NEW m \in Node, {n, m} \in Link
  PROVE  n # m
  BY ConstantsAssumption

LEMMA BroadcastType ==
  ASSUME NEW es \in SUBSET Envelope, NEW hops \in 0..MaxHops, NEW receivers
  PROVE  Broadcast(es, hops, receivers) \in [Node -> SUBSET Message]
  BY DEF Broadcast, Message

LEMMA BatchType ==
  ASSUME NEW es \in SUBSET Envelope
  PROVE  Batch(es) \in SUBSET Message
  BY ConstantsAssumption DEF Batch, Message

LEMMA PostedType ==
  ASSUME TypeOK, NEW n \in Node, NEW msgs \in [Node -> SUBSET Message]
  PROVE  Posted(n, msgs) \in [Node -> SUBSET Message]
  BY DEF Posted, TypeOK

\* Nothing is relayed from the hop limit on, so that hops stay within it.
LEMMA RelayedType ==
  ASSUME TypeOK, NEW n \in Node, NEW m \in Node, NEW msg \in Message
  PROVE  Relayed(n, m, msg) \in [Node -> SUBSET Message]
<1>1. Accepted(m, msg) \in SUBSET Envelope
  BY DEF Accepted, Message
<1>2. CASE msg.hops < MaxHops
  <2>1. msg.hops + 1 \in 0..MaxHops
    BY <1>2, ConstantsAssumption DEF Message
  <2>2. QED
    BY <1>1, <1>2, <2>1, BroadcastType DEF Relayed
<1>3. CASE ~(msg.hops < MaxHops)
  BY <1>3 DEF Relayed
<1>4. QED
  BY <1>2, <1>3

LEMMA GreetingType ==
  ASSUME TypeOK, NEW n \in Node, NEW m \in Node, NEW es \in SUBSET Envelope
  PROVE  Greeting(n, m, es) \in [Node -> SUBSET Message]
<1> DEFINE forPeer == {e \in heldMessages[n] : To[e] = m}
           others  == heldMessages[n] \ forPeer
           history == {e \in localHistory[n] \cup es : To[e] = m}
           toAll   == Broadcast(es, 0, peers[n] \cup {m})
<1>1. /\ forPeer \ expired[n] \in SUBSET Envelope
      /\ others \ expired[n] \in SUBSET Envelope
      /\ history \ expired[n] \in SUBSET Envelope
  BY DEF TypeOK
<1>2. 0 \in 0..MaxHops
  BY ConstantsAssumption
<1>3. toAll \in [Node -> SUBSET Message]
  BY <1>2, BroadcastType
<1>4. /\ Batch(forPeer \ expired[n]) \in SUBSET Message
      /\ Batch(others \ expired[n]) \in SUBSET Message
      /\ Batch(history \ expired[n]) \in SUBSET Message
  BY <1>1, BatchType
<1> HIDE DEF forPeer, others, history, toAll
<1>5. QED
  BY <1>3, <1>4 DEF Greeting, forPeer, others, history, toAll

\* The count of showings stays within its bound.
LEMMA ShowType ==
  ASSUME TypeOK, NEW n \in Node, NEW es, Show(n, es)
  PROVE  shown' \in [Node -> [Envelope -> 0..MaxShown]]
  BY ConstantsAssumption DEF Show, TypeOK

-----------------------------------------------------------------------------
(* Types. *)

LEMMA TypesInit == Init => TypeOK
  BY ConstantsAssumption DEF Init, TypeOK

LEMMA TypesNext == TypeOK /\ [Next]_vars => TypeOK'
<1> SUFFICES ASSUME TypeOK, [Next]_vars
             PROVE  TypeOK'
  OBVIOUS
<1>1. ASSUME NEW n \in Node, NEW e \in Envelope, CreateAndSend(n, e)
      PROVE  TypeOK'
  <2>1. 0 \in 0..MaxHops
    BY ConstantsAssumption
  <2>2. Posted(n, Broadcast({e}, 0, peers[n])) \in [Node -> SUBSET Message]
    BY <2>1, BroadcastType, PostedType
  <2>3. shown' \in [Node -> [Envelope -> 0..MaxShown]]
    BY <1>1, ShowType DEF CreateAndSend
  <2>4. QED
    BY <1>1, <2>2, <2>3 DEF CreateAndSend, ForAbsent, TypeOK
<1>2. ASSUME NEW n \in Node, NEW e \in Envelope, Expire(n, e)
      PROVE  TypeOK'
  BY <1>2 DEF Expire, nodeVars, TypeOK
<1>3. ASSUME NEW n \in Node, NEW m \in Node, Open(n, m)
      PROVE  TypeOK'
  BY <1>3 DEF Open, nodeVars, TypeOK
<1>4. ASSUME NEW n \in Node, NEW m \in Node, Register(n, m)
      PROVE  TypeOK'
  <2>1. PICK es \in SUBSET {e \in Envelope \ created : From[e] = n /\ To[e] = m} :
          /\ created' = created \cup es
          /\ localHistory' = [localHistory EXCEPT ![n] = @ \cup es]
          /\ Show(n, es)
          /\ channel' = [channel EXCEPT ![n] = Posted(n, Greeting(n, m, es))]
    BY <1>4 DEF Register
  <2>2. Posted(n, Greeting(n, m, es)) \in [Node -> SUBSET Message]
    BY <2>1, GreetingType, PostedType
  <2>3. shown' \in [Node -> [Envelope -> 0..MaxShown]]
    BY <2>1, ShowType
  <2>4. heldMessages' \in [Node -> SUBSET Envelope]
    BY <1>4 DEF Register, TypeOK
  <2>5. channel' \in [Node -> [Node -> SUBSET Message]]
    BY <2>1, <2>2 DEF TypeOK
  <2>6. /\ created' \subseteq Envelope
        /\ localHistory' \in [Node -> SUBSET Envelope]
    BY <2>1 DEF TypeOK
  <2>7. QED
    BY <1>4, <2>3, <2>4, <2>5, <2>6 DEF Register, TypeOK
<1>5. ASSUME NEW n \in Node, NEW m \in Node, Break(n, m)
      PROVE  TypeOK'
  BY <1>5 DEF Break, nodeVars, TypeOK
<1>6. ASSUME NEW n \in Node, NEW m \in Node, Close(n, m)
      PROVE  TypeOK'
  BY <1>6 DEF Close, nodeVars, TypeOK
<1>7. ASSUME NEW n \in Node, NEW m \in Node, NEW msg \in channel[n][m], Receive(n, m, msg)
      PROVE  TypeOK'
  <2>1. msg \in Message
    BY DEF TypeOK
  <2>2. Posted(m, Relayed(n, m, msg)) \in [Node -> SUBSET Message]
    BY <2>1, RelayedType, PostedType
  <2>3. shown' \in [Node -> [Envelope -> 0..MaxShown]]
    BY <1>7, ShowType DEF Receive
  <2>4. Accepted(m, msg) \in SUBSET Envelope
    BY <2>1 DEF Accepted, Message
  <2>5. channel' \in [Node -> [Node -> SUBSET Message]]
    BY <1>7, <2>2 DEF Receive, TypeOK
  <2>6. missed' \in [Node -> SUBSET (Node \X Envelope)]
    BY <1>7, <2>4 DEF Receive, TypeOK
  <2>7. QED
    BY <1>7, <2>3, <2>4, <2>5, <2>6 DEF Receive, ForAbsent, TypeOK
<1>8. ASSUME NEW n \in Node, Restart(n)
      PROVE  TypeOK'
  <2>1. [e \in Envelope |-> 0] \in [Envelope -> 0..MaxShown]
    BY ConstantsAssumption
  <2>2. QED
    BY <1>8, <2>1 DEF Restart, TypeOK
<1>9. ASSUME NEW n \in Node, Sweep(n)
      PROVE  TypeOK'
  BY <1>9 DEF Sweep, TypeOK
<1>10. ASSUME NEW n \in Node, NEW m \in Node, NEW msg \in channel[n][m],
              ArriveUnheard(n, m, msg) \/ ArriveGarbled(n, m, msg)
       PROVE  TypeOK'
  <2>1. Lost(n, m, msg) /\ torn' \subseteq Node \X Node
    BY <1>10 DEF ArriveUnheard, ArriveGarbled, TypeOK
  <2>2. missed' \in [Node -> SUBSET (Node \X Envelope)]
    <3>1. {<<m, e>> : e \in msg.envelopes} \subseteq Node \X Envelope
      BY DEF TypeOK, Message
    <3>2. QED
      BY <2>1, <3>1 DEF Lost, TypeOK
  <2>3. channel' \in [Node -> [Node -> SUBSET Message]]
    BY <2>1 DEF Lost, TypeOK
  <2>4. QED
    BY <2>1, <2>2, <2>3 DEF Lost, nodeVars, TypeOK
<1>11. CASE UNCHANGED vars
  BY <1>11 DEF vars, nodeVars, TypeOK
<1>12. QED
  BY <1>1, <1>2, <1>3, <1>4, <1>5, <1>6, <1>7, <1>8, <1>9, <1>10, <1>11 DEF Next

-----------------------------------------------------------------------------
(* What is on the way. *)

\* e is in one of the messages that are sent to m.
Carried(msgs, m, e) == \E msg \in msgs[m] : e \in msg.envelopes

LEMMA BroadcastCarries ==
  ASSUME NEW es, NEW hops, NEW receivers, NEW m \in Node, NEW e
  PROVE  Carried(Broadcast(es, hops, receivers), m, e) <=> m \in receivers /\ e \in es
<1> DEFINE msgs == Broadcast(es, hops, receivers)[m]
<1>1. CASE m \in receivers
  <2>1. msgs = {[envelopes |-> {f}, hops |-> hops] : f \in es}
    BY <1>1 DEF Broadcast
  <2> HIDE DEF msgs
  <2>2. ASSUME e \in es
        PROVE  \E msg \in msgs : e \in msg.envelopes
    <3>1. [envelopes |-> {e}, hops |-> hops] \in msgs
      BY <2>1, <2>2
    <3>2. e \in [envelopes |-> {e}, hops |-> hops].envelopes
      OBVIOUS
    <3>3. QED
      BY <3>1, <3>2
  <2>3. ASSUME NEW msg \in msgs, e \in msg.envelopes
        PROVE  e \in es
    <3>1. PICK f \in es : msg = [envelopes |-> {f}, hops |-> hops]
      BY <2>1
    <3>2. QED
      BY <2>3, <3>1
  <2>4. QED
    BY <1>1, <2>2, <2>3 DEF Carried, msgs
<1>2. CASE m \notin receivers
  <2>1. msgs = {}
    BY <1>2 DEF Broadcast
  <2>2. QED
    BY <1>2, <2>1 DEF Carried
<1>3. QED
  BY <1>1, <1>2

LEMMA RelayedCarries ==
  ASSUME NEW n, NEW m, NEW msg, NEW k \in Node, NEW e
  PROVE  Carried(Relayed(n, m, msg), k, e)
           <=> msg.hops < MaxHops /\ k \in peers[m] \ {n} /\ e \in Accepted(m, msg)
<1>1. CASE msg.hops < MaxHops
  BY <1>1, BroadcastCarries DEF Relayed
<1>2. CASE ~(msg.hops < MaxHops)
  BY <1>2 DEF Relayed, Carried
<1>3. QED
  BY <1>1, <1>2

LEMMA BatchCarries ==
  ASSUME NEW es, NEW e
  PROVE  (\E msg \in Batch(es) : e \in msg.envelopes) <=> e \in es
<1>1. CASE es = {}
  BY <1>1 DEF Batch
<1>2. CASE es # {}
  <2>1. Batch(es) = {[envelopes |-> es, hops |-> 0]}
    BY <1>2 DEF Batch
  <2>2. [envelopes |-> es, hops |-> 0].envelopes = es
    OBVIOUS
  <2>3. QED
    BY <2>1, <2>2
<1>3. QED
  BY <1>1, <1>2

\* The registered peer is sent all that is new, held, or remembered for it; the others
\* are sent what is new.
HandedOver(n, m, es, k, e) ==
  \/ e \in es /\ k \in peers[n] \cup {m}
  \/ /\ k = m
     /\ e \notin expired[n]
     /\ e \in heldMessages[n] \/ (e \in localHistory[n] \cup es /\ To[e] = m)

LEMMA GreetingCarries ==
  ASSUME NEW n, NEW m \in Node, NEW es, NEW k \in Node, NEW e
  PROVE  Carried(Greeting(n, m, es), k, e) <=> HandedOver(n, m, es, k, e)
<1> DEFINE forPeer == {f \in heldMessages[n] : To[f] = m}
           others  == heldMessages[n] \ (forPeer)
           history == {f \in localHistory[n] \cup es : To[f] = m}
           toPeer  == Batch(forPeer \ expired[n]) \cup Batch(history \ expired[n])
                      \cup Batch(others \ expired[n])
           toAll   == Broadcast(es, 0, peers[n] \cup {m})
<1>1. Greeting(n, m, es)[k] = IF k = m THEN toAll[k] \cup toPeer ELSE toAll[k]
  BY DEF Greeting
<1>2. (\E msg \in toAll[k] : e \in msg.envelopes) <=> e \in es /\ k \in peers[n] \cup {m}
  <2>1. Carried(Broadcast(es, 0, peers[n] \cup {m}), k, e) <=> e \in es /\ k \in peers[n] \cup {m}
    BY BroadcastCarries
  <2>2. QED
    BY <2>1 DEF Carried
<1>3. (\E msg \in toPeer : e \in msg.envelopes)
        <=> \/ e \in forPeer \ expired[n]
            \/ e \in history \ expired[n]
            \/ e \in others \ expired[n]
  <2>1. ASSUME NEW fs
        PROVE  (\E msg \in Batch(fs) : e \in msg.envelopes) <=> e \in fs
    BY BatchCarries
  <2> HIDE DEF forPeer, others, history
  <2>2. (\E msg \in toPeer : e \in msg.envelopes)
          <=> \/ \E msg \in Batch(forPeer \ expired[n]) : e \in msg.envelopes
              \/ \E msg \in Batch(history \ expired[n]) : e \in msg.envelopes
              \/ \E msg \in Batch(others \ expired[n]) : e \in msg.envelopes
    OBVIOUS
  <2>3. QED
    BY <2>1, <2>2
<1>4. QED
  BY <1>1, <1>2, <1>3 DEF Carried, HandedOver

\* Sending takes nothing away from the channels, and adds what is sent to live ones.
LEMMA PostedOnTheWay ==
  ASSUME TypeOK, NEW n \in Node, NEW msgs,
         channel' = [channel EXCEPT ![n] = Posted(n, msgs)],
         NEW k \in Node, NEW m \in Node, NEW e
  PROVE  /\ OnTheWay(k, m, e)' => OnTheWay(k, m, e) \/ (k = n /\ Carried(msgs, m, e))
         /\ OnTheWay(k, m, e) => OnTheWay(k, m, e)'
         /\ k = n /\ {n, m} \in link /\ Carried(msgs, m, e) => OnTheWay(k, m, e)'
<1>1. CASE k = n
  <2>1. channel'[k][m] = IF {n, m} \in link THEN channel[n][m] \cup msgs[m] ELSE channel[n][m]
    BY <1>1 DEF Posted, TypeOK
  <2>2. QED
    BY <1>1, <2>1 DEF OnTheWay, Carried
<1>2. CASE k # n
  <2>1. channel'[k][m] = channel[k][m]
    BY <1>2 DEF TypeOK
  <2>2. QED
    BY <1>2, <2>1 DEF OnTheWay
<1>3. QED
  BY <1>1, <1>2

\* Receiving takes one message away, and relaying adds to the live channels of the relay.
LEMMA ReceivedOnTheWay ==
  ASSUME TypeOK, NEW n \in Node, NEW m \in Node, n # m, NEW msg, Receive(n, m, msg),
         NEW k \in Node, NEW l \in Node, NEW e
  PROVE  /\ OnTheWay(k, l, e)'
              => OnTheWay(k, l, e) \/ (k = m /\ Carried(Relayed(n, m, msg), l, e))
         /\ OnTheWay(k, l, e)
              => OnTheWay(k, l, e)' \/ (k = n /\ l = m /\ e \in msg.envelopes)
         /\ k = m /\ {m, l} \in link /\ Carried(Relayed(n, m, msg), l, e)
              => OnTheWay(k, l, e)'
<1> DEFINE msgs == Relayed(n, m, msg)
<1>1. channel' = [channel EXCEPT ![n][m] = @ \ {msg}, ![m] = Posted(m, msgs)]
  BY DEF Receive
<1> HIDE DEF msgs
<1>2. CASE k = m
  <2>1. channel'[k][l] = IF {m, l} \in link THEN channel[m][l] \cup msgs[l] ELSE channel[m][l]
    BY <1>1, <1>2 DEF Posted, TypeOK
  <2>2. QED
    BY <1>2, <2>1 DEF OnTheWay, Carried, msgs
<1>3. CASE k = n /\ l = m
  <2>1. channel'[k][l] = channel[n][m] \ {msg}
    BY <1>1, <1>3 DEF TypeOK
  <2>2. QED
    BY <1>3, <2>1 DEF OnTheWay
<1>4. CASE k # m /\ ~(k = n /\ l = m)
  <2>1. channel'[k][l] = channel[k][l]
    BY <1>1, <1>4 DEF TypeOK
  <2>2. QED
    BY <1>4, <2>1 DEF OnTheWay
<1>5. QED
  BY <1>2, <1>3, <1>4

-----------------------------------------------------------------------------
(* The actions that send. *)

\* What a message from n carries has been written, and n knows it.
LEMMA OnTheWayIsKnown ==
  ASSUME IInv, NEW n \in Node, NEW m \in Node, NEW msg \in channel[n][m]
  PROVE  /\ msg \in Message
         /\ \A e \in msg.envelopes : e \in Envelope /\ e \in created /\ Served(n, e)
         /\ Accepted(m, msg) \subseteq created \ (expired[m] \cup localHistory[m])
<1>1. msg \in Message
  BY DEF IInv, TypeOK
<1>2. \A e \in msg.envelopes : e \in Envelope /\ Served(n, e)
  BY <1>1 DEF IInv, SenderRemembers, OnTheWay, Message
<1>3. \A e \in msg.envelopes : e \in created
  BY <1>2 DEF IInv, OnlyCreated, Served
<1>4. QED
  BY <1>1, <1>2, <1>3 DEF Accepted

\* The envelopes es are shown by n once more, the others as often as before.
LEMMA ShownAfter ==
  ASSUME TypeOK, NEW n \in Node, NEW es, Show(n, es), NEW k \in Node, NEW e \in Envelope
  PROVE  shown'[k][e] > 0 => shown[k][e] > 0 \/ (k = n /\ e \in es)
  BY DEF Show, TypeOK

LEMMA CreateAndSendKeeps ==
  ASSUME IInv, TypeOK', NEW n \in Node, NEW e \in Envelope, CreateAndSend(n, e)
  PROVE  IInv'
<1> USE DEF IInv
<1>1. OnlyCreated'
  <2>1. \A k \in Node, f \in Envelope : shown'[k][f] > 0 => shown[k][f] > 0 \/ f = e
    BY ShownAfter DEF CreateAndSend
  <2>2. QED
    BY <2>1 DEF OnlyCreated, CreateAndSend, TypeOK
<1>2. HeldIsRemembered'
  BY DEF HeldIsRemembered, CreateAndSend, ForAbsent, TypeOK
<1>3. NeverItsOwnPeer'
  BY DEF NeverItsOwnPeer, CreateAndSend
<1>4. HeldForAbsentPeers'
  BY DEF HeldForAbsentPeers, CreateAndSend, ForAbsent, TypeOK
<1>5. ShownIsRemembered'
  <2>1. \A k \in Node, f \in Envelope :
          shown'[k][f] > 0 => shown[k][f] > 0 \/ (k = n /\ f = e)
    BY ShownAfter DEF CreateAndSend
  <2>2. QED
    BY <2>1 DEF ShownIsRemembered, CreateAndSend, TypeOK
<1>6. ASSUME NEW k \in Node, NEW m \in Node, NEW f \in Envelope
      PROVE  /\ OnTheWay(k, m, f)' => OnTheWay(k, m, f) \/ (k = n /\ f = e)
             /\ OnTheWay(k, m, f) => OnTheWay(k, m, f)'
             /\ k = n /\ f = e /\ Reaches(n, m) => OnTheWay(k, m, f)'
  <2>1. channel' = [channel EXCEPT ![n] = Posted(n, Broadcast({e}, 0, peers[n]))]
    BY DEF CreateAndSend
  <2>2. Carried(Broadcast({e}, 0, peers[n]), m, f) <=> m \in peers[n] /\ f \in {e}
    BY BroadcastCarries
  <2>3. QED
    BY <2>1, <2>2, PostedOnTheWay DEF Reaches
<1>7. /\ \A k \in Node, f \in Envelope : Served(k, f) => Served(k, f)'
      /\ Served(n, e)'
      /\ \A k, m \in Node : Reaches(k, m)' <=> Reaches(k, m)
  BY DEF CreateAndSend, Served, Reaches, TypeOK
<1>8. SenderRemembers'
  BY <1>6, <1>7 DEF SenderRemembers
<1>9. RecipientIsServed'
  <2> SUFFICES ASSUME NEW f \in Envelope, NEW k \in Node,
                      (f \in localHistory[k] \ expired[k])', Reaches(k, To[f])',
                      (<<To[f], f>> \notin missed[k])'
               PROVE  Served(To[f], f)' \/ OnTheWay(k, To[f], f)'
    BY DEF RecipientIsServed
  <2>1. To[f] \in Node
    BY ConstantsAssumption
  <2>2. CASE k = n /\ f = e
    BY <1>6, <1>7, <2>1, <2>2
  <2>3. CASE ~(k = n /\ f = e)
    <3>1. f \in localHistory[k] \ expired[k] /\ <<To[f], f>> \notin missed[k]
      BY <2>3 DEF CreateAndSend, TypeOK
    <3>2. QED
      BY <1>6, <1>7, <2>1, <3>1 DEF RecipientIsServed
  <2>4. QED
    BY <2>2, <2>3
<1>10. HeldIsShared'
  <2> SUFFICES ASSUME NEW k \in Node, NEW m \in Node, NEW f \in (heldMessages[k] \ expired[k])',
                      Reaches(k, m)', (<<m, f>> \notin missed[k])'
               PROVE  Served(m, f)' \/ OnTheWay(k, m, f)'
    BY DEF HeldIsShared
  <2>1. f \in Envelope
    BY DEF TypeOK
  <2>2. CASE k = n /\ f = e
    BY <1>6, <1>7, <2>2
  <2>3. CASE ~(k = n /\ f = e)
    <3>1. f \in heldMessages[k] \ expired[k] /\ <<m, f>> \notin missed[k]
      BY <2>3 DEF CreateAndSend, ForAbsent, TypeOK
    <3>2. QED
      BY <1>6, <1>7, <2>1, <3>1 DEF HeldIsShared
  <2>4. QED
    BY <2>2, <2>3
<1>11. QED
  BY <1>1, <1>2, <1>3, <1>4, <1>5, <1>8, <1>9, <1>10

\* What a relay takes in it sends to every peer but the one it has it from, who knows it;
\* at the hop limit it notes whom it left out.
LEMMA ReceiveKeeps ==
  ASSUME IInv, TypeOK', NEW n \in Node, NEW m \in Node, NEW msg \in channel[n][m],
         Receive(n, m, msg)
  PROVE  IInv'
<1> USE DEF IInv
<1> DEFINE new == Accepted(m, msg)
<1>1. /\ msg \in Message
      /\ new \subseteq created \ (expired[m] \cup localHistory[m])
      /\ \A e \in msg.envelopes : e \in Envelope /\ Served(n, e)
      /\ new \subseteq msg.envelopes
  BY OnTheWayIsKnown DEF Accepted
<1>2. n # m
  BY DEF Receive, NeverItsOwnPeer
<1>3. /\ localHistory' = [localHistory EXCEPT ![m] = @ \cup new]
      /\ Show(m, new)
      /\ heldMessages' = [heldMessages EXCEPT ![m] = @ \cup ForAbsent(new, peers[m])]
      /\ missed' = [missed EXCEPT ![m] =
                        IF msg.hops < MaxHops THEN @ ELSE @ \cup (peers[m] \ {n}) \X new]
      /\ UNCHANGED <<created, expired, link, peers>>
  BY DEF Receive
<1>4. \A k \in Node, e \in Envelope :
        shown'[k][e] > 0 => shown[k][e] > 0 \/ (k = m /\ e \in new)
  BY <1>3, ShownAfter
<1>5. /\ \A k \in Node, e \in Envelope : Served(k, e) => Served(k, e)'
      /\ \A e \in msg.envelopes : Served(m, e)'
      /\ \A k, l \in Node : Reaches(k, l)' <=> Reaches(k, l)
  BY <1>1, <1>3 DEF Served, Reaches, Accepted, TypeOK
<1>6. ASSUME NEW k \in Node, NEW l \in Node, NEW e \in Envelope
      PROVE  /\ OnTheWay(k, l, e)' => OnTheWay(k, l, e) \/ (k = m /\ e \in new)
             /\ OnTheWay(k, l, e) => OnTheWay(k, l, e)' \/ Served(l, e)'
             /\ k = m /\ e \in new /\ Reaches(m, l) /\ l # n /\ msg.hops < MaxHops
                  => OnTheWay(k, l, e)'
  <2>1. Carried(Relayed(n, m, msg), l, e)
          <=> msg.hops < MaxHops /\ l \in peers[m] \ {n} /\ e \in new
    BY RelayedCarries
  <2>2. /\ OnTheWay(k, l, e)'
              => OnTheWay(k, l, e) \/ (k = m /\ Carried(Relayed(n, m, msg), l, e))
        /\ OnTheWay(k, l, e)
              => OnTheWay(k, l, e)' \/ (k = n /\ l = m /\ e \in msg.envelopes)
        /\ k = m /\ {m, l} \in link /\ Carried(Relayed(n, m, msg), l, e)
              => OnTheWay(k, l, e)'
    BY <1>2, ReceivedOnTheWay
  <2>3. QED
    BY <1>5, <2>1, <2>2 DEF Reaches
<1>7. OnlyCreated'
  BY <1>1, <1>3, <1>4 DEF OnlyCreated, TypeOK
<1>8. HeldIsRemembered'
  BY <1>3 DEF HeldIsRemembered, ForAbsent, TypeOK
<1>9. NeverItsOwnPeer' /\ HeldForAbsentPeers'
  BY <1>3 DEF NeverItsOwnPeer, HeldForAbsentPeers, ForAbsent, TypeOK
<1>10. ShownIsRemembered'
  BY <1>3, <1>4 DEF ShownIsRemembered, TypeOK
<1>11. SenderRemembers'
  BY <1>1, <1>5, <1>6 DEF SenderRemembers
<1>12. ASSUME NEW l \in Node, NEW e \in new, Reaches(m, l)', (<<l, e>> \notin missed[m])'
       PROVE  Served(l, e)' \/ OnTheWay(m, l, e)'
  <2>1. e \in Envelope
    BY <1>1
  <2>2. CASE l = n
    BY <1>1, <1>5, <2>1, <2>2
  <2>3. CASE l # n
    <3>1. l \in peers[m] \ {n}
      BY <1>5, <1>12, <2>3 DEF Reaches
    <3>2. msg.hops < MaxHops
      BY <1>3, <1>12, <3>1 DEF TypeOK
    <3>3. QED
      BY <1>5, <1>6, <1>12, <2>1, <2>3, <3>2
  <2>4. QED
    BY <2>2, <2>3
<1>13. RecipientIsServed'
  <2> SUFFICES ASSUME NEW e \in Envelope, NEW k \in Node,
                      (e \in localHistory[k] \ expired[k])', Reaches(k, To[e])',
                      (<<To[e], e>> \notin missed[k])'
               PROVE  Served(To[e], e)' \/ OnTheWay(k, To[e], e)'
    BY DEF RecipientIsServed
  <2>1. To[e] \in Node
    BY ConstantsAssumption
  <2>2. CASE k = m /\ e \in new
    BY <1>12, <2>1, <2>2
  <2>3. CASE ~(k = m /\ e \in new)
    <3>1. e \in localHistory[k] \ expired[k] /\ <<To[e], e>> \notin missed[k]
      BY <1>3, <2>3 DEF TypeOK
    <3>2. QED
      BY <1>5, <1>6, <2>1, <3>1 DEF RecipientIsServed
  <2>4. QED
    BY <2>2, <2>3
<1>14. HeldIsShared'
  <2> SUFFICES ASSUME NEW k \in Node, NEW l \in Node, NEW e \in (heldMessages[k] \ expired[k])',
                      Reaches(k, l)', (<<l, e>> \notin missed[k])'
               PROVE  Served(l, e)' \/ OnTheWay(k, l, e)'
    BY DEF HeldIsShared
  <2>1. e \in Envelope
    BY DEF TypeOK
  <2>2. CASE k = m /\ e \in new
    BY <1>12, <2>2
  <2>3. CASE ~(k = m /\ e \in new)
    <3>1. e \in heldMessages[k] \ expired[k] /\ <<l, e>> \notin missed[k]
      BY <1>3, <2>3 DEF ForAbsent, TypeOK
    <3>2. QED
      BY <1>5, <1>6, <2>1, <3>1 DEF HeldIsShared
  <2>4. QED
    BY <2>2, <2>3
<1>15. QED
  BY <1>7, <1>8, <1>9, <1>10, <1>11, <1>13, <1>14

-----------------------------------------------------------------------------
(* The connections and the clocks. *)

\* The peer that is registered is sent all that n remembers for it and holds for others.
LEMMA RegisterKeeps ==
  ASSUME IInv, TypeOK', NEW n \in Node, NEW m \in Node, Register(n, m)
  PROVE  IInv'
<1> USE DEF IInv
<1>1. PICK es \in SUBSET {e \in Envelope \ created : From[e] = n /\ To[e] = m} :
        /\ created' = created \cup es
        /\ localHistory' = [localHistory EXCEPT ![n] = @ \cup es]
        /\ Show(n, es)
        /\ channel' = [channel EXCEPT ![n] = Posted(n, Greeting(n, m, es))]
  BY DEF Register
<1>2. /\ {n, m} \in link /\ m \notin peers[n]
      /\ peers' = [peers EXCEPT ![n] = @ \cup {m}]
      /\ heldMessages' = [heldMessages EXCEPT ![n] = {e \in @ \ expired[n] : To[e] # m}]
      /\ UNCHANGED <<expired, link, missed>>
  BY DEF Register
<1>3. n # m
  BY <1>2, LinkJoinsTwo DEF TypeOK
<1>4. \A k \in Node, e \in Envelope :
        shown'[k][e] > 0 => shown[k][e] > 0 \/ (k = n /\ e \in es)
  BY <1>1, ShownAfter
<1>5. /\ \A k \in Node, e \in Envelope : Served(k, e) => Served(k, e)'
      /\ \A e \in es : Served(n, e)'
      /\ \A k, l \in Node : Reaches(k, l)' <=> Reaches(k, l) \/ (k = n /\ l = m)
  <2>1. /\ \A k \in Node, e \in Envelope : Served(k, e) => Served(k, e)'
        /\ \A e \in es : Served(n, e)'
    BY <1>1, <1>2 DEF Served, TypeOK
  <2>2. \A k \in Node : peers'[k] = IF k = n THEN peers[n] \cup {m} ELSE peers[k]
    BY <1>2 DEF TypeOK
  <2>3. \A k, l \in Node : Reaches(k, l)' <=> Reaches(k, l) \/ (k = n /\ l = m)
    BY <1>2, <2>2 DEF Reaches
  <2>4. QED
    BY <2>1, <2>3
<1>6. ASSUME NEW k \in Node, NEW l \in Node, NEW e \in Envelope
      PROVE  /\ OnTheWay(k, l, e)' => OnTheWay(k, l, e) \/ (k = n /\ Served(n, e)')
             /\ OnTheWay(k, l, e) => OnTheWay(k, l, e)'
             /\ k = n /\ l = m /\ e \notin expired[n]
                /\ (e \in heldMessages[n] \/ (e \in localHistory[n] \cup es /\ To[e] = m))
                  => OnTheWay(k, l, e)'
  <2>1. Carried(Greeting(n, m, es), l, e) <=> HandedOver(n, m, es, l, e)
    BY GreetingCarries
  <2>2. Carried(Greeting(n, m, es), l, e) => Served(n, e)'
    BY <1>1, <1>5, <2>1 DEF HandedOver, Served, HeldIsRemembered, TypeOK
  <2>3. /\ OnTheWay(k, l, e)'
              => OnTheWay(k, l, e) \/ (k = n /\ Carried(Greeting(n, m, es), l, e))
        /\ OnTheWay(k, l, e) => OnTheWay(k, l, e)'
        /\ k = n /\ {n, l} \in link /\ Carried(Greeting(n, m, es), l, e)
              => OnTheWay(k, l, e)'
    BY <1>1, PostedOnTheWay
  <2>4. QED
    BY <1>2, <2>1, <2>2, <2>3 DEF HandedOver
<1>7. OnlyCreated'
  BY <1>1, <1>2, <1>4 DEF OnlyCreated, TypeOK
<1>8. HeldIsRemembered'
  BY <1>1, <1>2 DEF HeldIsRemembered, TypeOK
<1>9. NeverItsOwnPeer'
  BY <1>2, <1>3 DEF NeverItsOwnPeer, TypeOK
<1>10. HeldForAbsentPeers'
  BY <1>2 DEF HeldForAbsentPeers, TypeOK
<1>11. ShownIsRemembered'
  BY <1>1, <1>2, <1>4 DEF ShownIsRemembered, TypeOK
<1>12. SenderRemembers'
  BY <1>5, <1>6 DEF SenderRemembers
<1>13. RecipientIsServed'
  <2> SUFFICES ASSUME NEW e \in Envelope, NEW k \in Node,
                      (e \in localHistory[k] \ expired[k])', Reaches(k, To[e])',
                      (<<To[e], e>> \notin missed[k])'
               PROVE  Served(To[e], e)' \/ OnTheWay(k, To[e], e)'
    BY DEF RecipientIsServed
  <2>1. To[e] \in Node
    BY ConstantsAssumption
  <2>2. CASE k = n /\ To[e] = m
    BY <1>1, <1>2, <1>6, <2>1, <2>2 DEF TypeOK
  <2>3. CASE ~(k = n /\ To[e] = m)
    <3>1. /\ e \in localHistory[k] \ expired[k] /\ <<To[e], e>> \notin missed[k]
          /\ Reaches(k, To[e])
      BY <1>1, <1>2, <1>5, <2>1, <2>3 DEF TypeOK
    <3>2. QED
      BY <1>5, <1>6, <2>1, <3>1 DEF RecipientIsServed
  <2>4. QED
    BY <2>2, <2>3
<1>14. HeldIsShared'
  <2> SUFFICES ASSUME NEW k \in Node, NEW l \in Node, NEW e \in (heldMessages[k] \ expired[k])',
                      Reaches(k, l)', (<<l, e>> \notin missed[k])'
               PROVE  Served(l, e)' \/ OnTheWay(k, l, e)'
    BY DEF HeldIsShared
  <2>1. e \in Envelope /\ e \in heldMessages[k] \ expired[k] /\ <<l, e>> \notin missed[k]
    BY <1>2 DEF TypeOK
  <2>2. CASE k = n /\ l = m
    BY <1>6, <2>1, <2>2
  <2>3. CASE ~(k = n /\ l = m)
    BY <1>5, <1>6, <2>1, <2>3 DEF HeldIsShared
  <2>4. QED
    BY <2>2, <2>3
<1>15. QED
  BY <1>7, <1>8, <1>9, <1>10, <1>11, <1>12, <1>13, <1>14

\* What a live connection loses is no longer on the way, and its receiver misses it.
LEMMA LostKeeps ==
  ASSUME IInv, TypeOK', NEW n \in Node, NEW m \in Node, NEW msg \in channel[n][m],
         Lost(n, m, msg)
  PROVE  IInv'
<1> USE DEF IInv
<1>1. UNCHANGED <<created, expired, localHistory, heldMessages, shown, link, peers>>
  BY DEF Lost, nodeVars
<1>2. /\ \A k \in Node, e \in Envelope : Served(k, e)' <=> Served(k, e)
      /\ \A k, l \in Node : Reaches(k, l)' <=> Reaches(k, l)
  BY <1>1 DEF Served, Reaches
<1>3. ASSUME NEW k \in Node, NEW l \in Node
      PROVE  channel'[k][l] = IF k = n /\ l = m THEN channel[n][m] \ {msg} ELSE channel[k][l]
  BY DEF Lost, TypeOK
<1>4. ASSUME NEW k \in Node, NEW l \in Node, NEW e \in Envelope
      PROVE  /\ OnTheWay(k, l, e)' => OnTheWay(k, l, e)
             /\ <<l, e>> \in missed[k] => <<l, e>> \in missed'[k]
             /\ OnTheWay(k, l, e) => OnTheWay(k, l, e)' \/ <<l, e>> \in missed'[k]
  <2>1. missed' = [missed EXCEPT ![n] = @ \cup {<<m, f>> : f \in msg.envelopes}]
    BY DEF Lost
  <2>2. OnTheWay(k, l, e)' => OnTheWay(k, l, e)
    BY <1>3 DEF OnTheWay
  <2>3. <<l, e>> \in missed[k] => <<l, e>> \in missed'[k]
    BY <2>1 DEF TypeOK
  <2>4. OnTheWay(k, l, e) => OnTheWay(k, l, e)' \/ (k = n /\ l = m /\ e \in msg.envelopes)
    BY <1>3 DEF OnTheWay
  <2>5. e \in msg.envelopes => <<m, e>> \in missed'[n]
    BY <2>1 DEF TypeOK
  <2>6. QED
    BY <2>2, <2>3, <2>4, <2>5
<1>5. OnlyCreated' /\ HeldIsRemembered' /\ NeverItsOwnPeer' /\ HeldForAbsentPeers'
      /\ ShownIsRemembered'
  BY <1>1 DEF OnlyCreated, HeldIsRemembered, NeverItsOwnPeer, HeldForAbsentPeers,
              ShownIsRemembered
<1>6. SenderRemembers'
  BY <1>2, <1>4 DEF SenderRemembers
<1>7. RecipientIsServed'
  <2>1. \A e \in Envelope : To[e] \in Node
    BY ConstantsAssumption
  <2>2. QED
    BY <1>1, <1>2, <1>4, <2>1 DEF RecipientIsServed
<1>8. HeldIsShared'
  BY <1>1, <1>2, <1>4 DEF HeldIsShared, TypeOK
<1>9. QED
  BY <1>5, <1>6, <1>7, <1>8

LEMMA BreakEmptiesTwo ==
  ASSUME TypeOK, NEW n \in Node, NEW m \in Node, Break(n, m), NEW k \in Node, NEW l \in Node
  PROVE  channel'[k][l] = IF (k = n /\ l = m) \/ (k = m /\ l = n) THEN {} ELSE channel[k][l]
<1>1. n # m
  BY LinkJoinsTwo DEF Break, TypeOK
<1>2. channel' = [channel EXCEPT ![n][m] = {}, ![m][n] = {}]
  BY DEF Break
<1>3. /\ channel'[n] = [channel[n] EXCEPT ![m] = {}]
      /\ channel'[m] = [channel[m] EXCEPT ![n] = {}]
      /\ k \notin {n, m} => channel'[k] = channel[k]
  BY <1>1, <1>2 DEF TypeOK
<1>4. channel[n] \in [Node -> SUBSET Message] /\ channel[m] \in [Node -> SUBSET Message]
  BY DEF TypeOK
<1>5. QED
  BY <1>1, <1>3, <1>4

\* Whom a broken, closed or ended connection takes out of reach is owed nothing; what
\* remains in the channels of the others is unchanged.
LEMMA DisconnectKeeps ==
  ASSUME IInv, TypeOK', NEW n \in Node,
         (\E m \in Node : Open(n, m) \/ Break(n, m) \/ Close(n, m)) \/ Restart(n)
  PROVE  IInv'
<1> USE DEF IInv
<1>1. /\ UNCHANGED <<created, expired>>
      /\ \A k \in Node :
           \/ /\ localHistory'[k] = localHistory[k] /\ heldMessages'[k] = heldMessages[k]
              /\ \A e \in Envelope : shown'[k][e] = shown[k][e]
           \/ /\ localHistory'[k] = {} /\ heldMessages'[k] = {}
              /\ \A e \in Envelope : shown'[k][e] = 0
      /\ \A k \in Node : peers'[k] \subseteq peers[k]
  <2>1. CASE \E m \in Node : Open(n, m) \/ Break(n, m)
    BY <2>1 DEF Open, Break, nodeVars
  <2>2. CASE \E m \in Node : Close(n, m)
    BY <2>2 DEF Close, nodeVars, TypeOK
  <2>3. CASE Restart(n)
    BY <2>3 DEF Restart, TypeOK
  <2>4. QED
    BY <2>1, <2>2, <2>3
<1>2. ASSUME NEW k \in Node, NEW l \in Node, Reaches(k, l)'
      PROVE  /\ Reaches(k, l)
             /\ \A e \in Envelope : OnTheWay(k, l, e) => OnTheWay(k, l, e)'
             /\ \A e \in Envelope : Served(l, e) => Served(l, e)'
             /\ UNCHANGED <<localHistory[k], heldMessages[k]>>
             /\ \A e \in Envelope : <<l, e>> \notin missed'[k] => <<l, e>> \notin missed[k]
  <2>1. CASE \E m \in Node : Open(n, m)
    <3>1. PICK m \in Node : Open(n, m)
      BY <2>1
    <3>2. l \in peers[k] /\ m \notin peers[n] /\ n \notin peers[m]
      BY <1>2, <3>1 DEF Open, Reaches
    <3>3. {k, l} # {n, m}
      BY <3>2
    <3>4. {k, l} \in link
      BY <1>2, <3>1, <3>3 DEF Open, Reaches
    <3>5. QED
      BY <3>1, <3>2, <3>4 DEF Open, Reaches, OnTheWay, Served, nodeVars
  <2>2. CASE \E m \in Node : Break(n, m)
    <3>1. PICK m \in Node : Break(n, m)
      BY <2>2
    <3>2. {k, l} \in link /\ {k, l} # {n, m}
      BY <1>2, <3>1 DEF Break, Reaches
    <3>3. channel'[k][l] = channel[k][l]
      <4>1. ~(k = n /\ l = m) /\ ~(k = m /\ l = n)
        BY <3>2
      <4>2. QED
        BY <3>1, <4>1, BreakEmptiesTwo
    <3>4. QED
      BY <1>2, <3>1, <3>2, <3>3 DEF Break, Reaches, OnTheWay, Served, nodeVars, TypeOK
  <2>3. CASE \E m \in Node : Close(n, m)
    BY <1>2, <2>3 DEF Close, Reaches, OnTheWay, Served, nodeVars, TypeOK
  <2>4. CASE Restart(n)
    <3>1. {k, l} \in link /\ n \notin {k, l}
      BY <1>2, <2>4 DEF Restart, Reaches
    <3>2. channel'[k][l] = channel[k][l]
      BY <2>4, <3>1 DEF Restart, TypeOK
    <3>3. QED
      BY <1>2, <2>4, <3>1, <3>2 DEF Restart, Reaches, OnTheWay, Served, TypeOK
  <2>5. QED
    BY <2>1, <2>2, <2>3, <2>4
<1>3. ASSUME NEW k \in Node, NEW l \in Node, NEW e \in Envelope, OnTheWay(k, l, e)'
      PROVE  OnTheWay(k, l, e) /\ (Served(k, e) => Served(k, e)')
  <2>1. CASE \E m \in Node : Open(n, m) \/ Break(n, m) \/ Close(n, m)
    <3>1. PICK m \in Node : Open(n, m) \/ Break(n, m) \/ Close(n, m)
      BY <2>1
    <3>2. channel'[k][l] \subseteq channel[k][l]
      <4>1. CASE Break(n, m)
        BY <4>1, BreakEmptiesTwo
      <4>2. CASE Open(n, m) \/ Close(n, m)
        BY <4>2 DEF Open, Close
      <4>3. QED
        BY <3>1, <4>1, <4>2
    <3>3. Served(k, e)' <=> Served(k, e)
      BY <3>1 DEF Open, Break, Close, Served, nodeVars
    <3>4. QED
      BY <1>3, <3>2, <3>3 DEF OnTheWay
  <2>2. CASE Restart(n)
    <3>1. n \notin {k, l}
      BY <1>3, <2>2 DEF Restart, OnTheWay
    <3>2. QED
      BY <1>1, <1>3, <2>2, <3>1 DEF Restart, OnTheWay, Served
  <2>3. QED
    BY <2>1, <2>2
<1>4. OnlyCreated' /\ HeldIsRemembered' /\ NeverItsOwnPeer' /\ HeldForAbsentPeers'
      /\ ShownIsRemembered'
  <2>a. ASSUME NEW k \in Node, NEW e \in Envelope, shown'[k][e] > 0
        PROVE  shown[k][e] > 0 /\ localHistory'[k] = localHistory[k]
    <3>1. ~(0 > 0)
      OBVIOUS
    <3>2. shown'[k][e] # 0
      BY <2>a, <3>1
    <3>3. QED
      BY <1>1, <2>a, <3>2
  <2>1. OnlyCreated'
    BY <1>1, <2>a DEF OnlyCreated
  <2>2. HeldIsRemembered'
    BY <1>1 DEF HeldIsRemembered
  <2>3. NeverItsOwnPeer' /\ HeldForAbsentPeers'
    BY <1>1 DEF NeverItsOwnPeer, HeldForAbsentPeers
  <2>4. ShownIsRemembered'
    BY <1>1, <2>a DEF ShownIsRemembered
  <2>5. QED
    BY <2>1, <2>2, <2>3, <2>4
<1>5. SenderRemembers'
  BY <1>3 DEF SenderRemembers
<1>6. RecipientIsServed'
  <2>1. \A e \in Envelope : To[e] \in Node
    BY ConstantsAssumption
  <2>2. QED
    BY <1>1, <1>2, <2>1 DEF RecipientIsServed
<1>7. HeldIsShared'
  BY <1>1, <1>2 DEF HeldIsShared, TypeOK
<1>8. QED
  BY <1>4, <1>5, <1>6, <1>7

\* What expires, and what is swept away as expired, nobody is owed any more.
LEMMA TimeKeeps ==
  ASSUME IInv, TypeOK', NEW n \in Node, (\E e \in Envelope : Expire(n, e)) \/ Sweep(n)
  PROVE  IInv'
<1> USE DEF IInv
<1>1. /\ UNCHANGED <<created, shown, link, peers, channel, missed>>
      /\ \A k \in Node :
           /\ expired[k] \subseteq expired'[k] /\ expired'[k] \subseteq created
           /\ localHistory'[k] \subseteq localHistory[k]
           /\ localHistory[k] \ expired[k] \subseteq localHistory'[k]
           /\ heldMessages'[k] \subseteq heldMessages[k]
           /\ heldMessages'[k] \subseteq localHistory'[k]
  <2>1. CASE \E e \in Envelope : Expire(n, e)
    BY <2>1 DEF Expire, nodeVars, OnlyCreated, HeldIsRemembered, TypeOK
  <2>2. CASE Sweep(n)
    BY <2>2 DEF Sweep, OnlyCreated, HeldIsRemembered, TypeOK
  <2>3. QED
    BY <2>1, <2>2
<1>2. /\ \A k \in Node, e \in Envelope : Served(k, e) => Served(k, e)'
      /\ \A k, l \in Node : Reaches(k, l)' <=> Reaches(k, l)
      /\ \A k, l \in Node, e \in Envelope : OnTheWay(k, l, e)' <=> OnTheWay(k, l, e)
  BY <1>1 DEF Served, Reaches, OnTheWay
<1>3. OnlyCreated' /\ HeldIsRemembered' /\ NeverItsOwnPeer' /\ HeldForAbsentPeers'
      /\ ShownIsRemembered'
  BY <1>1 DEF OnlyCreated, HeldIsRemembered, NeverItsOwnPeer, HeldForAbsentPeers,
              ShownIsRemembered
<1>4. SenderRemembers'
  BY <1>2 DEF SenderRemembers
<1>5. RecipientIsServed'
  <2>1. \A e \in Envelope : To[e] \in Node
    BY ConstantsAssumption
  <2>2. QED
    BY <1>1, <1>2, <2>1 DEF RecipientIsServed
<1>6. HeldIsShared'
  BY <1>1, <1>2 DEF HeldIsShared, TypeOK
<1>7. QED
  BY <1>3, <1>4, <1>5, <1>6

-----------------------------------------------------------------------------
(* The invariant. *)

LEMMA InvariantInit == Init => IInv
<1> SUFFICES ASSUME Init
             PROVE  IInv
  OBVIOUS
<1>1. TypeOK
  BY TypesInit
<1>2. ~(0 > 0)
  OBVIOUS
<1>3. \A n \in Node :
        /\ localHistory[n] = {} /\ heldMessages[n] = {} /\ expired[n] = {} /\ peers[n] = {}
        /\ \A e \in Envelope : shown[n][e] = 0
        /\ \A m \in Node : channel[n][m] = {}
  BY DEF Init
<1>4. QED
  BY <1>1, <1>2, <1>3
     DEF IInv, OnlyCreated, HeldIsRemembered, SenderRemembers, NeverItsOwnPeer,
         HeldForAbsentPeers, ShownIsRemembered, RecipientIsServed, HeldIsShared, OnTheWay

LEMMA InvariantNext == IInv /\ [Next]_vars => IInv'
<1> SUFFICES ASSUME IInv, [Next]_vars
             PROVE  IInv'
  OBVIOUS
<1>1. TypeOK'
  BY TypesNext DEF IInv
<1>2. CASE \E n \in Node, e \in Envelope : CreateAndSend(n, e)
  BY <1>1, <1>2, CreateAndSendKeeps
<1>3. CASE \E n, m \in Node : Register(n, m)
  BY <1>1, <1>3, RegisterKeeps
<1>4. CASE \E n, m \in Node : \E msg \in channel[n][m] : Receive(n, m, msg)
  BY <1>1, <1>4, ReceiveKeeps
<1>5. CASE \E n \in Node : (\E m \in Node : Open(n, m) \/ Break(n, m) \/ Close(n, m)) \/ Restart(n)
  BY <1>1, <1>5, DisconnectKeeps
<1>6. CASE \E n \in Node : (\E e \in Envelope : Expire(n, e)) \/ Sweep(n)
  BY <1>1, <1>6, TimeKeeps
<1>7. CASE \E n, m \in Node : \E msg \in channel[n][m] :
             ArriveUnheard(n, m, msg) \/ ArriveGarbled(n, m, msg)
  BY <1>1, <1>7, LostKeeps DEF ArriveUnheard, ArriveGarbled
<1>8. CASE UNCHANGED vars
  BY <1>8
     DEF vars, nodeVars, IInv, TypeOK, OnlyCreated, HeldIsRemembered, SenderRemembers,
         NeverItsOwnPeer, HeldForAbsentPeers, ShownIsRemembered, RecipientIsServed,
         HeldIsShared, OnTheWay, Served, Reaches
<1>9. QED
  BY <1>2, <1>3, <1>4, <1>5, <1>6, <1>7, <1>8 DEF Next

\* The inductive invariant holds of every reachable state.
THEOREM MessagingInvariant == Spec => []IInv
<1>1. Init => IInv
  BY InvariantInit
<1>2. IInv /\ [Next]_vars => IInv'
  BY InvariantNext
<1>3. QED
  BY <1>1, <1>2, PTL DEF Spec

\* Every variable has its type; no message in a channel exceeds the hop limit
\* (processMessagePacket()).
THEOREM MessagesAreTyped == Spec => []TypeOK
<1>1. IInv => TypeOK
  BY DEF IInv
<1>2. QED
  BY <1>1, MessagingInvariant, PTL

\* No node holds a message for a recipient it is connected to.
THEOREM HeldOnlyForAbsent == Spec => []HeldForAbsentPeers
<1>1. IInv => HeldForAbsentPeers
  BY DEF IInv
<1>2. QED
  BY <1>1, MessagingInvariant, PTL

\* Every node remembers what it has shown until it expires.
THEOREM ShownStaysRemembered == Spec => []ShownIsRemembered
<1>1. IInv => ShownIsRemembered
  BY DEF IInv
<1>2. QED
  BY <1>1, MessagingInvariant, PTL

\* A connected recipient has, or is about to get, every message its peers remember, but
\* for the hop limit and what is lost while it authenticates a peer.
THEOREM RecipientsAreServed == Spec => []RecipientIsServed
<1>1. IInv => RecipientIsServed
  BY DEF IInv
<1>2. QED
  BY <1>1, MessagingInvariant, PTL

\* Connected nodes hold the same messages for others, or are about to, with the same
\* exceptions.
THEOREM HeldMessagesAreShared == Spec => []HeldIsShared
<1>1. IInv => HeldIsShared
  BY DEF IInv
<1>2. QED
  BY <1>1, MessagingInvariant, PTL

-----------------------------------------------------------------------------
(* Refinement. *)

\* What was never shown is shown for the first time.
LEMMA ShownOnce ==
  ASSUME TypeOK, NEW n \in Node, NEW es \in SUBSET Envelope, Show(n, es),
         \A e \in es : shown[n][e] = 0
  PROVE  shown' = [shown EXCEPT ![n] =
                     [e \in Envelope |-> IF e \in es THEN 1 ELSE shown[n][e]]]
<1>1. \A e \in es : shown[n][e] < MaxShown /\ shown[n][e] + 1 = 1
  BY ConstantsAssumption
<1>2. [e \in Envelope |->
         IF e \in es /\ shown[n][e] < MaxShown THEN shown[n][e] + 1 ELSE shown[n][e]]
      = [e \in Envelope |-> IF e \in es THEN 1 ELSE shown[n][e]]
  BY <1>1
<1>3. QED
  BY <1>2 DEF Show

LEMMA DeliveryInit == Init => Delivery!Init
  BY DEF Init, Delivery!Init

LEMMA DeliveryNext == IInv /\ [Next]_vars => [Delivery!Next]_Delivery!vars
<1> SUFFICES ASSUME IInv, [Next]_vars
             PROVE  [Delivery!Next]_Delivery!vars
  OBVIOUS
<1>1. ASSUME NEW n \in Node, NEW e \in Envelope, CreateAndSend(n, e)
      PROVE  Delivery!Next
  <2>1. shown[n][e] = 0
    BY <1>1 DEF CreateAndSend, IInv, TypeOK, OnlyCreated
  <2>2. Show(n, {e}) /\ {e} \in SUBSET Envelope
    BY <1>1 DEF CreateAndSend
  <2>3. shown' = [shown EXCEPT ![n] =
                    [f \in Envelope |-> IF f \in {e} THEN 1 ELSE shown[n][f]]]
    BY <2>1, <2>2, ShownOnce DEF IInv
  <2>4. Delivery!Send(n, {e})
    BY <1>1, <2>3 DEF CreateAndSend, Delivery!Send
  <2>5. QED
    BY <2>2, <2>4 DEF Delivery!Next
<1>2. ASSUME NEW n \in Node, NEW m \in Node, Register(n, m)
      PROVE  Delivery!Next
  <2>1. PICK es \in SUBSET {e \in Envelope \ created : From[e] = n /\ To[e] = m} :
          created' = created \cup es /\ Show(n, es)
    BY <1>2 DEF Register
  <2>2. es \in SUBSET Envelope /\ es \cap created = {}
    BY <2>1
  <2>3. \A e \in es : shown[n][e] = 0
    BY <2>2 DEF IInv, TypeOK, OnlyCreated
  <2>4. shown' = [shown EXCEPT ![n] =
                    [e \in Envelope |-> IF e \in es THEN 1 ELSE shown[n][e]]]
    BY <2>1, <2>2, <2>3, ShownOnce DEF IInv
  <2>5. Delivery!Send(n, es)
    BY <1>2, <2>1, <2>2, <2>4 DEF Register, Delivery!Send
  <2>6. QED
    BY <2>2, <2>5 DEF Delivery!Next
<1>3. ASSUME NEW n \in Node, NEW m \in Node, NEW msg \in channel[n][m], Receive(n, m, msg)
      PROVE  Delivery!Next
  <2> DEFINE new == Accepted(m, msg)
  <2>1. /\ new \in SUBSET Envelope
        /\ new \subseteq created \ expired[m]
        /\ new \cap (expired[m] \cup localHistory[m]) = {}
    BY OnTheWayIsKnown DEF IInv, TypeOK
  <2>2. \A e \in new : shown[m][e] = 0
    BY <2>1 DEF IInv, TypeOK, ShownIsRemembered
  <2>3. Show(m, new) /\ UNCHANGED <<created, expired>>
    BY <1>3 DEF Receive
  <2> HIDE DEF new
  <2>4. shown' = [shown EXCEPT ![m] =
                    [e \in Envelope |-> IF e \in new THEN 1 ELSE shown[m][e]]]
    BY <2>1, <2>2, <2>3, ShownOnce DEF IInv
  <2>5. Delivery!Show(m, new)
    BY <2>1, <2>2, <2>3, <2>4 DEF Delivery!Show
  <2>6. QED
    BY <2>1, <2>5 DEF Delivery!Next
<1>4. ASSUME NEW n \in Node, NEW e \in Envelope, Expire(n, e)
      PROVE  Delivery!Next
  BY <1>4 DEF Expire, nodeVars, Delivery!Next, Delivery!Expire
<1>5. ASSUME NEW n \in Node, Restart(n)
      PROVE  Delivery!Next
  BY <1>5 DEF Restart, Delivery!Next, Delivery!Restart
<1>6. CASE \E n, m \in Node : Open(n, m) \/ Break(n, m) \/ Close(n, m)
  BY <1>6 DEF Open, Break, Close, nodeVars, Delivery!vars
<1>7. CASE \E n \in Node : Sweep(n)
  BY <1>7 DEF Sweep, Delivery!vars
<1>8. CASE \E n, m \in Node : \E msg \in channel[n][m] :
             ArriveUnheard(n, m, msg) \/ ArriveGarbled(n, m, msg)
  BY <1>8 DEF ArriveUnheard, ArriveGarbled, Lost, nodeVars, Delivery!vars
<1>9. CASE UNCHANGED vars
  BY <1>9 DEF vars, nodeVars, Delivery!vars
<1>10. QED
  BY <1>1, <1>2, <1>3, <1>4, <1>5, <1>6, <1>7, <1>8, <1>9 DEF Next

\* Every behaviour of the network shows each user a message at most once between two
\* starts, after it was written and before it has expired.
THEOREM DeliveryIsImplemented == Spec => ImplementsDelivery
<1>1. Init => Delivery!Init
  BY DeliveryInit
<1>2. IInv /\ [Next]_vars => [Delivery!Next]_Delivery!vars
  BY DeliveryNext
<1>3. QED
  BY <1>1, <1>2, MessagingInvariant, PTL DEF Spec, ImplementsDelivery, Delivery!Spec

=============================================================================
