------------------------------ MODULE Messaging ------------------------------
(***************************************************************************)
(* HIP2 messages between Hydrabase nodes (PeerManager.ts): an envelope is  *)
(* flooded over the connections of the moment, remembered by every node    *)
(* until it expires, held for recipients that are not connected, and       *)
(* passed on whenever two nodes connect.                                   *)
(*                                                                         *)
(* Envelopes do not influence one another, so the model follows the ones   *)
(* in Envelope and leaves all others out: the message a node writes on     *)
(* connecting is one that is followed, or none.  A channel loses what is   *)
(* in it when its connection breaks, and over uTP also what reaches the    *)
(* accepting node while it authenticates the other; its order is left      *)
(* open.                                                                   *)
(***************************************************************************)
EXTENDS Integers

CONSTANTS
  Node,      \* the nodes, each standing for its address
  Link,      \* the two-element sets of nodes that may connect
  Envelope,  \* the envelopes that are followed
  From,      \* From[e]: the node that writes e
  To,        \* To[e]: the recipient
  MaxHops,   \* MAX_MESSAGE_HOPS
  MaxShown   \* how many showings of one envelope are counted

ASSUME ConstantsAssumption ==
  /\ Link \subseteq {l \in SUBSET Node : \E n, m \in l : n # m /\ l = {n, m}}
  /\ From \in [Envelope -> Node]
  /\ To \in [Envelope -> Node]
  /\ MaxHops \in Nat
  /\ MaxShown \in Nat \ {0, 1}

VARIABLES
  created,        \* the envelopes that have been written
  expired,        \* expired[n]: the envelopes that have expired by the clock of n
  localHistory,   \* localHistory[n]: localMessageHistory
  heldMessages,   \* heldMessages[n], for all recipients together
  shown,          \* shown[n][e]: how often n has passed e to its web UI since it started
  link,           \* the connections that are up
  peers,          \* peers[n]: the nodes in n's table of connected peers
  channel,        \* channel[n][m]: what is on the way from n to m
  torn,           \* <<n, m>> when m has the head of a message from n of which the tail was lost
  missed          \* history variable: <<m, e>> is in missed[n] when m misses e from n: n took
                  \* e in at the hop limit and did not relay it, or what it sent was lost on a
                  \* live connection; and m is connected to n ever since

nodeVars == <<localHistory, heldMessages, shown>>
vars == <<created, expired, nodeVars, link, peers, channel, torn, missed>>

\* A packet or a batch of packets; the packets of a batch have the same hops.
Message == [envelopes : SUBSET Envelope, hops : 0..MaxHops]

TypeOK ==
  /\ created \subseteq Envelope
  /\ expired \in [Node -> SUBSET Envelope]
  /\ localHistory \in [Node -> SUBSET Envelope]
  /\ heldMessages \in [Node -> SUBSET Envelope]
  /\ shown \in [Node -> [Envelope -> 0..MaxShown]]
  /\ link \subseteq Link
  /\ peers \in [Node -> SUBSET Node]
  /\ channel \in [Node -> [Node -> SUBSET Message]]
  /\ torn \subseteq Node \X Node
  /\ missed \in [Node -> SUBSET (Node \X Envelope)]

Init ==
  /\ created = {}
  /\ expired = [n \in Node |-> {}]
  /\ localHistory = [n \in Node |-> {}]
  /\ heldMessages = [n \in Node |-> {}]
  /\ shown = [n \in Node |-> [e \in Envelope |-> 0]]
  /\ link = {}
  /\ peers = [n \in Node |-> {}]
  /\ channel = [n \in Node |-> [m \in Node |-> {}]]
  /\ torn = {}
  /\ missed = [n \in Node |-> {}]

-----------------------------------------------------------------------------
(* Sending, holding, showing. *)

\* channel[n] after n has sent msgs[m] to every m.  What is sent on a broken connection
\* whose close event n has yet to see is lost.
Posted(n, msgs) ==
  [m \in Node |-> IF {n, m} \in link THEN channel[n][m] \cup msgs[m] ELSE channel[n][m]]

\* broadcastMessage() of each of the envelopes es
Broadcast(es, hops, receivers) ==
  [m \in Node |-> IF m \in receivers THEN {[envelopes |-> {e}, hops |-> hops] : e \in es} ELSE {}]

\* The envelopes of es that storeHeldMessageIfOffline() stores, by a given table of peers
ForAbsent(es, table) == {e \in es : To[e] \notin table}

\* A batch of envelopes at hop 0, if it is not empty
Batch(es) == IF es = {} THEN {} ELSE {[envelopes |-> es, hops |-> 0]}

\* The envelopes es are passed to the web UI of n.
Show(n, es) ==
  shown' = [shown EXCEPT ![n] = [e \in Envelope |->
              IF e \in es /\ shown[n][e] < MaxShown THEN shown[n][e] + 1 ELSE shown[n][e]]]

-----------------------------------------------------------------------------
(* Messages. *)

\* createAndSendMessage(), on request of the web UI
CreateAndSend(n, e) ==
  /\ From[e] = n /\ e \notin created
  /\ created' = created \cup {e}
  /\ localHistory' = [localHistory EXCEPT ![n] = @ \cup {e}]
  /\ Show(n, {e})
  /\ channel' = [channel EXCEPT ![n] = Posted(n, Broadcast({e}, 0, peers[n]))]
  /\ heldMessages' = [heldMessages EXCEPT ![n] = @ \cup ForAbsent({e}, peers[n])]
  /\ UNCHANGED <<expired, link, peers, torn, missed>>

\* Mutant of Accepted: an envelope is a duplicate only while it is held.
AcceptedUnlessHeld(m, msg) ==
  {e \in msg.envelopes : e \notin expired[m] \cup heldMessages[m]}

\* The envelopes of a message that m takes in: unexpired ones it does not remember
Accepted(m, msg) ==
  {e \in msg.envelopes : e \notin expired[m] \cup localHistory[m]}

\* Mutant of Relayed: the limit counts the hop to come.
RelayedOneShort(n, m, msg) ==
  IF msg.hops + 1 < MaxHops
  THEN Broadcast(Accepted(m, msg), msg.hops + 1, peers[m] \ {n})
  ELSE [k \in Node |-> {}]

\* What m relays of a message from n: nothing at the hop limit, nothing back to n
Relayed(n, m, msg) ==
  IF msg.hops < MaxHops
  THEN Broadcast(Accepted(m, msg), msg.hops + 1, peers[m] \ {n})
  ELSE [k \in Node |-> {}]

\* handleMessage() and handleMessageBatch(): processMessagePacket() for every packet
Receive(n, m, msg) ==
  /\ n \in peers[m] /\ <<n, m>> \notin torn
  /\ msg \in channel[n][m]
  /\ LET new == Accepted(m, msg)
     IN  /\ localHistory' = [localHistory EXCEPT ![m] = @ \cup new]
         /\ Show(m, new)
         /\ heldMessages' = [heldMessages EXCEPT ![m] = @ \cup ForAbsent(new, peers[m])]
         /\ missed' = [missed EXCEPT ![m] =
                           IF msg.hops < MaxHops THEN @ ELSE @ \cup (peers[m] \ {n}) \X new]
  /\ channel' = [channel EXCEPT ![n][m] = @ \ {msg},
                                ![m] = Posted(m, Relayed(n, m, msg))]
  /\ UNCHANGED <<created, expired, link, peers, torn>>

\* m, a live connection to n notwithstanding, does not get msg from it.
Lost(n, m, msg) ==
  /\ channel' = [channel EXCEPT ![n][m] = @ \ {msg}]
  /\ missed' = [missed EXCEPT ![n] = @ \cup {<<m, e>> : e \in msg.envelopes}]
  /\ UNCHANGED <<created, expired, nodeVars, link, peers>>

\* Over uTP n, which dialed, sends before m has authenticated it, and of what arrives
\* after the chunk with the greeting nobody hears; the head of a message may be in it.
ArriveUnheard(n, m, msg) ==
  /\ n \notin peers[m]
  /\ msg \in channel[n][m]
  /\ torn' \in {torn, torn \cup {<<n, m>>}}
  /\ Lost(n, m, msg)

\* The first message that is heard is read as the rest of the one that was torn: the two
\* make one frame, which is no packet.
ArriveGarbled(n, m, msg) ==
  /\ n \in peers[m] /\ <<n, m>> \in torn
  /\ msg \in channel[n][m]
  /\ torn' = torn \ {<<n, m>>}
  /\ Lost(n, m, msg)

-----------------------------------------------------------------------------
(* Connections. *)

\* A connection comes up between nodes that have none to each other in their tables:
\* otherwise add() refuses it.
Open(n, m) ==
  /\ {n, m} \in Link \ link
  /\ m \notin peers[n] /\ n \notin peers[m]
  /\ link' = link \cup {{n, m}}
  /\ UNCHANGED <<created, expired, nodeVars, peers, channel, torn, missed>>

\* Mutant of Greeting: what n remembers for m is not sent again.
GreetingWithoutHistory(n, m, es) ==
  LET forPeer == {e \in heldMessages[n] : To[e] = m}
      toPeer  == Batch(forPeer \ expired[n]) \cup Batch(heldMessages[n] \ (forPeer \cup expired[n]))
      toAll   == Broadcast(es, 0, peers[n] \cup {m})
  IN  [k \in Node |-> IF k = m THEN toAll[k] \cup toPeer ELSE toAll[k]]

\* Mutant of Greeting: what n holds for others is kept from m.
GreetingWithoutSync(n, m, es) ==
  LET forPeer == {e \in heldMessages[n] : To[e] = m}
      history == {e \in localHistory[n] \cup es : To[e] = m}
      toPeer  == Batch(forPeer \ expired[n]) \cup Batch(history \ expired[n])
      toAll   == Broadcast(es, 0, peers[n] \cup {m})
  IN  [k \in Node |-> IF k = m THEN toAll[k] \cup toPeer ELSE toAll[k]]

\* The envelopes that n sends to m, whom it has just registered: those just written for
\* m go to all peers, those held and those remembered for m go to m in batches, and all
\* unexpired ones held for others follow.
Greeting(n, m, es) ==
  LET forPeer == {e \in heldMessages[n] : To[e] = m}
      others  == heldMessages[n] \ forPeer
      history == {e \in localHistory[n] \cup es : To[e] = m}
      toPeer  == Batch(forPeer \ expired[n]) \cup Batch(history \ expired[n])
                 \cup Batch(others \ expired[n])
      toAll   == Broadcast(es, 0, peers[n] \cup {m})
  IN  [k \in Node |-> IF k = m THEN toAll[k] \cup toPeer ELSE toAll[k]]

\* Mutant of Register: what is held for m stays held after it was forwarded.
RegisterKeepsHeld(n, m) ==
  /\ {n, m} \in link /\ m \notin peers[n]
  /\ peers' = [peers EXCEPT ![n] = @ \cup {m}]
  /\ \E es \in SUBSET {e \in Envelope \ created : From[e] = n /\ To[e] = m} :
       /\ created' = created \cup es
       /\ localHistory' = [localHistory EXCEPT ![n] = @ \cup es]
       /\ Show(n, es)
       /\ channel' = [channel EXCEPT ![n] = Posted(n, Greeting(n, m, es))]
  /\ heldMessages' = [heldMessages EXCEPT ![n] = @ \ expired[n]]
  /\ UNCHANGED <<expired, link, torn, missed>>

\* add(socket) at n for the connection to m, past the duplicate check: n writes a connect
\* message to m, perhaps reports a failed connection attempt, and hands over what it has.
Register(n, m) ==
  /\ {n, m} \in link /\ m \notin peers[n]
  /\ peers' = [peers EXCEPT ![n] = @ \cup {m}]
  /\ \E es \in SUBSET {e \in Envelope \ created : From[e] = n /\ To[e] = m} :
       /\ created' = created \cup es
       /\ localHistory' = [localHistory EXCEPT ![n] = @ \cup es]
       /\ Show(n, es)
       /\ channel' = [channel EXCEPT ![n] = Posted(n, Greeting(n, m, es))]
  /\ heldMessages' = [heldMessages EXCEPT ![n] = {e \in @ \ expired[n] : To[e] # m}]
  /\ UNCHANGED <<expired, link, torn, missed>>

\* A connection breaks, with all that is on the way.
Break(n, m) ==
  /\ {n, m} \in link
  /\ link' = link \ {{n, m}}
  /\ channel' = [channel EXCEPT ![n][m] = {}, ![m][n] = {}]
  /\ torn' = torn \ {<<n, m>>, <<m, n>>}
  /\ UNCHANGED <<created, expired, nodeVars, peers, missed>>

\* The close event of a broken connection reaches n.
Close(n, m) ==
  /\ {n, m} \notin link /\ m \in peers[n]
  /\ peers' = [peers EXCEPT ![n] = @ \ {m}]
  /\ missed' = [missed EXCEPT ![n] = {p \in @ : p[1] # m}]
  /\ UNCHANGED <<created, expired, nodeVars, link, channel, torn>>

\* Process n stops and starts again: nothing of this is persisted.
Restart(n) ==
  /\ localHistory' = [localHistory EXCEPT ![n] = {}]
  /\ heldMessages' = [heldMessages EXCEPT ![n] = {}]
  /\ shown' = [shown EXCEPT ![n] = [e \in Envelope |-> 0]]
  /\ peers' = [peers EXCEPT ![n] = {}]
  /\ missed' = [missed EXCEPT ![n] = {}]
  /\ link' = {l \in link : n \notin l}
  /\ channel' = [k \in Node |-> [m \in Node |-> IF n \in {k, m} THEN {} ELSE channel[k][m]]]
  /\ torn' = {p \in torn : n \notin {p[1], p[2]}}
  /\ UNCHANGED <<created, expired>>

-----------------------------------------------------------------------------
(* Time. *)

\* By the clock of n, e has outlived its ttl; clocks differ between nodes.
Expire(n, e) ==
  /\ e \in created \ expired[n]
  /\ expired' = [expired EXCEPT ![n] = @ \cup {e}]
  /\ UNCHANGED <<created, nodeVars, link, peers, channel, torn, missed>>

\* pruneExpiredHeldMessages() and pruneExpiredLocalHistory(), from the sweep timer
Sweep(n) ==
  /\ expired[n] \cap (heldMessages[n] \cup localHistory[n]) # {}
  /\ heldMessages' = [heldMessages EXCEPT ![n] = @ \ expired[n]]
  /\ localHistory' = [localHistory EXCEPT ![n] = @ \ expired[n]]
  /\ UNCHANGED <<created, expired, shown, link, peers, channel, torn, missed>>

Next ==
  \/ \E n \in Node, e \in Envelope : CreateAndSend(n, e) \/ Expire(n, e)
  \/ \E n, m \in Node : Open(n, m) \/ Register(n, m) \/ Break(n, m) \/ Close(n, m)
  \/ \E n, m \in Node : \E msg \in channel[n][m] :
       Receive(n, m, msg) \/ ArriveUnheard(n, m, msg) \/ ArriveGarbled(n, m, msg)
  \/ \E n \in Node : Restart(n) \/ Sweep(n)

Spec == Init /\ [][Next]_vars

\* What a live connection carries arrives in its order, so every message of it does; what
\* then becomes of it, the receiving node decides.
FairSpec ==
  /\ Spec
  /\ \A n, m \in Node, msg \in Message : WF_vars(Receive(n, m, msg) \/ ArriveGarbled(n, m, msg))

-----------------------------------------------------------------------------
(* Properties. *)

\* Messages are held for absent recipients only: whoever is registered has been sent
\* what was held for it, in the same step, and nothing is held for it from then on
\* (storeHeldMessageIfOffline(), forwardHeldMessagesForPeer()).
HeldForAbsentPeers ==
  \A n \in Node : \A e \in heldMessages[n] : To[e] \notin peers[n]

\* A node remembers what it has shown until it expires: only then does a copy that comes
\* by another way count as a duplicate, and a recipient that reconnects gets it again
\* (recordLocalMessage(), pruneExpiredLocalHistory()).
ShownIsRemembered ==
  \A n \in Node, e \in Envelope :
    shown[n][e] > 0 /\ e \notin expired[n] => e \in localHistory[n]

\* e is on the way from n to m.
OnTheWay(n, m, e) == \E msg \in channel[n][m] : e \in msg.envelopes

\* n has m in its table, over a connection that is up.
Reaches(n, m) == {n, m} \in link /\ m \in peers[n]

\* m has e or, by its own clock, has no use for it.
Served(m, e) == e \in localHistory[m] \cup expired[m]

\* While its recipient is connected to it, a node never keeps an unexpired message to
\* itself: the recipient has it or it is on the way, even if an earlier copy was lost
\* with a broken connection (forwardLocalHistoryToPeer(), processMessagePacket()).  The
\* exceptions are what arrives at the hop limit and what a live uTP connection loses while
\* the recipient authenticates the node; both last until the connection ends.
RecipientIsServed ==
  \A e \in Envelope, n \in Node :
    /\ e \in localHistory[n] \ expired[n]
    /\ Reaches(n, To[e])
    /\ <<To[e], e>> \notin missed[n]
    => Served(To[e], e) \/ OnTheWay(n, To[e], e)

\* What a node holds for an absent recipient every connected peer has too, or is about
\* to, so that any of them can deliver it (syncHeldMessagesToPeer()); the hop limit and
\* the authentication make the same exceptions.
HeldIsShared ==
  \A n, m \in Node : \A e \in heldMessages[n] \ expired[n] :
    Reaches(n, m) /\ <<m, e>> \notin missed[n] => Served(m, e) \/ OnTheWay(n, m, e)

\* A message whose recipient is connected, or comes back and is connected, to a node that
\* remembers it is shown to its user, unless the connection breaks again, the message
\* expires, or its bytes were run together with those of one lost in authentication.
RecipientIsShown ==
  \A e \in Envelope, n \in Node :
    (/\ e \in localHistory[n] \ expired[n]
     /\ Reaches(n, To[e]) /\ n \in peers[To[e]]
     /\ <<To[e], e>> \notin missed[n])
      ~> (\/ shown[To[e]][e] > 0
          \/ ~Reaches(n, To[e])
          \/ e \in expired[n] \cup expired[To[e]]
          \/ <<To[e], e>> \in missed[n])

\* Messaging implements the abstract delivery: shown at most once between two starts,
\* never unsent, never after expiry, whatever is relayed, re-sent, lost and swept.
Delivery == INSTANCE MessageDelivery WITH sent <- created

ImplementsDelivery == Delivery!Spec

=============================================================================
