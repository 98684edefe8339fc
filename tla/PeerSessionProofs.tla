-------------------------- MODULE PeerSessionProofs --------------------------
(***************************************************************************)
(* Proofs about PeerSession for every number of requests, every set of     *)
(* ping nonces and every threshold.  IInv is the inductive invariant: for  *)
(* the requests, the pings, the link and the traffic, what each part needs *)
(* beside its types, and that the close event stops all pings.             *)
(***************************************************************************)
EXTENDS PeerSession, FiniteSetTheorems, TLAPS

Responded == {n \in RequestNonce : outcome[n] = "response"}

\* A request that has not been sent is not settled either.
RequestInv ==
  /\ nonce \in 0..MaxRequests
  /\ pending \subseteq RequestNonce
  /\ outcome \in [RequestNonce -> {"none", "response", "failed"}]
  /\ resolvedCount \in Nat
  /\ PendingIsUnsettled
  /\ \A n \in RequestNonce : n >= nonce => outcome[n] = "none"
  /\ ResponsesAreCounted

\* The strikes are the pings missed in a row.
PingInv ==
  /\ pendingPings \subseteq PingNonce
  /\ strikes \in 0..Threshold
  /\ missed = strikes
  /\ \A n, k \in pendingPings : n = k

\* There is room for the search that a request on its way will start.
LinkInv ==
  /\ socket \in {"open", "closing", "closed"}
  /\ alive \in BOOLEAN
  /\ toPeer \subseteq ToPeer
  /\ fromPeer \subseteq FromPeer
  /\ serving \in 0..MaxServing
  /\ [type |-> "request"] \in fromPeer => serving < MaxServing

\* Until the close event the database has what was last saved.
TrafficInv ==
  /\ total \in Traffic /\ lastSaved \in Traffic /\ lifetime \in Traffic
  /\ socket # "closed" => lifetime = lastSaved
  /\ \A d \in Direction : lastSaved[d] <= total[d]

ClosedInv == socket = "closed" => pendingPings = {}

IInv == RequestInv /\ PingInv /\ LinkInv /\ TrafficInv /\ ClosedInv

-----------------------------------------------------------------------------
(* Helpers. *)

LEMMA UpToType ==
  ASSUME NEW limit \in Nat, NEW n \in Nat
  PROVE  UpTo(limit, n) \in 0..limit
  BY DEF UpTo

LEMMA CountType ==
  ASSUME TrafficInv, NEW d \in Direction, Count(d)
  PROVE  /\ total' \in Traffic
         /\ \A k \in Direction : total[k] <= total'[k]
<1>1. total[d] + 1 \in Nat /\ MaxTraffic \in Nat
  BY ConstantsAssumption DEF TrafficInv, Traffic
<1>2. UpTo(MaxTraffic, total[d] + 1) \in 0..MaxTraffic
  BY <1>1, UpToType
<1>3. total[d] <= UpTo(MaxTraffic, total[d] + 1)
  BY <1>1 DEF UpTo, TrafficInv, Traffic
<1>4. total' = [total EXCEPT ![d] = UpTo(MaxTraffic, total[d] + 1)]
  BY DEF Count
<1>5. QED
  BY <1>1, <1>2, <1>3, <1>4 DEF TrafficInv, Traffic

\* What is saved before the close event makes the database exact.
LEMMA AccumulatedIsTotal ==
  ASSUME TrafficInv, socket # "closed"
  PROVE  Accumulated = total
<1>1. \A d \in Direction : UpTo(MaxTraffic, lifetime[d] + (total[d] - lastSaved[d])) = total[d]
  BY ConstantsAssumption DEF TrafficInv, Traffic, UpTo
<1>2. QED
  BY <1>1 DEF Accumulated, TrafficInv, Traffic

LEMMA RespondedIsFinite == IsFiniteSet(Responded) /\ Cardinality(Responded) <= MaxRequests
<1>1. IsFiniteSet(RequestNonce) /\ Cardinality(RequestNonce) = MaxRequests
  BY FS_Interval, ConstantsAssumption DEF RequestNonce
<1>2. Responded \in SUBSET RequestNonce
  BY DEF Responded
<1>3. QED
  BY <1>1, <1>2, FS_Subset

LEMMA TypesFollow == IInv => TypeOK
<1>1. ASSUME IInv
      PROVE  resolvedCount \in 0..MaxRequests
  <2>1. resolvedCount = Cardinality(Responded) /\ resolvedCount \in Nat
    BY <1>1 DEF IInv, RequestInv, ResponsesAreCounted, Responded
  <2>2. QED
    BY <2>1, RespondedIsFinite, ConstantsAssumption
<1>2. QED
  BY <1>1 DEF IInv, RequestInv, PingInv, LinkInv, TrafficInv, TypeOK

-----------------------------------------------------------------------------
(* The parts of the invariant. *)

\* Requests that fail change no count; they are settled as they leave the pending ones.
LEMMA FailuresKeep ==
  ASSUME RequestInv, NEW ns \in SUBSET pending, Settle(ns, "failed"), pending' = pending \ ns,
         UNCHANGED <<nonce, resolvedCount>>
  PROVE  RequestInv'
<1>1. \A n \in RequestNonce : outcome'[n] = IF n \in ns THEN "failed" ELSE outcome[n]
  BY DEF Settle, RequestInv, PendingIsUnsettled
<1>2. /\ outcome' \in [RequestNonce -> {"none", "response", "failed"}]
      /\ pending' \subseteq RequestNonce
  BY DEF Settle, RequestInv
<1>3. PendingIsUnsettled'
  BY <1>1 DEF PendingIsUnsettled, RequestInv
<1>4. \A n \in RequestNonce : n >= nonce' => outcome'[n] = "none"
  <2>1. \A n \in ns : n < nonce
    BY DEF PendingIsUnsettled, RequestInv
  <2>2. \A n \in RequestNonce : n >= nonce => n \notin ns
    BY <2>1, ConstantsAssumption DEF RequestInv, RequestNonce
  <2>3. QED
    BY <1>1, <2>2 DEF RequestInv
<1>5. Responded' = Responded
  BY <1>1 DEF Responded, PendingIsUnsettled, RequestInv
<1>6. ResponsesAreCounted'
  BY <1>5 DEF ResponsesAreCounted, Responded, RequestInv
<1>7. QED
  BY <1>2, <1>3, <1>4, <1>6 DEF RequestInv

LEMMA RequestNext == IInv /\ [Next]_vars => RequestInv'
<1> SUFFICES ASSUME IInv, [Next]_vars
             PROVE  RequestInv'
  OBVIOUS
<1> USE DEF IInv
<1>1. CASE SendRequest
  <2>1. /\ nonce \in RequestNonce
        /\ nonce' \in 0..MaxRequests
        /\ \A n \in RequestNonce : n < nonce' <=> n < nonce \/ n = nonce
    BY <1>1, ConstantsAssumption DEF SendRequest, RequestInv, RequestNonce
  <2>2. /\ pending' = pending \cup {nonce}
        /\ UNCHANGED <<outcome, resolvedCount>>
    BY <1>1 DEF SendRequest
  <2>3. outcome[nonce] = "none"
    BY <2>1 DEF RequestInv, RequestNonce
  <2>4. PendingIsUnsettled'
    BY <2>1, <2>2, <2>3 DEF PendingIsUnsettled, RequestInv
  <2>5. \A n \in RequestNonce : n >= nonce' => outcome'[n] = "none"
    BY <1>1, <2>2 DEF SendRequest, RequestInv, RequestNonce
  <2>6. ResponsesAreCounted'
    BY <2>2 DEF ResponsesAreCounted, RequestInv
  <2>7. QED
    BY <2>1, <2>2, <2>4, <2>5, <2>6 DEF RequestInv
<1>2. ASSUME NEW n \in RequestNonce, RequestTimesOut(n)
      PROVE  RequestInv'
  <2>1. {n} \in SUBSET pending
    BY <1>2 DEF RequestTimesOut
  <2>2. QED
    BY <1>2, <2>1, FailuresKeep DEF RequestTimesOut
<1>3. ASSUME NEW n \in RequestNonce, ReceiveResponse(n)
      PROVE  RequestInv'
  <2>1. CASE n \notin pending
    BY <1>3, <2>1 DEF ReceiveResponse, RequestInv, PendingIsUnsettled, ResponsesAreCounted
  <2>2. CASE n \in pending
    <3>1. /\ pending' = pending \ {n}
          /\ Settle({n}, "response")
          /\ resolvedCount' = resolvedCount + 1
          /\ nonce' = nonce
      BY <1>3, <2>2 DEF ReceiveResponse
    <3>2. outcome[n] = "none" /\ n < nonce
      BY <2>2 DEF RequestInv, PendingIsUnsettled
    <3>3. \A k \in RequestNonce : outcome'[k] = IF k = n THEN "response" ELSE outcome[k]
      BY <3>1, <3>2 DEF Settle
    <3>4. outcome' \in [RequestNonce -> {"none", "response", "failed"}]
      BY <3>1 DEF Settle, RequestInv
    <3>5. PendingIsUnsettled'
      BY <3>1, <3>3 DEF PendingIsUnsettled, RequestInv
    <3>6. \A k \in RequestNonce : k >= nonce' => outcome'[k] = "none"
      BY <3>1, <3>2, <3>3 DEF RequestInv, RequestNonce
    <3>7. Responded' = Responded \cup {n} /\ n \notin Responded
      BY <3>2, <3>3 DEF Responded
    <3>8. Cardinality(Responded') = Cardinality(Responded) + 1
      BY <3>7, RespondedIsFinite, FS_AddElement
    <3>9. ResponsesAreCounted' /\ resolvedCount' \in Nat
      BY <3>1, <3>8 DEF ResponsesAreCounted, Responded, RequestInv
    <3>10. QED
      BY <3>1, <3>4, <3>5, <3>6, <3>9 DEF RequestInv
  <2>3. QED
    BY <2>1, <2>2
<1>4. CASE CloseEvent
  <2>1. pending' = pending \ pending
    BY <1>4 DEF CloseEvent
  <2>2. QED
    BY <1>4, <2>1, FailuresKeep DEF CloseEvent
<1>5. CASE UNCHANGED requestVars
  BY <1>5 DEF requestVars, RequestInv, PendingIsUnsettled, ResponsesAreCounted
<1>6. QED
  BY <1>1, <1>2, <1>3, <1>4, <1>5
     DEF Next, vars, ReceiveRequest, AnswerRequest, SendPing, PingTimesOut, ReceivePong,
         ReceiveInvalidPong, SaveStats, PeerAnswers, PeerRequests, PeerDies

LEMMA PingNext == IInv /\ [Next]_vars => PingInv'
<1> SUFFICES ASSUME IInv, [Next]_vars
             PROVE  PingInv'
  OBVIOUS
<1> USE DEF IInv
<1>1. ASSUME NEW n \in PingNonce, SendPing(n)
      PROVE  PingInv'
  BY <1>1 DEF SendPing, PingInv
<1>2. ASSUME NEW n \in PingNonce, PingTimesOut(n)
      PROVE  PingInv'
  <2>1. strikes + 1 \in Nat /\ Threshold \in Nat
    BY ConstantsAssumption DEF PingInv
  <2>2. UpTo(Threshold, strikes + 1) \in 0..Threshold
    BY <2>1, UpToType
  <2>3. QED
    BY <1>2, <2>2 DEF PingTimesOut, PingInv
<1>3. ASSUME NEW n \in PingNonce, ReceivePong(n)
      PROVE  PingInv'
  BY <1>3, ConstantsAssumption DEF ReceivePong, PingInv
<1>4. ASSUME NEW n \in PingNonce, ReceiveInvalidPong(n)
      PROVE  PingInv'
  BY <1>4 DEF ReceiveInvalidPong, PingInv
<1>5. CASE CloseEvent
  BY <1>5 DEF CloseEvent, PingInv
<1>6. CASE UNCHANGED pingVars
  BY <1>6 DEF pingVars, PingInv
<1>7. QED
  BY <1>1, <1>2, <1>3, <1>4, <1>5, <1>6
     DEF Next, vars, SendRequest, RequestTimesOut, ReceiveResponse, ReceiveRequest,
         AnswerRequest, SaveStats, PeerAnswers, PeerRequests, PeerDies

LEMMA LinkNext == IInv /\ [Next]_vars => LinkInv'
<1> SUFFICES ASSUME IInv, [Next]_vars
             PROVE  LinkInv'
  OBVIOUS
<1> USE DEF IInv
<1>1. CASE SendRequest
  <2>1. nonce \in RequestNonce
    BY <1>1, ConstantsAssumption DEF SendRequest, RequestInv, RequestNonce
  <2>2. [type |-> "request", nonce |-> nonce] \in ToPeer
    BY <2>1 DEF ToPeer
  <2>3. QED
    BY <1>1, <2>2 DEF SendRequest, Send, LinkInv
<1>2. CASE ReceiveRequest
  <2>1. serving + 1 \in 0..MaxServing
    BY <1>2, ConstantsAssumption DEF ReceiveRequest, Receive, LinkInv
  <2>2. [type |-> "request"] \notin fromPeer' /\ fromPeer' \subseteq fromPeer
    BY <1>2 DEF ReceiveRequest, Receive
  <2>3. QED
    BY <1>2, <2>1, <2>2 DEF ReceiveRequest, LinkInv
<1>3. CASE AnswerRequest
  <2>1. serving - 1 \in 0..MaxServing /\ (serving < MaxServing => serving - 1 < MaxServing)
    BY <1>3, ConstantsAssumption DEF AnswerRequest, LinkInv
  <2>2. QED
    BY <1>3, <2>1 DEF AnswerRequest, linkVars, LinkInv
<1>4. ASSUME NEW n \in RequestNonce, RequestTimesOut(n) \/ ReceiveResponse(n)
      PROVE  LinkInv'
  BY <1>4 DEF RequestTimesOut, ReceiveResponse, Receive, linkVars, LinkInv
<1>5. ASSUME NEW n \in PingNonce, SendPing(n)
      PROVE  LinkInv'
  <2>1. [type |-> "ping", nonce |-> n] \in ToPeer
    BY DEF ToPeer
  <2>2. QED
    BY <1>5, <2>1 DEF SendPing, Send, LinkInv
<1>6. ASSUME NEW n \in PingNonce, PingTimesOut(n)
      PROVE  LinkInv'
  BY <1>6 DEF PingTimesOut, linkVars, LinkInv
<1>7. ASSUME NEW n \in PingNonce, ReceivePong(n) \/ ReceiveInvalidPong(n)
      PROVE  LinkInv'
  BY <1>7 DEF ReceivePong, ReceiveInvalidPong, Receive, LinkInv
<1>8. CASE SaveStats
  BY <1>8 DEF SaveStats, linkVars, LinkInv
<1>9. CASE CloseEvent
  BY <1>9 DEF CloseEvent, LinkInv
<1>10. CASE PeerAnswers
  <2>1. PICK msg \in toPeer :
          /\ toPeer' = toPeer \ {msg}
          /\ \E type \in IF msg.type = "request" THEN {"response"} ELSE {"pong", "invalid_pong"} :
               fromPeer' = fromPeer \cup {[type |-> type, nonce |-> msg.nonce]}
    BY <1>10 DEF PeerAnswers
  <2>2. PICK type \in IF msg.type = "request" THEN {"response"} ELSE {"pong", "invalid_pong"} :
          fromPeer' = fromPeer \cup {[type |-> type, nonce |-> msg.nonce]}
    BY <2>1
  <2>3. msg \in ToPeer
    BY DEF LinkInv
  <2>4. [type |-> type, nonce |-> msg.nonce] \in FromPeer
    <3>1. CASE msg \in [type : {"request"}, nonce : RequestNonce]
      BY <2>2, <3>1 DEF FromPeer
    <3>2. CASE msg \in [type : {"ping"}, nonce : PingNonce]
      BY <2>2, <3>2 DEF FromPeer
    <3>3. QED
      BY <2>3, <3>1, <3>2 DEF ToPeer
  <2>5. type # "request"
    BY <2>2
  <2>6. [type |-> "request"] \in fromPeer' => [type |-> "request"] \in fromPeer
    <3>1. [type |-> "request"] # [type |-> type, nonce |-> msg.nonce]
      <4>1. [type |-> "request"].type = "request"
        OBVIOUS
      <4>2. [type |-> type, nonce |-> msg.nonce].type = type
        OBVIOUS
      <4>3. QED
        BY <2>5, <4>1, <4>2
    <3>2. QED
      BY <2>2, <3>1
  <2>7. QED
    BY <1>10, <2>1, <2>2, <2>4, <2>6 DEF PeerAnswers, LinkInv
<1>11. CASE PeerRequests
  <2>1. [type |-> "request"] \in FromPeer
    BY DEF FromPeer
  <2>2. QED
    BY <1>11, <2>1 DEF PeerRequests, LinkInv
<1>12. CASE PeerDies
  BY <1>12 DEF PeerDies, LinkInv
<1>13. CASE UNCHANGED vars
  BY <1>13 DEF vars, linkVars, LinkInv
<1>14. QED
  BY <1>1, <1>2, <1>3, <1>4, <1>5, <1>6, <1>7, <1>8, <1>9, <1>10, <1>11, <1>12, <1>13 DEF Next

\* A step either counts a message or does not touch the traffic, unless it saves it.
LEMMA TrafficNext == IInv /\ [Next]_vars => TrafficInv'
<1> SUFFICES ASSUME IInv, [Next]_vars
             PROVE  TrafficInv'
  OBVIOUS
<1> USE DEF IInv
<1>1. ASSUME NEW d \in Direction, Count(d), UNCHANGED statsVars, socket' = "closed" => socket = "closed",
             socket = "closed" => socket' = "closed"
      PROVE  TrafficInv'
  <2>1. total' \in Traffic /\ \A k \in Direction : total[k] <= total'[k]
    BY <1>1, CountType
  <2>2. \A k \in Direction : lastSaved[k] <= total'[k]
    BY <2>1 DEF TrafficInv, Traffic
  <2>3. QED
    BY <1>1, <2>1, <2>2 DEF statsVars, TrafficInv
<1>2. CASE SendRequest
  BY <1>1, <1>2 DEF SendRequest, Send, Direction
<1>3. ASSUME NEW n \in RequestNonce, ReceiveResponse(n)
      PROVE  TrafficInv'
  BY <1>1, <1>3 DEF ReceiveResponse, Receive, Direction
<1>4. CASE ReceiveRequest
  BY <1>1, <1>4 DEF ReceiveRequest, Receive, Direction
<1>5. CASE AnswerRequest
  BY <1>1, <1>5 DEF AnswerRequest, Direction
<1>6. ASSUME NEW n \in PingNonce, SendPing(n)
      PROVE  TrafficInv'
  BY <1>1, <1>6 DEF SendPing, Send, Direction
<1>7. ASSUME NEW n \in PingNonce, ReceivePong(n)
      PROVE  TrafficInv'
  BY <1>1, <1>7 DEF ReceivePong, Receive, Direction
<1>8. ASSUME NEW n \in PingNonce, ReceiveInvalidPong(n)
      PROVE  TrafficInv'
  <2>1. socket # "closed" /\ socket' # "closed" /\ Count("dl") /\ UNCHANGED statsVars
    BY <1>8 DEF ReceiveInvalidPong, Receive
  <2>2. QED
    BY <1>1, <2>1 DEF Direction
<1>9. ASSUME NEW n \in PingNonce, PingTimesOut(n)
      PROVE  TrafficInv'
  <2>1. socket # "closed"
    BY <1>9 DEF PingTimesOut, ClosedInv
  <2>2. QED
    BY <1>9, <2>1 DEF PingTimesOut, statsVars, TrafficInv
<1>10. CASE SaveStats
  <2>1. lifetime' = total
    BY <1>10, AccumulatedIsTotal DEF SaveStats
  <2>2. \A d \in Direction : total[d] <= total[d]
    BY DEF TrafficInv, Traffic
  <2>3. QED
    BY <1>10, <2>1, <2>2 DEF SaveStats, TrafficInv
<1>11. CASE CloseEvent
  <2>1. lifetime' = total
    BY <1>11, AccumulatedIsTotal DEF CloseEvent
  <2>2. QED
    BY <1>11, <2>1 DEF CloseEvent, TrafficInv
<1>12. CASE UNCHANGED <<socket, total, statsVars>>
  BY <1>12 DEF statsVars, TrafficInv
<1>13. QED
  BY <1>2, <1>3, <1>4, <1>5, <1>6, <1>7, <1>8, <1>9, <1>10, <1>11, <1>12
     DEF Next, vars, RequestTimesOut, PeerAnswers, PeerRequests, PeerDies

LEMMA ClosedNext == IInv /\ [Next]_vars => ClosedInv'
<1> SUFFICES ASSUME IInv, [Next]_vars
             PROVE  ClosedInv'
  OBVIOUS
<1> USE DEF IInv, ClosedInv
<1>1. CASE SendRequest \/ \E n \in PingNonce : SendPing(n)
  BY <1>1 DEF SendRequest, SendPing, pingVars
<1>2. ASSUME NEW n \in RequestNonce, RequestTimesOut(n) \/ ReceiveResponse(n)
      PROVE  ClosedInv'
  BY <1>2 DEF RequestTimesOut, ReceiveResponse, Receive, pingVars
<1>3. ASSUME NEW n \in PingNonce, PingTimesOut(n) \/ ReceivePong(n) \/ ReceiveInvalidPong(n)
      PROVE  ClosedInv'
  BY <1>3 DEF PingTimesOut, ReceivePong, ReceiveInvalidPong, Receive
<1>4. CASE CloseEvent
  BY <1>4 DEF CloseEvent
<1>5. CASE UNCHANGED <<socket, requestVars, pingVars>>
  BY <1>5 DEF requestVars, pingVars
<1>6. QED
  BY <1>1, <1>2, <1>3, <1>4, <1>5
     DEF Next, vars, ReceiveRequest, AnswerRequest, SaveStats, PeerAnswers, PeerRequests,
         PeerDies

LEMMA InvariantInit == Init => IInv
<1> SUFFICES ASSUME Init
             PROVE  IInv
  OBVIOUS
<1>1. RequestInv
  <2>1. Responded = {}
    BY DEF Init, Responded
  <2>2. ResponsesAreCounted
    BY <2>1, FS_EmptySet DEF Init, Responded, ResponsesAreCounted
  <2>3. PendingIsUnsettled
    BY ConstantsAssumption DEF Init, PendingIsUnsettled, RequestNonce
  <2>4. QED
    BY <2>2, <2>3, ConstantsAssumption DEF Init, RequestInv
<1>2. PingInv
  BY ConstantsAssumption DEF Init, PingInv
<1>3. LinkInv
  BY ConstantsAssumption DEF Init, LinkInv
<1>4. TrafficInv
  BY ConstantsAssumption DEF Init, TrafficInv, Traffic
<1>5. ClosedInv
  BY DEF Init, ClosedInv
<1>6. QED
  BY <1>1, <1>2, <1>3, <1>4, <1>5 DEF IInv

-----------------------------------------------------------------------------
(* Theorems. *)

\* The inductive invariant holds of every reachable state.
THEOREM SessionInvariant == Spec => []IInv
<1>1. Init => IInv
  BY InvariantInit
<1>2. IInv /\ [Next]_vars => IInv'
  BY RequestNext, PingNext, LinkNext, TrafficNext, ClosedNext DEF IInv
<1>3. QED
  BY <1>1, <1>2, PTL DEF Spec

\* Every variable has its type; the strikes never pass the threshold (Peer.ts).
THEOREM SessionIsTyped == Spec => []TypeOK
  BY SessionInvariant, TypesFollow, PTL

\* A request has a timer exactly as long as its promise is unsettled (RequestManager.ts).
THEOREM RequestsStayAccountedFor == Spec => []PendingIsUnsettled
<1>1. IInv => PendingIsUnsettled
  BY DEF IInv, RequestInv
<1>2. QED
  BY <1>1, SessionInvariant, PTL

\* averageLatencyMs counts exactly the requests that got their response (resolve()).
THEOREM ResponsesCountOnce == Spec => []ResponsesAreCounted
<1>1. IInv => ResponsesAreCounted
  BY DEF IInv, RequestInv
<1>2. QED
  BY <1>1, SessionInvariant, PTL

\* One ping at a time, and none after the close event (Peer.ts).
THEOREM PingsStayBounded == Spec => []PingsAreBounded
<1>1. IInv => PingsAreBounded
  BY DEF IInv, PingInv, ClosedInv, PingsAreBounded
<1>2. QED
  BY <1>1, SessionInvariant, PTL

\* A node gives up a peer of its own accord only after Threshold missed pings in a row or
\* an invalid pong (the ping timeout of Peer.ts).
THEOREM OnlySilenceDisconnects == Spec => AnsweringPeerIsKept
<1> DEFINE Gives == socket = "open" /\ socket' = "closing"
           Cause == \/ missed' = Threshold
                    \/ \E n \in pendingPings : [type |-> "invalid_pong", nonce |-> n] \in fromPeer
<1>1. IInv /\ IInv' /\ [Next]_vars => (Gives => Cause)
  <2> SUFFICES ASSUME IInv, IInv', [Next]_vars, Gives
               PROVE  Cause
    OBVIOUS
  <2>1. ASSUME NEW n \in PingNonce, PingTimesOut(n)
        PROVE  Cause
    <3>1. ~(strikes' < Threshold)
      BY <2>1 DEF PingTimesOut
    <3>2. strikes' \in 0..Threshold /\ missed' = strikes'
      BY DEF IInv, PingInv
    <3>3. QED
      BY <3>1, <3>2, ConstantsAssumption
  <2>2. ASSUME NEW n \in PingNonce, ReceiveInvalidPong(n)
        PROVE  Cause
    BY <2>2 DEF ReceiveInvalidPong, Receive
  <2>3. CASE socket' = socket \/ CloseEvent
    BY <2>3 DEF CloseEvent
  <2>4. QED
    BY <2>1, <2>2, <2>3
       DEF Next, vars, SendRequest, RequestTimesOut, ReceiveResponse, ReceiveRequest,
           AnswerRequest, SendPing, ReceivePong, SaveStats, PeerAnswers, PeerRequests, PeerDies
<1>2. QED
  BY <1>1, SessionInvariant, PTL DEF Spec, AnsweringPeerIsKept

\* The lifetime counters are exact when the peer has closed, and change no more (the save
\* interval and the final save of Peer.ts).
THEOREM LifetimeStaysExact == Spec => LifetimeIsExact
<1> DEFINE Exact == /\ socket # "closed" /\ socket' = "closed" => lifetime' = total
                    /\ socket = "closed" => lifetime' = lifetime
<1>1. IInv /\ [Next]_vars => Exact
  <2> SUFFICES ASSUME IInv, [Next]_vars
               PROVE  Exact
    OBVIOUS
  <2>1. CASE CloseEvent
    BY <2>1, AccumulatedIsTotal DEF CloseEvent, IInv
  <2>2. CASE SaveStats
    BY <2>2 DEF SaveStats
  <2>3. ASSUME NEW n \in PingNonce, PingTimesOut(n) \/ ReceiveInvalidPong(n)
        PROVE  Exact
    BY <2>3 DEF PingTimesOut, ReceiveInvalidPong, Receive, statsVars
  <2>4. CASE UNCHANGED <<socket, lifetime>>
    BY <2>4
  <2>5. QED
    BY <2>1, <2>2, <2>3, <2>4
       DEF Next, vars, statsVars, SendRequest, RequestTimesOut, ReceiveResponse, ReceiveRequest,
           AnswerRequest, SendPing, ReceivePong, PeerAnswers, PeerRequests, PeerDies
<1>2. QED
  BY <1>1, SessionInvariant, PTL DEF Spec, LifetimeIsExact

=============================================================================
