----------------------------- MODULE PeerSession -----------------------------
(***************************************************************************)
(* One connected peer (Peer.ts with its RequestManager.ts), from the       *)
(* socket that add() hands over until its close event: the requests sent   *)
(* to the peer and their timeouts, the pings that watch over it, the       *)
(* searches done for it, and the bytes counted for its lifetime.           *)
(*                                                                         *)
(* Every message counts as one byte, and the counters stop at MaxTraffic.  *)
(* Ping nonces are reused once nothing refers to them any more.  The order *)
(* of what is on the way is left open.                                     *)
(***************************************************************************)
EXTENDS Integers, FiniteSets

CONSTANTS
  MaxRequests,  \* how many requests are sent to the peer
  PingNonce,    \* the nonces of pings
  MaxServing,   \* how many of the peer's requests are served at a time
  MaxTraffic,   \* where the byte counters stop
  Threshold     \* timeoutThreshold: the timeouts in a row that disconnect a peer

ASSUME ConstantsAssumption ==
  /\ MaxRequests \in Nat
  /\ MaxServing \in Nat
  /\ MaxTraffic \in Nat
  /\ Threshold \in Nat \ {0}

RequestNonce == 0..(MaxRequests - 1)
Direction == {"ul", "dl"}

VARIABLES
  socket,        \* "open", "closing" after socket.close(), "closed" after the close event
  alive,         \* the peer's process runs and can be reached
  toPeer,        \* the requests and pings on the way to the peer
  fromPeer,      \* the responses, pongs and requests on the way from it
  nonce,         \* RequestManager: the nonce of the next request
  pending,       \* RequestManager: the nonces of the requests that have a timer
  outcome,       \* what the promise of a request has been resolved with
  resolvedCount, \* RequestManager: how many responses went into averageLatencyMs
  pendingPings,  \* the nonces of the pings that have a timer
  strikes,       \* consecutivePingTimeouts
  missed,        \* history variable: how many pings in a row got no pong in time
  serving,       \* how many searches for the peer are under way
  total,         \* _ul and _dl
  lastSaved,     \* lastSavedUL and lastSavedDL
  lifetime       \* what is in the database for this session

linkVars    == <<toPeer, fromPeer>>
requestVars == <<nonce, pending, outcome, resolvedCount>>
pingVars    == <<pendingPings, strikes, missed>>
statsVars   == <<lastSaved, lifetime>>
vars == <<socket, alive, linkVars, requestVars, pingVars, serving, total, statsVars>>

ToPeer == [type : {"request"}, nonce : RequestNonce] \cup [type : {"ping"}, nonce : PingNonce]

FromPeer ==
  [type : {"response"}, nonce : RequestNonce] \cup [type : {"pong", "invalid_pong"}, nonce : PingNonce]
  \cup [type : {"request"}]

Traffic == [Direction -> 0..MaxTraffic]

TypeOK ==
  /\ socket \in {"open", "closing", "closed"}
  /\ alive \in BOOLEAN
  /\ toPeer \subseteq ToPeer
  /\ fromPeer \subseteq FromPeer
  /\ nonce \in 0..MaxRequests
  /\ pending \subseteq RequestNonce
  /\ outcome \in [RequestNonce -> {"none", "response", "failed"}]
  /\ resolvedCount \in 0..MaxRequests
  /\ pendingPings \subseteq PingNonce
  /\ strikes \in 0..Threshold
  /\ missed \in 0..Threshold
  /\ serving \in 0..MaxServing
  /\ total \in Traffic /\ lastSaved \in Traffic /\ lifetime \in Traffic

Init ==
  /\ socket = "open" /\ alive = TRUE
  /\ toPeer = {} /\ fromPeer = {}
  /\ nonce = 0 /\ pending = {} /\ resolvedCount = 0
  /\ outcome = [n \in RequestNonce |-> "none"]
  /\ pendingPings = {} /\ strikes = 0 /\ missed = 0
  /\ serving = 0
  /\ total = [d \in Direction |-> 0]
  /\ lastSaved = [d \in Direction |-> 0]
  /\ lifetime = [d \in Direction |-> 0]

UpTo(limit, n) == IF n < limit THEN n ELSE limit

Count(d) == total' = [total EXCEPT ![d] = UpTo(MaxTraffic, @ + 1)]

\* send(): counted in any case, and lost unless the connection stands.
Send(msg) ==
  /\ Count("ul")
  /\ toPeer' = IF socket = "open" /\ alive THEN toPeer \cup {msg} ELSE toPeer

\* onMessage() of a message of the peer
Receive(msg) ==
  /\ socket # "closed"
  /\ msg \in fromPeer
  /\ fromPeer' = fromPeer \ {msg}
  /\ Count("dl")

-----------------------------------------------------------------------------
(* Requests. *)

\* The promises of the requests ns are resolved; one that is settled keeps its value.
Settle(ns, value) ==
  outcome' = [n \in RequestNonce |->
                IF n \in ns /\ outcome[n] = "none" THEN value ELSE outcome[n]]

\* A request is registered and sent in the same turn.  requestAll() takes the peer from the
\* table, where it stays until the close event; runPeerWarmupSearches() keeps the peer from
\* one search to the next, and goes on with the next when it has been closed.
SendRequest ==
  /\ nonce < MaxRequests
  /\ nonce' = nonce + 1
  /\ pending' = pending \cup {nonce}
  /\ Send([type |-> "request", nonce |-> nonce])
  /\ UNCHANGED <<socket, alive, fromPeer, outcome, resolvedCount, pingVars, serving, statsVars>>

\* Mutant of RequestTimesOut: the caller is not told.
RequestTimesOutSilently(n) ==
  /\ n \in pending
  /\ pending' = pending \ {n}
  /\ UNCHANGED <<socket, alive, linkVars, nonce, outcome, resolvedCount, pingVars, serving,
                 total, statsVars>>

\* The timer of a request fires.
RequestTimesOut(n) ==
  /\ n \in pending
  /\ pending' = pending \ {n}
  /\ Settle({n}, "failed")
  /\ UNCHANGED <<socket, alive, linkVars, nonce, resolvedCount, pingVars, serving, total, statsVars>>

\* resolve(): a response settles its request, unless that has timed out.
ReceiveResponse(n) ==
  /\ Receive([type |-> "response", nonce |-> n])
  /\ IF n \in pending
       THEN /\ pending' = pending \ {n}
            /\ Settle({n}, "response")
            /\ resolvedCount' = resolvedCount + 1
       ELSE UNCHANGED <<pending, outcome, resolvedCount>>
  /\ UNCHANGED <<socket, alive, toPeer, nonce, pingVars, serving, statsVars>>

\* A request of the peer arrives: its search begins.
ReceiveRequest ==
  /\ Receive([type |-> "request"])
  /\ serving' = serving + 1
  /\ UNCHANGED <<socket, alive, toPeer, requestVars, pingVars, statsVars>>

\* A search for the peer is done, perhaps after the peer has gone; the response is sent.
AnswerRequest ==
  /\ serving > 0
  /\ serving' = serving - 1
  /\ Count("ul")
  /\ UNCHANGED <<socket, alive, linkVars, requestVars, pingVars, statsVars>>

-----------------------------------------------------------------------------
(* Pings. *)

\* A nonce that no ping or pong carries any more
Fresh(n) ==
  /\ n \in PingNonce \ pendingPings
  /\ [type |-> "ping", nonce |-> n] \notin toPeer
  /\ \A pong \in {"pong", "invalid_pong"} : [type |-> pong, nonce |-> n] \notin fromPeer

\* The ping interval fires; it skips its turn while a ping is pending.
SendPing(n) ==
  /\ socket # "closed" /\ pendingPings = {} /\ Fresh(n)
  /\ pendingPings' = pendingPings \cup {n}
  /\ Send([type |-> "ping", nonce |-> n])
  /\ UNCHANGED <<socket, alive, fromPeer, requestVars, strikes, missed, serving, statsVars>>

\* Mutant of PingTimesOut: the strikes stop short of the threshold.
PingTimesOutLeniently(n) ==
  /\ n \in pendingPings
  /\ pendingPings' = pendingPings \ {n}
  /\ strikes' = UpTo(Threshold - 1, strikes + 1)
  /\ missed' = UpTo(Threshold, missed + 1)
  /\ socket' = IF strikes' < Threshold THEN socket ELSE "closing"
  /\ UNCHANGED <<alive, linkVars, requestVars, serving, total, statsVars>>

\* The timer of a ping fires; at the threshold the peer is disconnected.
PingTimesOut(n) ==
  /\ n \in pendingPings
  /\ pendingPings' = pendingPings \ {n}
  /\ strikes' = UpTo(Threshold, strikes + 1)
  /\ missed' = UpTo(Threshold, missed + 1)
  /\ socket' = IF strikes' < Threshold THEN socket ELSE "closing"
  /\ UNCHANGED <<alive, linkVars, requestVars, serving, total, statsVars>>

\* Mutant of ReceivePong: the strikes are not taken back.
ReceivePongKeepsStrikes(n) ==
  /\ Receive([type |-> "pong", nonce |-> n])
  /\ pendingPings' = pendingPings \ {n}
  /\ missed' = IF n \in pendingPings THEN 0 ELSE missed
  /\ UNCHANGED <<socket, alive, toPeer, requestVars, strikes, serving, statsVars>>

\* A pong in time takes the strikes back; a late one changes nothing.
ReceivePong(n) ==
  /\ Receive([type |-> "pong", nonce |-> n])
  /\ pendingPings' = pendingPings \ {n}
  /\ IF n \in pendingPings
       THEN strikes' = 0 /\ missed' = 0
       ELSE UNCHANGED <<strikes, missed>>
  /\ UNCHANGED <<socket, alive, toPeer, requestVars, serving, statsVars>>

\* An invalid pong disconnects the peer if it is in time, and is ignored otherwise.
ReceiveInvalidPong(n) ==
  /\ Receive([type |-> "invalid_pong", nonce |-> n])
  /\ pendingPings' = pendingPings \ {n}
  /\ socket' = IF n \in pendingPings THEN "closing" ELSE socket
  /\ UNCHANGED <<alive, toPeer, requestVars, strikes, missed, serving, statsVars>>

-----------------------------------------------------------------------------
(* Statistics and the end. *)

\* What has not been saved yet, added to the lifetime counters
Accumulated ==
  [d \in Direction |-> UpTo(MaxTraffic, lifetime[d] + (total[d] - lastSaved[d]))]

\* Mutant of SaveStats: the same bytes are saved again the next time.
SaveStatsForgetful ==
  /\ socket # "closed"
  /\ \E d \in Direction : total[d] > lastSaved[d]
  /\ lifetime' = Accumulated
  /\ UNCHANGED <<socket, alive, linkVars, requestVars, pingVars, serving, total, lastSaved>>

\* The interval that saves the session's statistics fires.
SaveStats ==
  /\ socket # "closed"
  /\ \E d \in Direction : total[d] > lastSaved[d]
  /\ lifetime' = Accumulated
  /\ lastSaved' = total
  /\ UNCHANGED <<socket, alive, linkVars, requestVars, pingVars, serving, total>>

\* The close event: all pending requests fail, all timers stop, the rest is saved.
CloseEvent ==
  /\ socket # "closed"
  /\ socket' = "closed"
  /\ Settle(pending, "failed")
  /\ pending' = {}
  /\ pendingPings' = {}
  /\ lifetime' = Accumulated
  /\ toPeer' = {} /\ fromPeer' = {}
  /\ UNCHANGED <<alive, nonce, resolvedCount, strikes, missed, serving, total, lastSaved>>

-----------------------------------------------------------------------------
(* The peer. *)

\* It answers a request or a ping, in any order, and may have a version whose pong is
\* not understood.
PeerAnswers ==
  /\ alive /\ socket # "closed"
  /\ \E msg \in toPeer :
       /\ toPeer' = toPeer \ {msg}
       /\ \E type \in IF msg.type = "request" THEN {"response"} ELSE {"pong", "invalid_pong"} :
            fromPeer' = fromPeer \cup {[type |-> type, nonce |-> msg.nonce]}
  /\ UNCHANGED <<socket, alive, requestVars, pingVars, serving, total, statsVars>>

PeerRequests ==
  /\ alive /\ socket # "closed"
  /\ serving < MaxServing /\ [type |-> "request"] \notin fromPeer
  /\ fromPeer' = fromPeer \cup {[type |-> "request"]}
  /\ UNCHANGED <<socket, alive, toPeer, requestVars, pingVars, serving, total, statsVars>>

\* It stops, or the network between fails, without a word.
PeerDies ==
  /\ alive
  /\ alive' = FALSE
  /\ toPeer' = {}
  /\ fromPeer' \in SUBSET fromPeer
  /\ UNCHANGED <<socket, requestVars, pingVars, serving, total, statsVars>>

Next ==
  \/ SendRequest \/ ReceiveRequest \/ AnswerRequest
  \/ \E n \in RequestNonce : RequestTimesOut(n) \/ ReceiveResponse(n)
  \/ \E n \in PingNonce : SendPing(n) \/ PingTimesOut(n) \/ ReceivePong(n) \/ ReceiveInvalidPong(n)
  \/ SaveStats \/ CloseEvent
  \/ PeerAnswers \/ PeerRequests \/ PeerDies

Spec == Init /\ [][Next]_vars

\* Timers fire, a close() is followed by its event, and what is on the way arrives.
FairSpec ==
  /\ Spec
  /\ \A n \in RequestNonce : WF_vars(RequestTimesOut(n)) /\ WF_vars(ReceiveResponse(n))
  /\ \A n \in PingNonce : WF_vars(ReceivePong(n)) /\ WF_vars(ReceiveInvalidPong(n))
  /\ WF_vars(\E n \in PingNonce : SendPing(n))
  /\ WF_vars(\E n \in PingNonce : PingTimesOut(n))
  /\ WF_vars(socket = "closing" /\ CloseEvent)

-----------------------------------------------------------------------------
(* Properties. *)

\* A request has a timer exactly as long as its promise is unsettled, whatever comes
\* first of response, timeout and close, and even if it is sent after the close event: no
\* caller of request() waits for ever, and no response is taken for a request that has
\* failed (RequestManager.ts).
PendingIsUnsettled ==
  \A n \in RequestNonce : n \in pending <=> n < nonce /\ outcome[n] = "none"

\* averageLatencyMs counts each request that got its response, once, and none that
\* failed, even if its response comes after the timeout (resolve()).
ResponsesAreCounted ==
  resolvedCount = Cardinality({n \in RequestNonce : outcome[n] = "response"})

\* At most one ping is under way, although the interval is shorter than the timeout, and
\* none once the session is closed: no strike is counted, and no socket closed, for a peer
\* that has gone and come back with another session.  Requests may be under way even then.
PingsAreBounded ==
  /\ \A n, k \in pendingPings : n = k
  /\ socket = "closed" => pendingPings = {}

\* The node only gives up a peer of its own accord when as many pings in a row as
\* timeoutThreshold got no pong in time, or on an invalid pong.
AnsweringPeerIsKept ==
  [][socket = "open" /\ socket' = "closing" =>
       \/ missed' = Threshold
       \/ \E n \in pendingPings : [type |-> "invalid_pong", nonce |-> n] \in fromPeer]_vars

\* The lifetime counters lag behind by what has not been saved, are exact when the peer
\* has been closed, and change no more: every byte of the session is counted once
\* (the save interval and the final save of Peer.ts).
LifetimeIsExact ==
  [][/\ socket # "closed" /\ socket' = "closed" => lifetime' = total
     /\ socket = "closed" => lifetime' = lifetime]_vars

\* Every request is settled, also one that the close event came too early for.
RequestsSettle ==
  \A n \in RequestNonce : n \in pending ~> outcome[n] # "none"

\* A peer that falls silent without closing its connection is noticed and disconnected.
SilentPeerIsDropped == ~alive ~> socket = "closed"

=============================================================================
