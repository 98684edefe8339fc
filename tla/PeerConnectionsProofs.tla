------------------------ MODULE PeerConnectionsProofs ------------------------
(***************************************************************************)
(* Proofs about PeerConnections for every set of hosts, addresses and      *)
(* sockets and every limit.  IInv is the inductive invariant: types, the   *)
(* cache, the dials, the agreement of table and connections, and the       *)
(* hostnames held to be connected.                                         *)
(***************************************************************************)
EXTENDS PeerConnections, TLAPS

\* A dial that has got as far as a transport does not lead back to the node:
\* shouldConnect() has compared the proved address with the node's own.
DialsAvoidSelf ==
  \A h \in DialableHost :
    dial[h] # None /\ dial[h].identity # None => dial[h].identity.address # SelfAddress

IInv ==
  /\ TypeOK
  /\ CacheProvesItsHostname
  /\ ConnectingPeersAreDials
  /\ DialsAvoidSelf
  /\ TableMatchesConnections
  /\ KnownPeersAreConnected

PeerHost == Host \ {ApiHost}

-----------------------------------------------------------------------------
(* Constants. *)

\* A proved identity is an identity of another node, filed under the hostname asked.
LEMMA ProvedIdentityType ==
  ASSUME NEW at \in PeerHost
  PROVE  /\ ProvedIdentity(at) \in PeerIdentity
         /\ ProvedIdentity(at).hostname = at
         /\ Advertised[at].hostname \in PeerHost
  BY ConstantsAssumption DEF ProvedIdentity, PeerIdentity, Identity, PeerHost

\* The absent value is told apart from everything a map can hold.
LEMMA NoneIsNothing ==
  /\ None \notin Socket /\ None \notin Address /\ None \notin Host
  /\ None \notin PeerIdentity /\ None # ApiIdentity
  /\ None \notin Dial
  BY ConstantsAssumption DEF PeerIdentity, ApiIdentity, Identity

\* normalizeHostname() is the identity as long as the cache proves its hostnames.
LEMMA NormalizeIsIdentity ==
  ASSUME NEW cache, NEW h \in Host,
         \A k \in PeerHost : cache[k] # None => cache[k].hostname = k
  PROVE  Normalize(h, cache) = h
  BY DEF Normalize, PeerHost

-----------------------------------------------------------------------------
(* The helpers of the handlers. *)

\* The part of TypeOK that the bookkeeping of a failed dial can touch.
RetryTypes ==
  /\ reconnectTimers \subseteq PeerHost
  /\ reconnectAttempts \in [PeerHost -> 0..MaxAttempts]
  /\ recentConnectionFailures \subseteq PeerHost

\* scheduleReconnect() keeps the timers and the bounded count well typed.
LEMMA ScheduleReconnectTypes ==
  ASSUME RetryTypes, NEW h \in PeerHost, NEW timers \in SUBSET PeerHost,
         ScheduleReconnect(h, timers)
  PROVE  /\ reconnectTimers' \subseteq PeerHost
         /\ reconnectAttempts' \in [PeerHost -> 0..MaxAttempts]
<1>1. CASE reconnectAttempts[h] < MaxAttempts
  <2>1. reconnectAttempts[h] + 1 \in 0..MaxAttempts
    BY <1>1, ConstantsAssumption DEF RetryTypes
  <2>2. QED
    BY <1>1, <2>1, ConstantsAssumption DEF RetryTypes, ScheduleReconnect
<1>2. CASE reconnectAttempts[h] >= MaxAttempts
  BY <1>2, ConstantsAssumption DEF RetryTypes, ScheduleReconnect
<1>3. QED
  BY <1>1, <1>2, ConstantsAssumption DEF RetryTypes

\* recordConnectionFailure() only adds the hostname it is called with.
LEMMA RecordFailureTypes ==
  ASSUME RetryTypes, NEW h \in PeerHost, NEW cache, RecordFailure(h, cache)
  PROVE  recentConnectionFailures' \subseteq PeerHost
  BY DEF RetryTypes, RecordFailure

\* The caller of a failed add() keeps its bookkeeping well typed.
LEMMA AddReturnsFalseTypes ==
  ASSUME RetryTypes, NEW h \in PeerHost, NEW origin, NEW connecting,
         NEW timers \in SUBSET PeerHost, NEW cache,
         AddReturnsFalse(h, origin, connecting, timers, cache)
  PROVE  RetryTypes'
<1>1. CASE origin = "discovery"
  BY <1>1 DEF AddReturnsFalse, RetryTypes
<1>2. CASE origin = "api"
  BY <1>2, RecordFailureTypes DEF AddReturnsFalse, RetryTypes
<1>3. CASE origin = "reconnect" /\ Satisfied(h, connecting, cache)
  <2>1. 0 \in 0..MaxAttempts
    BY ConstantsAssumption
  <2>2. QED
    BY <1>3, <2>1 DEF AddReturnsFalse, RetryTypes
<1>4. CASE origin = "reconnect" /\ ~Satisfied(h, connecting, cache)
  BY <1>4, RecordFailureTypes, ScheduleReconnectTypes DEF AddReturnsFalse, RetryTypes
<1>5. QED
  BY <1>1, <1>2, <1>3, <1>4 DEF AddReturnsFalse

\* What the invariant says of the dials, and of the cache.
DialInv ==
  /\ connectingPeers \subseteq DialableHost
  /\ dial \in [DialableHost -> Dial \cup {None}]
  /\ ConnectingPeersAreDials
  /\ DialsAvoidSelf

CacheInv ==
  /\ authenticatedPeers \in [PeerHost -> PeerIdentity \cup {None}]
  /\ CacheProvesItsHostname

\* The finally block of add() takes exactly the failed dial away.
LEMMA DialFailsKeeps ==
  ASSUME RetryTypes, DialInv, NEW h \in DialableHost, NEW origin,
         NEW timers \in SUBSET PeerHost, NEW cache,
         DialFails(h, origin, timers, cache)
  PROVE  RetryTypes' /\ DialInv'
<1>1. h \in PeerHost
  BY ConstantsAssumption DEF PeerHost
<1>2. RetryTypes'
  BY <1>1, AddReturnsFalseTypes DEF DialFails
<1>3. DialInv'
  BY DEF DialInv, DialFails, ConnectingPeersAreDials, DialsAvoidSelf
<1>4. QED
  BY <1>2, <1>3

\* A dial goes on to a transport only with an identity that is not the node's.
LEMMA HaveIdentityKeeps ==
  ASSUME RetryTypes, DialInv, NEW h \in DialableHost, NEW origin \in Origin,
         NEW id \in PeerIdentity, NEW timers \in SUBSET PeerHost, NEW cache,
         HaveIdentity(h, origin, id, timers, cache)
  PROVE  RetryTypes' /\ DialInv'
<1>1. CASE ~ShouldConnect(h, id)
  BY <1>1, DialFailsKeeps DEF HaveIdentity
<1>2. CASE ShouldConnect(h, id)
  <2> DEFINE d == [origin |-> origin, authenticating |-> None, identity |-> id]
  <2>1. /\ connectingPeers' = connectingPeers \cup {h}
        /\ dial' = [dial EXCEPT ![h] = d]
        /\ reconnectTimers' = timers
        /\ UNCHANGED <<reconnectAttempts, recentConnectionFailures>>
    BY <1>2 DEF HaveIdentity
  <2>2. d \in Dial /\ d # None
    BY NoneIsNothing DEF Dial
  <2>3. d.identity.address # SelfAddress
    BY <1>2 DEF ShouldConnect
  <2>4. DialInv'
    BY <2>1, <2>2, <2>3 DEF DialInv, ConnectingPeersAreDials, DialsAvoidSelf
  <2>5. RetryTypes'
    BY <2>1 DEF RetryTypes
  <2>6. QED
    BY <2>4, <2>5
<1>3. QED
  BY <1>1, <1>2

\* Starting to authenticate, from the cache or by a fetch, keeps dials and cache sound.
LEMMA AuthenticateKeeps ==
  ASSUME RetryTypes, DialInv, CacheInv, NEW h \in DialableHost, NEW origin \in Origin,
         NEW at \in PeerHost, NEW timers \in SUBSET PeerHost,
         Authenticate(h, origin, at, timers)
  PROVE  RetryTypes' /\ DialInv' /\ CacheInv'
<1>1. CASE /\ authenticatedPeers[at] # None
           /\ HaveIdentity(h, origin, authenticatedPeers[at], timers, authenticatedPeers)
           /\ UNCHANGED authenticatedPeers
  <2>1. authenticatedPeers[at] \in PeerIdentity
    BY <1>1 DEF CacheInv
  <2>2. RetryTypes' /\ DialInv'
    BY <1>1, <2>1, HaveIdentityKeeps
  <2>3. CacheInv'
    BY <1>1 DEF CacheInv, CacheProvesItsHostname
  <2>4. QED
    BY <2>2, <2>3
<1>2. CASE /\ connectingPeers' = connectingPeers \cup {h}
           /\ dial' = [dial EXCEPT ![h] = [origin |-> origin, authenticating |-> at,
                                           identity |-> None]]
           /\ reconnectTimers' = timers
           /\ \E entry \in {None, authenticatedPeers[at]} :
                authenticatedPeers' = [authenticatedPeers EXCEPT ![at] = entry]
           /\ UNCHANGED <<reconnectAttempts, recentConnectionFailures>>
  <2> DEFINE d == [origin |-> origin, authenticating |-> at, identity |-> None]
  <2>1. d \in Dial /\ d # None
    BY NoneIsNothing DEF Dial, PeerHost
  <2>2. d.identity = None
    OBVIOUS
  <2>3. dial' = [dial EXCEPT ![h] = d]
    BY <1>2
  <2>4. DialInv'
    BY <1>2, <2>1, <2>2, <2>3 DEF DialInv, ConnectingPeersAreDials, DialsAvoidSelf
  <2>5. CacheInv'
    BY <1>2 DEF CacheInv, CacheProvesItsHostname, PeerHost
  <2>6. RetryTypes'
    BY <1>2 DEF RetryTypes
  <2>7. QED
    BY <2>4, <2>5, <2>6
<1>3. QED
  BY <1>1, <1>2 DEF Authenticate

\* add() of a hostname, up to its first wait, keeps dials and cache sound.
LEMMA AddKeeps ==
  ASSUME RetryTypes, DialInv, CacheInv, NEW h \in PeerHost, NEW origin \in Origin,
         NEW known, NEW timers \in SUBSET PeerHost,
         Add(h, origin, known, timers)
  PROVE  RetryTypes' /\ DialInv' /\ CacheInv'
<1> DEFINE key == Normalize(h, authenticatedPeers)
           admits == /\ h \in DialableHost
                     /\ key \notin connectingPeers
                     /\ ShouldAuthenticate(key, known)
<1>1. key = h
  BY NormalizeIsIdentity DEF CacheInv, CacheProvesItsHostname, PeerHost
<1>2. CASE ~admits
  <2>1. /\ AddReturnsFalse(h, origin, connectingPeers, timers, authenticatedPeers)
        /\ UNCHANGED <<dialVars, authenticatedPeers>>
    BY <1>2 DEF Add
  <2>2. RetryTypes'
    BY <2>1, AddReturnsFalseTypes
  <2>3. DialInv' /\ CacheInv'
    BY <2>1 DEF dialVars, DialInv, CacheInv, ConnectingPeersAreDials, DialsAvoidSelf,
                CacheProvesItsHostname
  <2>4. QED
    BY <2>2, <2>3
<1>3. CASE admits
  <2>1. h \in DialableHost /\ Authenticate(h, origin, h, timers)
    BY <1>1, <1>3 DEF Add
  <2>2. QED
    BY <2>1, AuthenticateKeeps
<1>4. QED
  BY <1>2, <1>3

-----------------------------------------------------------------------------
(* The table. *)

\* What the invariant says of connections, of the table and of the hostnames in use.
TableInv ==
  /\ socket \in [Socket -> PeerIdentity \cup {ApiIdentity, None}]
  /\ peers \in [Address -> Socket \cup {None}]
  /\ knownPeers \subseteq Host
  /\ recentPeerAddresses \in [Host -> Address \cup {None}]
  /\ wsServer \subseteq Host
  /\ TableMatchesConnections
  /\ KnownPeersAreConnected

\* The invariant is the conjunction of its four parts, before and after a step.
LEMMA IInvParts ==
  /\ IInv <=> RetryTypes /\ DialInv /\ CacheInv /\ TableInv
  /\ IInv' <=> RetryTypes' /\ DialInv' /\ CacheInv' /\ TableInv'
  BY DEF IInv, TypeOK, RetryTypes, DialInv, CacheInv, TableInv, PeerHost

\* Whoever is at the other end of a socket, the hostname and the address are the
\* web UI's together or neither is.
LEMMA IdentityFields ==
  ASSUME NEW id \in PeerIdentity \cup {ApiIdentity}
  PROVE  /\ id.address \in Address /\ id.hostname \in Host
         /\ id.address = ApiAddress <=> id = ApiIdentity
         /\ id.hostname = ApiHost <=> id = ApiIdentity
  BY ConstantsAssumption DEF PeerIdentity, ApiIdentity, Identity

\* add(socket) past the duplicate check: the new connection enters the table and the
\* known hostnames; if it replaces one it is the web UI's, which has the same hostname.
LEMMA RegisterKeeps ==
  ASSUME TableInv, CacheInv, NEW s \in Socket, socket[s] = None,
         NEW id \in PeerIdentity \cup {ApiIdentity},
         id.address # ApiAddress => ~Connected(id.address),
         Register(s, id)
  PROVE  TableInv'
<1>1. id.address \in Address /\ id.hostname \in Host
  BY IdentityFields
<1>2. Normalize(id.hostname, authenticatedPeers) = id.hostname
  BY <1>1, NormalizeIsIdentity DEF CacheInv, CacheProvesItsHostname, PeerHost
<1>3. /\ socket' = [socket EXCEPT ![s] = id]
      /\ peers' = [peers EXCEPT ![id.address] = s]
      /\ wsServer' = {socket'[peers'[a]].hostname : a \in {b \in Address : peers'[b] # None}}
      /\ knownPeers' = knownPeers \cup {id.hostname}
      /\ recentPeerAddresses' = [recentPeerAddresses EXCEPT ![id.hostname] = id.address]
  BY <1>2 DEF Register
<1>4. s # None /\ id # None
  BY NoneIsNothing
<1>5. /\ socket' \in [Socket -> PeerIdentity \cup {ApiIdentity, None}]
      /\ peers' \in [Address -> Socket \cup {None}]
      /\ knownPeers' \subseteq Host
      /\ recentPeerAddresses' \in [Host -> Address \cup {None}]
  BY <1>1, <1>3 DEF TableInv
<1>6. \A a \in Address : Connected(a) /\ a # id.address => peers[a] \in Socket \ {s}
  BY NoneIsNothing DEF TableInv, TableMatchesConnections, Connected
<1>7. \A a \in Address : Connected(a)' <=> Connected(a) \/ a = id.address
  BY <1>1, <1>3, <1>4 DEF Connected, TableInv
<1>8. \A a \in Address : Connected(a) /\ a # id.address
                            => peers'[a] = peers[a] /\ socket'[peers'[a]] = socket[peers[a]]
  BY <1>1, <1>3, <1>6 DEF TableInv
<1>9. peers'[id.address] = s /\ socket'[s] = id
  BY <1>1, <1>3 DEF TableInv
<1>10. TableMatchesConnections'
  <2>1. \A a \in Address : Connected(a)' => /\ socket'[peers'[a]] # None
                                            /\ socket'[peers'[a]].address = a
    BY <1>4, <1>7, <1>8, <1>9 DEF TableInv, TableMatchesConnections
  <2>2. ASSUME NEW t \in Socket, socket'[t] # None, socket'[t].address # ApiAddress
        PROVE  peers'[socket'[t].address] = t
    <3>1. CASE t = s
      BY <3>1, <1>9
    <3>2. CASE t # s
      <4>1. socket'[t] = socket[t]
        BY <3>2, <1>3 DEF TableInv
      <4>2. peers[socket[t].address] = t /\ socket[t].address \in Address
        BY <4>1, <2>2, IdentityFields DEF TableInv, TableMatchesConnections
      <4>3. Connected(socket[t].address)
        BY <4>2, NoneIsNothing DEF Connected
      <4>4. socket[t].address # id.address
        BY <4>1, <4>3, <2>2
      <4>5. QED
        BY <4>1, <4>2, <4>3, <4>4, <1>8
    <3>3. QED
      BY <3>1, <3>2
  <2>3. QED
    BY <2>1, <2>2 DEF TableMatchesConnections, Connected
<1>11. wsServer' \subseteq Host
  <2>1. \A a \in Address : peers'[a] # None => socket'[peers'[a]] \in PeerIdentity \cup {ApiIdentity}
    BY <1>5, <1>10 DEF TableMatchesConnections, Connected
  <2>2. QED
    BY <2>1, <1>3, IdentityFields
<1>12. KnownPeersAreConnected'
  <2>1. ASSUME NEW h \in knownPeers'
        PROVE  \E a \in Address : Connected(a)' /\ socket'[peers'[a]].hostname = h
    <3>1. CASE h = id.hostname
      BY <3>1, <1>1, <1>7, <1>9
    <3>2. CASE h # id.hostname
      <4>1. PICK a \in Address : Connected(a) /\ socket[peers[a]].hostname = h
        BY <3>2, <2>1, <1>3 DEF TableInv, KnownPeersAreConnected
      <4>2. a # id.address
        <5>1. SUFFICES ASSUME a = id.address PROVE FALSE
          OBVIOUS
        <5>2. a = ApiAddress /\ id = ApiIdentity
          BY <4>1, <5>1, IdentityFields
        <5>3. /\ socket[peers[a]] \in PeerIdentity \cup {ApiIdentity}
              /\ socket[peers[a]].address = a
          BY <4>1 DEF TableInv, TableMatchesConnections, Connected
        <5>4. socket[peers[a]] = ApiIdentity
          BY <5>2, <5>3, IdentityFields
        <5>5. QED
          BY <5>2, <5>4, <4>1, <3>2
      <4>3. QED
        BY <4>1, <4>2, <1>7, <1>8
    <3>3. QED
      BY <3>1, <3>2
  <2>2. QED
    BY <2>1 DEF KnownPeersAreConnected, Connected
<1>13. QED
  BY <1>5, <1>10, <1>11, <1>12 DEF TableInv

\* Registering a peer and forgetting its attempts keeps the retry bookkeeping well typed.
LEMMA RegisterTypes ==
  ASSUME RetryTypes, NEW s, NEW id, NEW hs, Register(s, id), ClearAttempts(hs)
  PROVE  RetryTypes'
  BY ConstantsAssumption DEF RetryTypes, Register, ClearAttempts, PeerHost

\* A step that leaves connections, table and hostnames alone, but for the hostnames it
\* takes out of knownPeers, keeps the table sound.
LEMMA TableUntouched ==
  ASSUME TableInv, UNCHANGED <<socket, peers, recentPeerAddresses, wsServer>>,
         knownPeers' \subseteq knownPeers
  PROVE  TableInv'
  BY DEF TableInv, TableMatchesConnections,
         KnownPeersAreConnected, Connected

-----------------------------------------------------------------------------
(* The actions, one lemma each. *)

\* What an action leaves alone of the dials and of the cache stays sound.
LEMMA DialUntouched ==
  ASSUME DialInv, UNCHANGED dialVars
  PROVE  DialInv'
  BY DEF DialInv, dialVars, ConnectingPeersAreDials, DialsAvoidSelf

LEMMA CacheUntouched ==
  ASSUME CacheInv, UNCHANGED authenticatedPeers
  PROVE  CacheInv'
  BY DEF CacheInv, CacheProvesItsHostname

LEMMA DiscoverKeeps ==
  ASSUME IInv, NEW h \in PeerHost, Discover(h)
  PROVE  IInv'
<1>1. RetryTypes /\ DialInv /\ CacheInv /\ TableInv
  BY IInvParts
<1>2. PICK origin \in Origin : Add(h, origin, knownPeers, reconnectTimers)
  BY DEF Discover, Origin
<1>3. RetryTypes' /\ DialInv' /\ CacheInv'
  BY <1>1, <1>2, AddKeeps DEF RetryTypes
<1>4. TableInv'
  BY <1>1, TableUntouched DEF Discover
<1>5. QED
  BY <1>3, <1>4, IInvParts

LEMMA ReconnectFiresKeeps ==
  ASSUME IInv, NEW h \in PeerHost, ReconnectFires(h)
  PROVE  IInv'
<1>1. RetryTypes /\ DialInv /\ CacheInv /\ TableInv
  BY IInvParts
<1>2. TableInv'
  <2>1. knownPeers' \subseteq knownPeers
    BY DEF ReconnectFires
  <2>2. QED
    BY <1>1, <2>1, TableUntouched DEF ReconnectFires
<1>3. CASE Satisfied(h, connectingPeers, authenticatedPeers)
  <2>1. RetryTypes'
    BY <1>1, <1>3, ConstantsAssumption DEF ReconnectFires, RetryTypes
  <2>2. DialInv' /\ CacheInv'
    BY <1>1, <1>3, DialUntouched, CacheUntouched DEF ReconnectFires
  <2>3. QED
    BY <1>2, <2>1, <2>2, IInvParts
<1>4. CASE ~Satisfied(h, connectingPeers, authenticatedPeers)
  <2>1. Add(h, "reconnect", knownPeers \ {h}, reconnectTimers \ {h})
    BY <1>4 DEF ReconnectFires
  <2>2. reconnectTimers \ {h} \in SUBSET PeerHost /\ "reconnect" \in Origin
    BY <1>1 DEF RetryTypes, Origin
  <2>3. RetryTypes' /\ DialInv' /\ CacheInv'
    BY <1>1, <2>1, <2>2, AddKeeps
  <2>4. QED
    BY <1>2, <2>3, IInvParts
<1>5. QED
  BY <1>3, <1>4

\* What TypeOK says of a dial that is in flight.
LEMMA DialInFlight ==
  ASSUME DialInv, NEW h \in DialableHost, dial[h] # None
  PROVE  /\ dial[h].origin \in Origin
         /\ dial[h].authenticating # None => dial[h].authenticating \in PeerHost
         /\ dial[h].identity # None => /\ dial[h].identity \in PeerIdentity
                                       /\ dial[h].identity.address # SelfAddress
  BY DEF DialInv, DialsAvoidSelf, Dial, PeerHost

LEMMA AuthenticationFailsKeeps ==
  ASSUME IInv, NEW h \in DialableHost, AuthenticationFails(h)
  PROVE  IInv'
<1>1. RetryTypes /\ DialInv /\ CacheInv /\ TableInv
  BY IInvParts
<1>2. RetryTypes' /\ DialInv'
  BY <1>1, DialFailsKeeps DEF AuthenticationFails, RetryTypes
<1>3. TableInv' /\ CacheInv'
  BY <1>1, TableUntouched, CacheUntouched DEF AuthenticationFails
<1>4. QED
  BY <1>2, <1>3, IInvParts

LEMMA AuthenticationAnswersKeeps ==
  ASSUME IInv, NEW h \in DialableHost, AuthenticationAnswers(h)
  PROVE  IInv'
<1> DEFINE at     == dial[h].authenticating
           origin == dial[h].origin
<1>1. RetryTypes /\ DialInv /\ CacheInv /\ TableInv
  BY IInvParts
<1>2. at \in PeerHost /\ origin \in Origin
  BY <1>1, DialInFlight DEF AuthenticationAnswers
<1>3. reconnectTimers \in SUBSET PeerHost
  BY <1>1 DEF RetryTypes
<1>4. TableInv'
  BY <1>1, TableUntouched DEF AuthenticationAnswers
<1>5. CASE AcceptsAnswer(at)
  <2>1. /\ authenticatedPeers' = [authenticatedPeers EXCEPT ![at] = ProvedIdentity(at)]
        /\ HaveIdentity(h, origin, ProvedIdentity(at), reconnectTimers, authenticatedPeers')
    BY <1>5 DEF AuthenticationAnswers
  <2>2. ProvedIdentity(at) \in PeerIdentity /\ ProvedIdentity(at).hostname = at
    BY <1>2, ProvedIdentityType
  <2>3. RetryTypes' /\ DialInv'
    BY <1>1, <1>2, <1>3, <2>1, <2>2, HaveIdentityKeeps
  <2>4. CacheInv'
    BY <1>1, <1>2, <2>1, <2>2 DEF CacheInv, CacheProvesItsHostname, PeerHost
  <2>5. QED
    BY <1>4, <2>3, <2>4, IInvParts
<1>6. CASE ~AcceptsAnswer(at)
  <2>1. Authenticate(h, origin, Advertised[at].hostname, reconnectTimers)
    BY <1>6 DEF AuthenticationAnswers
  <2>2. Advertised[at].hostname \in PeerHost
    BY <1>2, ProvedIdentityType
  <2>3. RetryTypes' /\ DialInv' /\ CacheInv'
    BY <1>1, <1>2, <1>3, <2>1, <2>2, AuthenticateKeeps
  <2>4. QED
    BY <1>4, <2>3, IInvParts
<1>7. QED
  BY <1>5, <1>6

LEMMA TransportFailsKeeps ==
  ASSUME IInv, NEW h \in DialableHost, TransportFails(h)
  PROVE  IInv'
<1>1. RetryTypes /\ DialInv /\ CacheInv /\ TableInv
  BY IInvParts
<1>2. RetryTypes' /\ DialInv'
  BY <1>1, DialFailsKeeps DEF TransportFails, RetryTypes
<1>3. TableInv' /\ CacheInv'
  BY <1>1, TableUntouched, CacheUntouched DEF TransportFails
<1>4. QED
  BY <1>2, <1>3, IInvParts

LEMMA TransportOpensKeeps ==
  ASSUME IInv, NEW h \in DialableHost, NEW s \in Socket, TransportOpens(h, s)
  PROVE  IInv'
<1> DEFINE id == dial[h].identity
<1>1. RetryTypes /\ DialInv /\ CacheInv /\ TableInv
  BY IInvParts
<1>2. id \in PeerIdentity
  BY <1>1, DialInFlight DEF TransportOpens
<1>3. CacheInv'
  BY <1>1, CacheUntouched DEF TransportOpens
<1>4. CASE Connected(id.address)
  <2>1. /\ DialFails(h, dial[h].origin, reconnectTimers, authenticatedPeers)
        /\ UNCHANGED <<socket, peers, knownPeers, recentPeerAddresses, wsServer>>
    BY <1>4 DEF TransportOpens
  <2>2. RetryTypes' /\ DialInv'
    BY <1>1, <2>1, DialFailsKeeps DEF RetryTypes
  <2>3. TableInv'
    BY <1>1, <2>1, TableUntouched
  <2>4. QED
    BY <1>3, <2>2, <2>3, IInvParts
<1>5. CASE ~Connected(id.address)
  <2>1. PICK hs : Register(s, id) /\ ClearAttempts(hs)
    BY <1>5 DEF TransportOpens
  <2>2. /\ connectingPeers' = connectingPeers \ {h}
        /\ dial' = [dial EXCEPT ![h] = None]
        /\ socket[s] = None
    BY <1>5 DEF TransportOpens
  <2>3. RetryTypes'
    BY <1>1, <2>1, RegisterTypes
  <2>4. DialInv'
    BY <1>1, <2>2 DEF DialInv, ConnectingPeersAreDials, DialsAvoidSelf
  <2>5. TableInv'
    BY <1>1, <1>2, <1>5, <2>1, <2>2, RegisterKeeps
  <2>6. QED
    BY <1>3, <2>3, <2>4, <2>5, IInvParts
<1>6. QED
  BY <1>4, <1>5

LEMMA VerifyInboundKeeps ==
  ASSUME IInv, NEW h \in PeerHost, VerifyInbound(h)
  PROVE  IInv'
<1>1. RetryTypes /\ DialInv /\ CacheInv /\ TableInv
  BY IInvParts
<1>2. CacheInv'
  BY <1>1, ProvedIdentityType DEF VerifyInbound, CacheInv, CacheProvesItsHostname, PeerHost
<1>3. DialInv' /\ TableInv'
  BY <1>1, DialUntouched, TableUntouched DEF VerifyInbound
<1>4. RetryTypes'
  BY <1>1 DEF VerifyInbound, RetryTypes, reconnectVars
<1>5. QED
  BY <1>2, <1>3, <1>4, IInvParts

LEMMA InboundOpensKeeps ==
  ASSUME IInv, NEW id \in InboundIdentity \cup {ApiIdentity}, NEW s \in Socket,
         InboundOpens(id, s)
  PROVE  IInv'
<1>1. RetryTypes /\ DialInv /\ CacheInv /\ TableInv
  BY IInvParts
<1>2. id \in PeerIdentity \cup {ApiIdentity}
  BY ConstantsAssumption
<1>3. PICK hs : Register(s, id) /\ ClearAttempts(hs)
  BY DEF InboundOpens
<1>4. RetryTypes'
  BY <1>1, <1>3, RegisterTypes
<1>5. TableInv'
  BY <1>1, <1>2, <1>3, RegisterKeeps DEF InboundOpens
<1>6. DialInv' /\ CacheInv'
  BY <1>1, DialUntouched, CacheUntouched DEF InboundOpens
<1>7. QED
  BY <1>4, <1>5, <1>6, IInvParts

\* A closed socket is either the one its peer is listed with, and only that peer goes,
\* or listed with nobody: socket[peers[a]].address = a tells the two apart.
LEMMA SocketClosesKeeps ==
  ASSUME IInv, NEW s \in Socket, SocketCloses(s)
  PROVE  IInv'
<1> DEFINE id == socket[s]
<1>1. RetryTypes /\ DialInv /\ CacheInv /\ TableInv
  BY IInvParts
<1>2. id \in PeerIdentity \cup {ApiIdentity} /\ socket' = [socket EXCEPT ![s] = None]
  BY <1>1 DEF SocketCloses, TableInv
<1>3. id.address \in Address /\ id.hostname \in Host
  BY <1>2, IdentityFields
<1>4. Normalize(id.hostname, authenticatedPeers) = id.hostname
  BY <1>1, <1>3, NormalizeIsIdentity DEF CacheInv, CacheProvesItsHostname, PeerHost
<1>5. DialInv' /\ CacheInv'
  BY <1>1, DialUntouched, CacheUntouched DEF SocketCloses
<1>6. \A a \in Address : Connected(a) => peers[a] \in Socket /\ (peers[a] = s => a = id.address)
  BY <1>1 DEF TableInv, TableMatchesConnections, Connected
<1>7. UNCHANGED <<recentPeerAddresses, recentConnectionFailures, wsServer>>
  BY DEF SocketCloses
<1>8. CASE peers[id.address] # s
  <2>1. UNCHANGED <<peers, knownPeers, reconnectVars>>
    BY <1>8 DEF SocketCloses
  <2>2. RetryTypes'
    BY <1>1, <1>7, <2>1 DEF RetryTypes, reconnectVars
  <2>3. \A a \in Address : Connected(a) => socket'[peers[a]] = socket[peers[a]]
    BY <1>1, <1>2, <1>6, <1>8 DEF TableInv
  <2>4. TableInv'
    BY <1>1, <1>2, <1>7, <2>1, <2>3
    DEF TableInv, TableMatchesConnections, KnownPeersAreConnected,
        Connected
  <2>5. QED
    BY <1>5, <2>2, <2>4, IInvParts
<1>9. CASE peers[id.address] = s
  <2>1. /\ peers' = [peers EXCEPT ![id.address] = None]
        /\ knownPeers' = knownPeers \ {id.hostname}
    BY <1>4, <1>9 DEF SocketCloses
  <2>2. RetryTypes'
    <3>1. CASE id.hostname = ApiHost
      BY <1>1, <1>4, <1>7, <1>9, <3>1 DEF SocketCloses, RetryTypes, reconnectVars
    <3>2. CASE id.hostname # ApiHost
      <4>1. ScheduleReconnect(id.hostname, reconnectTimers)
        BY <1>4, <1>9, <3>2 DEF SocketCloses
      <4>2. id.hostname \in PeerHost /\ reconnectTimers \in SUBSET PeerHost
        BY <1>1, <1>3, <3>2 DEF PeerHost, RetryTypes
      <4>3. QED
        BY <1>1, <1>7, <4>1, <4>2, ScheduleReconnectTypes DEF RetryTypes
    <3>3. QED
      BY <3>1, <3>2
  <2>3. \A a \in Address : Connected(a)' <=> Connected(a) /\ a # id.address
    BY <1>1, <1>3, <2>1 DEF TableInv, Connected
  <2>4. \A a \in Address : Connected(a)' => /\ peers'[a] = peers[a]
                                            /\ socket'[peers'[a]] = socket[peers[a]]
    BY <1>1, <1>2, <1>6, <2>1, <2>3 DEF TableInv
  <2>5. /\ socket' \in [Socket -> PeerIdentity \cup {ApiIdentity, None}]
        /\ peers' \in [Address -> Socket \cup {None}]
        /\ knownPeers' \subseteq Host
        /\ recentPeerAddresses' \in [Host -> Address \cup {None}]
        /\ wsServer' \subseteq Host
    BY <1>1, <1>2, <1>7, <2>1 DEF TableInv
  <2>6. TableMatchesConnections'
    <3>1. \A a \in Address : Connected(a)' => /\ socket'[peers'[a]] # None
                                              /\ socket'[peers'[a]].address = a
      BY <1>1, <2>3, <2>4 DEF TableInv, TableMatchesConnections
    <3>2. ASSUME NEW t \in Socket, socket'[t] # None, socket'[t].address # ApiAddress
          PROVE  peers'[socket'[t].address] = t
      <4>1. t # s /\ socket'[t] = socket[t]
        BY <1>1, <1>2, <3>2 DEF TableInv
      <4>2. peers[socket[t].address] = t /\ socket[t].address \in Address
        BY <1>1, <3>2, <4>1, IdentityFields DEF TableInv, TableMatchesConnections
      <4>3. socket[t].address # id.address
        BY <1>9, <4>1, <4>2
      <4>4. QED
        BY <1>1, <2>1, <4>1, <4>2, <4>3 DEF TableInv
    <3>3. QED
      BY <3>1, <3>2 DEF TableMatchesConnections, Connected
  <2>7. KnownPeersAreConnected'
    <3>1. ASSUME NEW h \in knownPeers'
          PROVE  \E a \in Address : Connected(a)' /\ socket'[peers'[a]].hostname = h
      <4>1. PICK a \in Address : Connected(a) /\ socket[peers[a]].hostname = h
        BY <1>1, <2>1, <3>1 DEF TableInv, KnownPeersAreConnected
      <4>2. a # id.address
        BY <1>9, <2>1, <3>1, <4>1
      <4>3. QED
        BY <2>3, <2>4, <4>1, <4>2
    <3>2. QED
      BY <3>1 DEF KnownPeersAreConnected, Connected
  <2>8. QED
    BY <1>5, <2>2, <2>5, <2>6, <2>7, IInvParts DEF TableInv
<1>10. QED
  BY <1>8, <1>9

LEMMA PurgePeerCacheKeeps ==
  ASSUME IInv, PurgePeerCache
  PROVE  IInv'
<1>1. RetryTypes /\ DialInv /\ CacheInv /\ TableInv
  BY IInvParts
<1>2. DialInv'
  BY <1>1, DialUntouched DEF PurgePeerCache
<1>3. CacheInv' /\ RetryTypes'
  BY ConstantsAssumption DEF PurgePeerCache, CacheInv, CacheProvesItsHostname, RetryTypes, PeerHost
<1>4. TableInv'
  BY <1>1 DEF PurgePeerCache, TableInv, TableMatchesConnections,
              KnownPeersAreConnected, Connected
<1>5. QED
  BY <1>2, <1>3, <1>4, IInvParts

LEMMA SweepFailuresKeeps ==
  ASSUME IInv, SweepFailures
  PROVE  IInv'
<1>1. RetryTypes /\ DialInv /\ CacheInv /\ TableInv
  BY IInvParts
<1>2. DialInv' /\ CacheInv' /\ TableInv'
  BY <1>1, DialUntouched, CacheUntouched, TableUntouched DEF SweepFailures
<1>3. RetryTypes'
  BY <1>1 DEF SweepFailures, RetryTypes, reconnectVars
<1>4. QED
  BY <1>2, <1>3, IInvParts

-----------------------------------------------------------------------------
(* The theorems. *)

\* The invariant holds when the node starts.
LEMMA InitIInv == Init => IInv
  BY ConstantsAssumption
  DEF Init, IInv, TypeOK, CacheProvesItsHostname, ConnectingPeersAreDials, DialsAvoidSelf,
      TableMatchesConnections, KnownPeersAreConnected, Connected

\* Every step keeps it.
LEMMA NextIInv == IInv /\ [Next]_vars => IInv'
<1> SUFFICES ASSUME IInv, [Next]_vars PROVE IInv'
  OBVIOUS
<1>1. ASSUME NEW h \in PeerHost, Discover(h) \/ ReconnectFires(h) \/ VerifyInbound(h)
      PROVE  IInv'
  BY <1>1, DiscoverKeeps, ReconnectFiresKeeps, VerifyInboundKeeps
<1>2. ASSUME NEW h \in DialableHost, DialStep(h)
      PROVE  IInv'
  BY <1>2, AuthenticationFailsKeeps, AuthenticationAnswersKeeps, TransportFailsKeeps,
     TransportOpensKeeps DEF DialStep
<1>3. ASSUME NEW s \in Socket, SocketCloses(s)
      PROVE  IInv'
  BY <1>3, SocketClosesKeeps
<1>4. ASSUME NEW s \in Socket, NEW id \in InboundIdentity \cup {ApiIdentity}, InboundOpens(id, s)
      PROVE  IInv'
  BY <1>4, InboundOpensKeeps
<1>5. CASE PurgePeerCache
  BY <1>5, PurgePeerCacheKeeps
<1>6. CASE SweepFailures
  BY <1>6, SweepFailuresKeeps
<1>7. CASE UNCHANGED vars
  <2>1. RetryTypes' /\ DialInv' /\ CacheInv' /\ TableInv'
    BY <1>7, IInvParts, DialUntouched, CacheUntouched, TableUntouched
    DEF vars, reconnectVars, RetryTypes
  <2>2. QED
    BY <2>1, IInvParts
<1>8. QED
  BY <1>1, <1>2, <1>3, <1>4, <1>5, <1>6, <1>7 DEF Next, PeerHost

\* The inductive invariant is an invariant.
THEOREM ConnectionInvariant == Spec => []IInv
  BY InitIInv, NextIInv, PTL DEF Spec

\* Type correctness: in particular a reconnect chain never counts past
\* RECONNECT_MAX_ATTEMPTS (scheduleReconnect()).
THEOREM TypesAreCorrect == Spec => []TypeOK
<1>1. IInv => TypeOK
  BY DEF IInv
<1>2. QED
  BY <1>1, ConnectionInvariant, PTL

\* However dials, inbound connections and close events interleave, the peers table and
\* the live connections agree (add(), PeerManager.ts).
THEOREM TableAgrees == Spec => []TableMatchesConnections
<1>1. IInv => TableMatchesConnections
  BY DEF IInv
<1>2. QED
  BY <1>1, ConnectionInvariant, PTL

\* knownPeers holds no hostname without a connected peer, so shouldAuthenticate() never
\* refuses a host that is not connected on account of it.
THEOREM KnownPeersDoNotLeak == Spec => []KnownPeersAreConnected
<1>1. IInv => KnownPeersAreConnected
  BY DEF IInv
<1>2. QED
  BY <1>1, ConnectionInvariant, PTL

\* No alias, upgrade or race makes a dial of the node end at the node (shouldConnect()):
\* only TransportOpens and InboundOpens list anybody, and a dial that has got as far as a
\* transport leads elsewhere (DialsAvoidSelf).
THEOREM NoSelfDial == Spec => NoDialLeadsToItself
<1>1. IInv /\ [Next]_vars =>
        [Connected(SelfAddress)' /\ ~Connected(SelfAddress) => UNCHANGED dial]_vars
  <2> SUFFICES ASSUME IInv, [Next]_vars, Connected(SelfAddress)', ~Connected(SelfAddress)
               PROVE  UNCHANGED dial
    OBVIOUS
  <2>1. SelfAddress \in Address /\ peers' # peers
    BY ConstantsAssumption DEF Connected
  <2>2. ASSUME NEW h \in DialableHost, NEW s \in Socket, TransportOpens(h, s) PROVE FALSE
    <3>1. dial[h].identity.address # SelfAddress
      BY <2>2, DialInFlight DEF TransportOpens, IInv, DialsAvoidSelf
    <3>2. peers' = [peers EXCEPT ![dial[h].identity.address] = s]
      BY <2>1, <2>2 DEF TransportOpens, Register
    <3> QED BY <2>1, <3>1, <3>2 DEF Connected, IInv, TypeOK
  <2>3. ASSUME NEW h \in DialableHost, DialStep(h) PROVE FALSE
    BY <2>1, <2>2, <2>3 DEF DialStep, AuthenticationFails, AuthenticationAnswers, TransportFails
  <2>4. ASSUME NEW h \in PeerHost, Discover(h) \/ ReconnectFires(h) \/ VerifyInbound(h)
        PROVE  FALSE
    BY <2>1, <2>4 DEF Discover, ReconnectFires, VerifyInbound
  <2>5. ASSUME NEW s \in Socket, SocketCloses(s) PROVE UNCHANGED dial
    BY <2>5 DEF SocketCloses, dialVars
  <2>6. ASSUME NEW s \in Socket, NEW id \in InboundIdentity \cup {ApiIdentity}, InboundOpens(id, s)
        PROVE  UNCHANGED dial
    BY <2>6 DEF InboundOpens, dialVars
  <2>7. CASE PurgePeerCache \/ SweepFailures \/ UNCHANGED vars
    BY <2>1, <2>7 DEF PurgePeerCache, SweepFailures, vars
  <2> QED BY <2>3, <2>4, <2>5, <2>6, <2>7 DEF Next, PeerHost
<1>2. QED
  BY <1>1, ConnectionInvariant, PTL DEF Spec, NoDialLeadsToItself

\* connectingPeers is exactly the set of dials in flight (the finally block of add()).
THEOREM DialsAreReleased == Spec => []ConnectingPeersAreDials
<1>1. IInv => ConnectingPeersAreDials
  BY DEF IInv
<1>2. QED
  BY <1>1, ConnectionInvariant, PTL

\* Every cached identity is filed under the hostname it proves (authenticateServerHTTP()).
THEOREM CacheIsSound == Spec => []CacheProvesItsHostname
<1>1. IInv => CacheProvesItsHostname
  BY DEF IInv
<1>2. QED
  BY <1>1, ConnectionInvariant, PTL

-----------------------------------------------------------------------------
(* Pending failure reports. *)

\* A cache whose entries prove their hostnames.
Proves(cache) == \A k \in PeerHost : cache[k] # None => cache[k].hostname = k

\* recordConnectionFailure() keeps no failure of a connected peer: resolveKnownPeerAddress()
\* looks for the peer under the very hostname it is connected with.
LEMMA RecordFailureReports ==
  ASSUME TableInv, NoFailureKeptFromConnectedPeer, NEW cache, Proves(cache),
         NEW h \in PeerHost, RecordFailure(h, cache), UNCHANGED <<socket, peers>>
  PROVE  NoFailureKeptFromConnectedPeer'
<1>1. \A a \in Address : Connected(a) =>
        Normalize(socket[peers[a]].hostname, cache) = socket[peers[a]].hostname
  <2>1. \A a \in Address : Connected(a) => socket[peers[a]] \in PeerIdentity \cup {ApiIdentity}
    BY DEF TableInv, TableMatchesConnections, Connected
  <2>2. QED
    BY <2>1, IdentityFields, NormalizeIsIdentity DEF Proves
<1>2. \A k \in recentConnectionFailures' : k \in recentConnectionFailures
                                            \/ (k = h /\ ~AddressResolves(h, cache))
  BY DEF RecordFailure
<1>3. QED
  BY <1>1, <1>2 DEF NoFailureKeptFromConnectedPeer, AddressResolves, ConnectedUnder, Connected

\* So do the callers of a failed add(), and with them every part of a dial.
LEMMA AddReturnsFalseReports ==
  ASSUME TableInv, NoFailureKeptFromConnectedPeer, NEW cache, Proves(cache),
         NEW h \in PeerHost, NEW origin, NEW connecting, NEW timers,
         AddReturnsFalse(h, origin, connecting, timers, cache), UNCHANGED <<socket, peers>>
  PROVE  NoFailureKeptFromConnectedPeer'
<1>1. CASE RecordFailure(h, cache)
  BY <1>1, RecordFailureReports
<1>2. CASE UNCHANGED recentConnectionFailures
  BY <1>2 DEF NoFailureKeptFromConnectedPeer, Connected
<1>3. QED
  BY <1>1, <1>2 DEF AddReturnsFalse

LEMMA HaveIdentityReports ==
  ASSUME TableInv, NoFailureKeptFromConnectedPeer, NEW cache, Proves(cache),
         NEW h \in DialableHost, NEW origin, NEW id, NEW timers,
         HaveIdentity(h, origin, id, timers, cache), UNCHANGED <<socket, peers>>
  PROVE  NoFailureKeptFromConnectedPeer'
<1>1. h \in PeerHost
  BY ConstantsAssumption DEF PeerHost
<1>2. CASE DialFails(h, origin, timers, cache)
  BY <1>1, <1>2, AddReturnsFalseReports DEF DialFails
<1>3. CASE UNCHANGED recentConnectionFailures
  BY <1>3 DEF NoFailureKeptFromConnectedPeer, Connected
<1>4. QED
  BY <1>2, <1>3 DEF HaveIdentity

LEMMA AuthenticateReports ==
  ASSUME TableInv, NoFailureKeptFromConnectedPeer, Proves(authenticatedPeers),
         NEW h \in DialableHost, NEW origin, NEW at, NEW timers,
         Authenticate(h, origin, at, timers), UNCHANGED <<socket, peers>>
  PROVE  NoFailureKeptFromConnectedPeer'
<1>1. CASE HaveIdentity(h, origin, authenticatedPeers[at], timers, authenticatedPeers)
  BY <1>1, HaveIdentityReports
<1>2. CASE UNCHANGED recentConnectionFailures
  BY <1>2 DEF NoFailureKeptFromConnectedPeer, Connected
<1>3. QED
  BY <1>1, <1>2 DEF Authenticate

LEMMA AddReports ==
  ASSUME TableInv, NoFailureKeptFromConnectedPeer, Proves(authenticatedPeers),
         NEW h \in PeerHost, NEW origin, NEW known, NEW timers,
         Add(h, origin, known, timers), UNCHANGED <<socket, peers>>
  PROVE  NoFailureKeptFromConnectedPeer'
<1>1. Normalize(h, authenticatedPeers) = h
  BY NormalizeIsIdentity DEF Proves, PeerHost
<1>2. CASE AddReturnsFalse(h, origin, connectingPeers, timers, authenticatedPeers)
  BY <1>2, AddReturnsFalseReports
<1>3. CASE h \in DialableHost /\ Authenticate(h, origin, h, timers)
  BY <1>3, AuthenticateReports
<1>4. QED
  BY <1>1, <1>2, <1>3 DEF Add

\* Registering a peer takes the report that waited for its hostname.
LEMMA RegisterReports ==
  ASSUME TableInv, CacheInv, NoFailureKeptFromConnectedPeer, NEW s \in Socket, socket[s] = None,
         NEW id \in PeerIdentity \cup {ApiIdentity}, Register(s, id)
  PROVE  NoFailureKeptFromConnectedPeer'
<1>1. id.address \in Address /\ id.hostname \in Host
  BY IdentityFields
<1>2. Normalize(id.hostname, authenticatedPeers) = id.hostname
  BY <1>1, NormalizeIsIdentity DEF CacheInv, CacheProvesItsHostname, PeerHost
<1>3. /\ socket' = [socket EXCEPT ![s] = id]
      /\ peers' = [peers EXCEPT ![id.address] = s]
      /\ recentConnectionFailures' = recentConnectionFailures \ {id.hostname}
  BY <1>2 DEF Register
<1>4. ASSUME NEW h \in recentConnectionFailures', NEW a \in Address \ {ApiAddress}, Connected(a)'
      PROVE  socket'[peers'[a]].hostname # h
  <2>1. CASE a = id.address
    BY <1>1, <1>3, <1>4, <2>1 DEF TableInv
  <2>2. CASE a # id.address
    <3>1. peers'[a] = peers[a] /\ Connected(a)
      BY <1>1, <1>3, <1>4, <2>2 DEF TableInv, Connected
    <3>2. socket'[peers[a]] = socket[peers[a]]
      BY <1>3, <3>1 DEF TableInv, TableMatchesConnections, Connected
    <3>3. QED
      BY <1>3, <1>4, <3>1, <3>2 DEF NoFailureKeptFromConnectedPeer
  <2>3. QED
    BY <2>1, <2>2
<1>5. QED
  BY <1>4 DEF NoFailureKeptFromConnectedPeer, Connected

LEMMA NextReports ==
  ASSUME IInv, NoFailureKeptFromConnectedPeer, [Next]_vars
  PROVE  NoFailureKeptFromConnectedPeer'
<1>1. RetryTypes /\ DialInv /\ CacheInv /\ TableInv
  BY IInvParts
<1>2. Proves(authenticatedPeers)
  BY <1>1 DEF CacheInv, CacheProvesItsHostname, Proves, PeerHost
<1>3. CacheInv' /\ Proves(authenticatedPeers')
  BY NextIInv, IInvParts DEF CacheInv, CacheProvesItsHostname, Proves, PeerHost
<1>4. ASSUME NEW h \in PeerHost, Discover(h) \/ ReconnectFires(h)
      PROVE  NoFailureKeptFromConnectedPeer'
  <2>1. UNCHANGED <<socket, peers>>
    BY <1>4 DEF Discover, ReconnectFires
  <2>2. CASE UNCHANGED recentConnectionFailures
    BY <2>1, <2>2 DEF NoFailureKeptFromConnectedPeer, Connected
  <2>3. CASE \E origin, known, timers : Add(h, origin, known, timers)
    BY <1>1, <1>2, <2>1, <2>3, AddReports
  <2>4. QED
    BY <1>4, <2>2, <2>3 DEF Discover, ReconnectFires
<1>5. ASSUME NEW h \in DialableHost, DialStep(h)
      PROVE  NoFailureKeptFromConnectedPeer'
  <2>1. h \in PeerHost
    BY ConstantsAssumption DEF PeerHost
  <2>2. CASE AuthenticationFails(h) \/ TransportFails(h)
    BY <1>1, <1>2, <2>1, <2>2, AddReturnsFalseReports DEF AuthenticationFails, TransportFails, DialFails
  <2>3. CASE AuthenticationAnswers(h)
    BY <1>1, <1>2, <1>3, <2>3, HaveIdentityReports, AuthenticateReports DEF AuthenticationAnswers
  <2>4. CASE \E s \in Socket : TransportOpens(h, s)
    <3>1. PICK s \in Socket : TransportOpens(h, s)
      BY <2>4
    <3>2. dial[h].identity \in PeerIdentity
      BY <1>1, <3>1, DialInFlight DEF TransportOpens
    <3>3. CASE Register(s, dial[h].identity)
      BY <1>1, <3>1, <3>2, <3>3, RegisterReports DEF TransportOpens
    <3>4. CASE DialFails(h, dial[h].origin, reconnectTimers, authenticatedPeers) /\ UNCHANGED <<socket, peers>>
      BY <1>1, <1>2, <2>1, <3>4, AddReturnsFalseReports DEF DialFails
    <3>5. QED
      BY <3>1, <3>3, <3>4 DEF TransportOpens
  <2>5. QED
    BY <1>5, <2>2, <2>3, <2>4 DEF DialStep
<1>6. ASSUME NEW s \in Socket, NEW id \in InboundIdentity \cup {ApiIdentity}, InboundOpens(id, s)
      PROVE  NoFailureKeptFromConnectedPeer'
  <2>1. id \in PeerIdentity \cup {ApiIdentity}
    BY ConstantsAssumption
  <2>2. QED
    BY <1>1, <1>6, <2>1, RegisterReports DEF InboundOpens
<1>7. ASSUME NEW s \in Socket, SocketCloses(s)
      PROVE  NoFailureKeptFromConnectedPeer'
  <2>1. socket[s] \in PeerIdentity \cup {ApiIdentity}
    BY <1>1, <1>7 DEF SocketCloses, TableInv
  <2>2. \A a \in Address : Connected(a)' =>
          /\ Connected(a) /\ peers'[a] = peers[a] /\ peers[a] \in Socket \ {s}
    BY <1>1, <1>7, <2>1, IdentityFields DEF SocketCloses, TableInv, TableMatchesConnections, Connected
  <2>3. \A a \in Address : Connected(a)' => socket'[peers'[a]] = socket[peers[a]]
    BY <1>1, <1>7, <2>2 DEF SocketCloses, TableInv
  <2>4. QED
    BY <1>7, <2>2, <2>3 DEF SocketCloses, NoFailureKeptFromConnectedPeer, Connected
<1>8. ASSUME \/ \E h \in PeerHost : VerifyInbound(h)
             \/ PurgePeerCache \/ SweepFailures \/ UNCHANGED vars
      PROVE  NoFailureKeptFromConnectedPeer'
  BY <1>8 DEF VerifyInbound, PurgePeerCache, SweepFailures, vars, NoFailureKeptFromConnectedPeer, Connected
<1>9. QED
  BY <1>4, <1>5, <1>6, <1>7, <1>8 DEF Next, PeerHost

\* A failure waits for its peer only while no peer is connected under that hostname
\* (recordConnectionFailure(), notifyPeerOfRecentConnectionFailure()).
THEOREM FailuresReachConnectedPeers == Spec => []NoFailureKeptFromConnectedPeer
<1>1. Init => NoFailureKeptFromConnectedPeer
  BY DEF Init, NoFailureKeptFromConnectedPeer
<1>2. IInv /\ NoFailureKeptFromConnectedPeer /\ [Next]_vars => NoFailureKeptFromConnectedPeer'
  BY NextReports
<1>3. QED
  BY <1>1, <1>2, ConnectionInvariant, PTL DEF Spec

-----------------------------------------------------------------------------
(* Leaving the table. *)

\* A peer leaves the peers table only in the step that closes its own socket; the late
\* close event of another one is stale (the onClose handler of add()).
THEOREM OnlyOwnClose == Spec => OnlyItsOwnCloseUnlistsAPeer
<1>1. ASSUME IInv, [Next]_vars, NEW a \in Address, Connected(a), ~Connected(a)'
      PROVE  socket'[peers[a]] = None
  <2>1. RetryTypes /\ DialInv /\ CacheInv /\ TableInv
    BY <1>1, IInvParts
  <2>2. CASE UNCHANGED peers
    BY <1>1, <2>2 DEF Connected
  <2>3. ASSUME NEW s \in Socket, NEW id \in PeerIdentity \cup {ApiIdentity}, Register(s, id)
        PROVE  FALSE
    BY <1>1, <2>1, <2>3, IdentityFields, NoneIsNothing DEF Register, Connected, TableInv
  <2>4. CASE \E s \in Socket : SocketCloses(s)
    BY <1>1, <2>1, <2>4 DEF SocketCloses, Connected, TableInv
  <2>5. CASE \E h \in DialableHost, s \in Socket : TransportOpens(h, s)
    <3>1. PICK h \in DialableHost, s \in Socket : TransportOpens(h, s)
      BY <2>5
    <3>2. dial[h].identity \in PeerIdentity
      BY <2>1, <3>1, DialInFlight DEF TransportOpens
    <3>3. QED
      BY <2>2, <2>3, <3>1, <3>2 DEF TransportOpens
  <2>6. CASE \E s \in Socket, id \in InboundIdentity \cup {ApiIdentity} : InboundOpens(id, s)
    BY <2>3, <2>6, ConstantsAssumption DEF InboundOpens
  <2>7. QED
    BY <1>1, <2>2, <2>4, <2>5, <2>6
    DEF Next, DialStep, Discover, ReconnectFires, VerifyInbound, AuthenticationFails,
        AuthenticationAnswers, TransportFails, PurgePeerCache, SweepFailures, vars
<1>2. IInv /\ [Next]_vars =>
        [\A a \in Address : Connected(a) /\ ~Connected(a)' => socket'[peers[a]] = None]_vars
  BY <1>1
<1>3. QED
  BY <1>2, ConnectionInvariant, PTL DEF Spec, OnlyItsOwnCloseUnlistsAPeer

-----------------------------------------------------------------------------
(* Chains of reconnect attempts. *)

\* The caller of a failed add() touches the chain of that hostname alone; the timer
\* callback arms the next attempt or ends the chain.
LEMMA AddReturnsFalseChain ==
  ASSUME RetryTypes, NEW h \in PeerHost, NEW origin \in Origin, NEW connecting, NEW timers,
         NEW cache, AddReturnsFalse(h, origin, connecting, timers, cache)
  PROVE  /\ \A k \in PeerHost \ {h} : /\ reconnectAttempts'[k] = reconnectAttempts[k]
                                      /\ k \in timers => k \in reconnectTimers'
         /\ origin = "reconnect" => reconnectAttempts'[h] = 0 \/ h \in reconnectTimers'
         /\ origin # "reconnect" => /\ reconnectAttempts'[h] = reconnectAttempts[h]
                                    /\ reconnectTimers' = timers
<1>1. CASE origin # "reconnect"
  BY <1>1 DEF AddReturnsFalse
<1>2. CASE origin = "reconnect" /\ Satisfied(h, connecting, cache)
  BY <1>2 DEF AddReturnsFalse, RetryTypes
<1>3. CASE origin = "reconnect" /\ ~Satisfied(h, connecting, cache)
  <2>1. ScheduleReconnect(h, timers)
    BY <1>3 DEF AddReturnsFalse
  <2>2. QED
    BY <1>3, <2>1 DEF ScheduleReconnect, RetryTypes
<1>4. QED
  BY <1>1, <1>2, <1>3

\* A dial that ends takes its chain on or ends it; h's timer may have just fired.
LEMMA DialFailsChains ==
  ASSUME RetryTypes, DialInv, ReconnectChainsAreAlive, NEW h \in DialableHost,
         NEW origin \in Origin, NEW timers, NEW cache,
         reconnectTimers \ {h} \subseteq timers,
         origin # "reconnect" => timers = reconnectTimers,
         h \in connectingPeers => dial[h].origin = origin,
         DialFails(h, origin, timers, cache)
  PROVE  ReconnectChainsAreAlive'
<1>1. h \in PeerHost
  BY ConstantsAssumption DEF PeerHost
<1>2. AddReturnsFalse(h, origin, connectingPeers \ {h}, timers, cache)
  BY DEF DialFails
<1>3. ASSUME NEW k \in PeerHost, reconnectAttempts'[k] > 0
      PROVE  k \in reconnectTimers' \/ (k \in connectingPeers' /\ dial'[k].origin = "reconnect")
  <2>1. CASE k # h
    BY <1>1, <1>2, <1>3, <2>1, AddReturnsFalseChain
    DEF ReconnectChainsAreAlive, DialFails, DialInv, PeerHost
  <2>2. CASE k = h /\ origin = "reconnect"
    BY <1>1, <1>2, <1>3, <2>2, AddReturnsFalseChain
  <2>3. CASE k = h /\ origin # "reconnect"
    BY <1>1, <1>2, <1>3, <2>3, AddReturnsFalseChain DEF ReconnectChainsAreAlive, PeerHost
  <2>4. QED
    BY <2>1, <2>2, <2>3
<1>4. QED
  BY <1>3 DEF ReconnectChainsAreAlive, PeerHost

\* A dial that begins or goes on for origin carries the chain of its hostname.
LEMMA DialGoesOn ==
  ASSUME RetryTypes, DialInv, ReconnectChainsAreAlive, NEW h \in DialableHost,
         NEW origin, NEW timers, NEW d,
         reconnectTimers \ {h} \subseteq timers,
         origin # "reconnect" => timers = reconnectTimers,
         h \in connectingPeers => dial[h].origin = origin,
         connectingPeers' = connectingPeers \cup {h},
         dial' = [dial EXCEPT ![h] = d], d.origin = origin,
         reconnectTimers' = timers, UNCHANGED reconnectAttempts
  PROVE  ReconnectChainsAreAlive'
<1>1. ASSUME NEW k \in PeerHost, reconnectAttempts[k] > 0
      PROVE  k \in timers \/ (k \in connectingPeers' /\ dial'[k].origin = "reconnect")
  BY <1>1 DEF ReconnectChainsAreAlive, DialInv, PeerHost
<1>2. QED
  BY <1>1 DEF ReconnectChainsAreAlive, PeerHost

LEMMA HaveIdentityChains ==
  ASSUME RetryTypes, DialInv, ReconnectChainsAreAlive, NEW h \in DialableHost,
         NEW origin \in Origin, NEW id, NEW timers, NEW cache,
         reconnectTimers \ {h} \subseteq timers,
         origin # "reconnect" => timers = reconnectTimers,
         h \in connectingPeers => dial[h].origin = origin,
         HaveIdentity(h, origin, id, timers, cache)
  PROVE  ReconnectChainsAreAlive'
<1> DEFINE d == [origin |-> origin, authenticating |-> None, identity |-> id]
<1>1. CASE ~ShouldConnect(h, id)
  BY <1>1, DialFailsChains DEF HaveIdentity
<1>2. CASE ShouldConnect(h, id)
  <2>1. /\ connectingPeers' = connectingPeers \cup {h}
        /\ dial' = [dial EXCEPT ![h] = d]
        /\ reconnectTimers' = timers
        /\ UNCHANGED reconnectAttempts
    BY <1>2 DEF HaveIdentity
  <2>2. d.origin = origin
    OBVIOUS
  <2> HIDE DEF d
  <2>3. QED
    BY <2>1, <2>2, DialGoesOn
<1>3. QED
  BY <1>1, <1>2

LEMMA AuthenticateChains ==
  ASSUME RetryTypes, DialInv, ReconnectChainsAreAlive, NEW h \in DialableHost,
         NEW origin \in Origin, NEW at, NEW timers,
         reconnectTimers \ {h} \subseteq timers,
         origin # "reconnect" => timers = reconnectTimers,
         h \in connectingPeers => dial[h].origin = origin,
         Authenticate(h, origin, at, timers)
  PROVE  ReconnectChainsAreAlive'
<1> DEFINE d == [origin |-> origin, authenticating |-> at, identity |-> None]
<1>1. CASE HaveIdentity(h, origin, authenticatedPeers[at], timers, authenticatedPeers)
  BY <1>1, HaveIdentityChains
<1>2. CASE /\ connectingPeers' = connectingPeers \cup {h}
           /\ dial' = [dial EXCEPT ![h] = d]
           /\ reconnectTimers' = timers
           /\ UNCHANGED reconnectAttempts
  <2>1. d.origin = origin
    OBVIOUS
  <2> HIDE DEF d
  <2>2. QED
    BY <1>2, <2>1, DialGoesOn
<1>3. QED
  BY <1>1, <1>2 DEF Authenticate

LEMMA AddChains ==
  ASSUME RetryTypes, DialInv, CacheInv, ReconnectChainsAreAlive, NEW h \in PeerHost,
         NEW origin \in Origin, NEW known, NEW timers,
         reconnectTimers \ {h} \subseteq timers,
         origin # "reconnect" => timers = reconnectTimers,
         Add(h, origin, known, timers)
  PROVE  ReconnectChainsAreAlive'
<1>1. Normalize(h, authenticatedPeers) = h
  BY NormalizeIsIdentity DEF CacheInv, CacheProvesItsHostname, PeerHost
<1>2. CASE AddReturnsFalse(h, origin, connectingPeers, timers, authenticatedPeers) /\ UNCHANGED dialVars
  <2>1. ASSUME NEW k \in PeerHost, reconnectAttempts'[k] > 0
        PROVE  k \in reconnectTimers' \/ (k \in connectingPeers /\ dial[k].origin = "reconnect")
    BY <1>2, <2>1, AddReturnsFalseChain DEF ReconnectChainsAreAlive, PeerHost
  <2>2. QED
    BY <1>2, <2>1 DEF ReconnectChainsAreAlive, dialVars, PeerHost
<1>3. CASE h \in DialableHost /\ h \notin connectingPeers /\ Authenticate(h, origin, h, timers)
  BY <1>3, AuthenticateChains
<1>4. QED
  BY <1>1, <1>2, <1>3 DEF Add

\* Registering a peer ends the chains that its connection answers.
LEMMA RegisterChains ==
  ASSUME RetryTypes, CacheInv, ReconnectChainsAreAlive, NEW s, NEW id \in PeerIdentity \cup {ApiIdentity},
         NEW hs, Register(s, id), ClearAttempts(hs), id.hostname \in hs,
         \A k \in PeerHost : k \in connectingPeers /\ dial[k].origin = "reconnect" =>
           k \in hs \/ (k \in connectingPeers' /\ dial'[k] = dial[k])
  PROVE  ReconnectChainsAreAlive'
<1>1. Normalize(id.hostname, authenticatedPeers) = id.hostname
  BY IdentityFields, NormalizeIsIdentity DEF CacheInv, CacheProvesItsHostname, PeerHost
<1>2. reconnectTimers' = reconnectTimers \ {id.hostname}
  BY <1>1 DEF Register
<1>3. \A k \in PeerHost : reconnectAttempts'[k] > 0 => k \notin hs /\ reconnectAttempts[k] > 0
  BY DEF ClearAttempts, PeerHost
<1>4. QED
  BY <1>2, <1>3 DEF ReconnectChainsAreAlive, PeerHost

LEMMA NextChains ==
  ASSUME IInv, ReconnectChainsAreAlive, [Next]_vars
  PROVE  ReconnectChainsAreAlive'
<1>1. RetryTypes /\ DialInv /\ CacheInv /\ TableInv
  BY IInvParts
<1>2. ASSUME NEW h \in PeerHost, Discover(h)
      PROVE  ReconnectChainsAreAlive'
  <2>1. PICK origin \in Origin \ {"reconnect"} : Add(h, origin, knownPeers, reconnectTimers)
    BY <1>2 DEF Discover, Origin
  <2>2. QED
    BY <1>1, <2>1, AddChains
<1>3. ASSUME NEW h \in PeerHost, ReconnectFires(h)
      PROVE  ReconnectChainsAreAlive'
  <2>1. CASE Add(h, "reconnect", knownPeers \ {h}, reconnectTimers \ {h})
    BY <1>1, <2>1, AddChains DEF Origin
  <2>2. CASE /\ reconnectTimers' = reconnectTimers \ {h}
             /\ reconnectAttempts' = [reconnectAttempts EXCEPT ![h] = 0]
             /\ UNCHANGED dialVars
    BY <1>1, <2>2 DEF ReconnectChainsAreAlive, RetryTypes, dialVars, PeerHost
  <2>3. QED
    BY <1>3, <2>1, <2>2 DEF ReconnectFires
<1>4. ASSUME NEW h \in DialableHost, DialStep(h)
      PROVE  ReconnectChainsAreAlive'
  <2> DEFINE origin == dial[h].origin
  <2>1. dial[h] # None /\ origin \in Origin
    BY <1>1, <1>4, DialInFlight
    DEF DialStep, AuthenticationFails, AuthenticationAnswers, TransportFails, TransportOpens
  <2>2. CASE \E cache : DialFails(h, origin, reconnectTimers, cache)
    BY <1>1, <2>1, <2>2, DialFailsChains
  <2>3. CASE \E id, cache : HaveIdentity(h, origin, id, reconnectTimers, cache)
    BY <1>1, <2>1, <2>3, HaveIdentityChains
  <2>4. CASE \E at : Authenticate(h, origin, at, reconnectTimers)
    BY <1>1, <2>1, <2>4, AuthenticateChains
  <2>5. CASE \E s \in Socket : TransportOpens(h, s) /\ ~Connected(dial[h].identity.address)
    <3> DEFINE id == dial[h].identity
               hs == {Normalize(id.hostname, authenticatedPeers)} \cup {k \in {h} : origin = "reconnect"}
    <3>1. PICK s \in Socket : /\ Register(s, id)
                              /\ ClearAttempts(hs)
                              /\ connectingPeers' = connectingPeers \ {h}
                              /\ dial' = [dial EXCEPT ![h] = None]
                              /\ dial[h].identity # None
      BY <2>5 DEF TransportOpens
    <3>2. id \in PeerIdentity /\ Normalize(id.hostname, authenticatedPeers) = id.hostname
      BY <1>1, <2>1, <3>1, DialInFlight, IdentityFields, NormalizeIsIdentity
      DEF CacheInv, CacheProvesItsHostname, PeerHost
    <3>3. \A k \in PeerHost : k \in connectingPeers /\ dial[k].origin = "reconnect" =>
            k \in hs \/ (k \in connectingPeers' /\ dial'[k] = dial[k])
      BY <1>1, <3>1 DEF DialInv
    <3>4. id.hostname \in hs
      BY <3>2
    <3> HIDE DEF id, hs
    <3>5. QED
      BY <1>1, <3>1, <3>2, <3>3, <3>4, RegisterChains
  <2>6. QED
    BY <1>4, <2>2, <2>3, <2>4, <2>5
    DEF DialStep, AuthenticationFails, AuthenticationAnswers, TransportFails, TransportOpens
<1>5. ASSUME NEW s \in Socket, NEW id \in InboundIdentity \cup {ApiIdentity}, InboundOpens(id, s)
      PROVE  ReconnectChainsAreAlive'
  <2> DEFINE hs == {Normalize(id.hostname, authenticatedPeers)}
  <2>1. id \in PeerIdentity \cup {ApiIdentity}
    BY ConstantsAssumption
  <2>2. Normalize(id.hostname, authenticatedPeers) = id.hostname
    BY <1>1, <2>1, IdentityFields, NormalizeIsIdentity DEF CacheInv, CacheProvesItsHostname, PeerHost
  <2>3. Register(s, id) /\ ClearAttempts(hs) /\ UNCHANGED dialVars
    BY <1>5 DEF InboundOpens
  <2>4. id.hostname \in hs
    BY <2>2
  <2> HIDE DEF hs
  <2>5. QED
    BY <1>1, <2>1, <2>3, <2>4, RegisterChains DEF dialVars
<1>6. ASSUME NEW s \in Socket, SocketCloses(s)
      PROVE  ReconnectChainsAreAlive'
  <2>1. CASE UNCHANGED reconnectVars
    BY <1>6, <2>1 DEF SocketCloses, ReconnectChainsAreAlive, reconnectVars, dialVars
  <2>2. CASE \E h : ScheduleReconnect(h, reconnectTimers)
    BY <1>1, <1>6, <2>2
    DEF SocketCloses, ReconnectChainsAreAlive, ScheduleReconnect, RetryTypes, dialVars, PeerHost
  <2>3. QED
    BY <1>6, <2>1, <2>2 DEF SocketCloses
<1>7. CASE PurgePeerCache
  BY <1>7 DEF PurgePeerCache, ReconnectChainsAreAlive
<1>8. ASSUME (\E h \in PeerHost : VerifyInbound(h)) \/ SweepFailures \/ UNCHANGED vars
      PROVE  ReconnectChainsAreAlive'
  BY <1>8 DEF VerifyInbound, SweepFailures, vars, ReconnectChainsAreAlive, reconnectVars, dialVars
<1>9. QED
  BY <1>2, <1>3, <1>4, <1>5, <1>6, <1>7, <1>8 DEF Next, PeerHost

\* A counted chain has an armed timer or its dial in flight: no path through the timer
\* callback, the outcome of its dial, a connection or a purge leaves a count behind
\* (scheduleReconnect(), clearReconnectState()).
THEOREM ChainsAreAlive == Spec => []ReconnectChainsAreAlive
<1>1. Init => ReconnectChainsAreAlive
  BY DEF Init, ReconnectChainsAreAlive
<1>2. IInv /\ ReconnectChainsAreAlive /\ [Next]_vars => ReconnectChainsAreAlive'
  BY NextChains
<1>3. QED
  BY <1>1, <1>2, ConnectionInvariant, PTL DEF Spec

=============================================================================
