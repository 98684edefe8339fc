--------------------------- MODULE PeerConnections ---------------------------
(***************************************************************************)
(* The connection table of one Hydrabase node (PeerManager.ts): how it     *)
(* dials, authenticates, registers, loses and re-dials its peers.          *)
(*                                                                         *)
(* JavaScript runs one callback at a time, so an action is the code        *)
(* between two points at which the event loop may run something else: the  *)
(* start of a dial up to its first network wait, one outcome of an         *)
(* authentication or of a transport up to the next wait or to the end of   *)
(* the caller of add(), one close event, one timer.                        *)
(*                                                                         *)
(* Hostnames, addresses and sockets are opaque.  Messages sent on the way  *)
(* (HIP2 envelopes, replies to the API) are the business of Messaging; the *)
(* announcement sets, which only feed statistics, are left out.            *)
(***************************************************************************)
EXTENDS Integers, FiniteSets

CONSTANTS
  Host,             \* every hostname:port the node hears of
  SelfHost,         \* the hostnames under which the node knows itself
  DialableHost,     \* the hostnames the port rules of add() let through
  LocalRoute,       \* hostnames on the loopback or on a private network
  ApiHost,          \* the pseudo hostname 'API:0' of the web UI
  Address,          \* every public-key address
  SelfAddress,      \* the node's own address
  ApiAddress,       \* the pseudo address '0x0' of the web UI
  Advertised,       \* Advertised[h]: the identity that GET h/auth proves
  InboundIdentity,  \* the identities with which other nodes dial in, the node's own
                    \* not excepted: a uTP greeting may name one of its hostnames
  Socket,           \* handles of open connections
  MaxAttempts,      \* RECONNECT_MAX_ATTEMPTS
  MaxFailures,      \* RECENT_CONNECTION_FAILURE_MAX
  None              \* the absent value of every map

Identity == [address : Address, hostname : Host]

ApiIdentity == [address |-> ApiAddress, hostname |-> ApiHost]

\* The identities of other nodes: 'API:0' and '0x0' belong to the web UI alone.
PeerIdentity == {id \in Identity : id.address # ApiAddress /\ id.hostname # ApiHost}

\* Who awaits the result of add(): the reconnect timer, a connect_peer request
\* of the web UI, or a caller that only logs it (DHT, ping, announce, bootstrap).
Origin == {"reconnect", "api", "discovery"}

\* A dial waits for the /auth answer of a hostname, or, once it has an identity, for a transport.
Dial == [origin : Origin, authenticating : Host \ {ApiHost}, identity : {None}]
        \cup [origin : Origin, authenticating : {None}, identity : PeerIdentity]

ASSUME ConstantsAssumption ==
  /\ SelfHost \subseteq Host \ {ApiHost}
  /\ DialableHost \subseteq Host \ {ApiHost}
  /\ LocalRoute \subseteq Host
  /\ ApiHost \in Host
  /\ SelfAddress \in Address
  /\ ApiAddress \in Address \ {SelfAddress}
  /\ Advertised \in [Host \ {ApiHost} -> PeerIdentity]
  /\ InboundIdentity \subseteq PeerIdentity
  /\ MaxAttempts \in Nat \ {0}
  /\ MaxFailures \in Nat \ {0}
  /\ None \notin Host \cup Address \cup Identity \cup Socket \cup Dial

VARIABLES
  socket,                    \* socket[s]: who is at the other end of the live connection s
  peers,                     \* peers[a]: the socket of the connected peer a
  connectingPeers,           \* the hostnames being dialed
  dial,                      \* dial[h]: where the dial to h stands
  knownPeers,                \* the hostnames taken to be connected
  reconnectTimers,           \* the hostnames with an armed reconnect timer
  reconnectAttempts,         \* reconnectAttempts[h]: attempts of the running chain, 0 for no entry
  recentPeerAddresses,       \* the address last connected under a hostname
  recentConnectionFailures,  \* the hostnames with a failure to report to the peer
  authenticatedPeers,        \* the cache of proved identities
  wsServer                   \* the persisted list of peers to dial at the next start

dialVars      == <<connectingPeers, dial>>
reconnectVars == <<reconnectTimers, reconnectAttempts>>
vars == <<socket, peers, dialVars, knownPeers, reconnectVars, recentPeerAddresses,
          recentConnectionFailures, authenticatedPeers, wsServer>>

TypeOK ==
  /\ socket \in [Socket -> PeerIdentity \cup {ApiIdentity, None}]
  /\ peers \in [Address -> Socket \cup {None}]
  /\ connectingPeers \subseteq DialableHost
  /\ dial \in [DialableHost -> Dial \cup {None}]
  /\ knownPeers \subseteq Host
  /\ reconnectTimers \subseteq Host \ {ApiHost}
  /\ reconnectAttempts \in [Host \ {ApiHost} -> 0..MaxAttempts]
  /\ recentPeerAddresses \in [Host -> Address \cup {None}]
  /\ recentConnectionFailures \subseteq Host \ {ApiHost}
  /\ authenticatedPeers \in [Host \ {ApiHost} -> PeerIdentity \cup {None}]
  /\ wsServer \subseteq Host

Init ==
  /\ socket = [s \in Socket |-> None]
  /\ peers = [a \in Address |-> None]
  /\ connectingPeers = {}
  /\ dial = [h \in DialableHost |-> None]
  /\ knownPeers = {}
  /\ reconnectTimers = {}
  /\ reconnectAttempts = [h \in Host \ {ApiHost} |-> 0]
  /\ recentPeerAddresses = [h \in Host |-> None]
  /\ recentConnectionFailures = {}
  /\ authenticatedPeers = [h \in Host \ {ApiHost} |-> None]
  /\ wsServer = {}

-----------------------------------------------------------------------------
(* What the code asks about its tables. *)

\* has()
Connected(a) == peers[a] # None

\* normalizeHostname(), against a given state of the cache
Normalize(h, cache) ==
  IF h = ApiHost \/ cache[h] = None THEN h ELSE cache[h].hostname

\* findConnectedPeerByHostname()
ConnectedUnder(h, cache) ==
  \E a \in Address \ {ApiAddress} :
    Connected(a) /\ Normalize(socket[peers[a]].hostname, cache) = h

\* The second and third source of resolveKnownPeerAddress()
RememberedAddress(h, cache) ==
  CASE recentPeerAddresses[h] # None -> recentPeerAddresses[h]
    [] recentPeerAddresses[h] = None /\ cache[h] # None -> cache[h].address
    [] OTHER -> None

\* resolveKnownPeerAddress() finds an address
AddressResolves(h, cache) ==
  ConnectedUnder(h, cache) \/ RememberedAddress(h, cache) # None

\* hasSatisfiedConnection()
Satisfied(h, connecting, cache) ==
  \/ h \in connecting
  \/ ConnectedUnder(h, cache)
  \/ \E a \in Address : a = RememberedAddress(h, cache) /\ Connected(a)

\* shouldAuthenticate()
ShouldAuthenticate(h, known) == h \notin SelfHost \cup known

\* Mutant of ShouldConnect: the node relies on shouldAuthenticate() to recognise itself.
ShouldConnectToOneself(h, id) ==
  /\ ~Connected(id.address)
  /\ id.hostname # h => id.hostname \notin knownPeers

\* shouldConnect()
ShouldConnect(h, id) ==
  /\ ~Connected(id.address)
  /\ id.address # SelfAddress
  /\ id.hostname \notin SelfHost
  /\ id.hostname # h => id.hostname \notin knownPeers

-----------------------------------------------------------------------------
(* Bookkeeping shared by the handlers. *)

\* recordConnectionFailure(): a failure whose peer can be named is sent at once,
\* any other is kept until that peer connects.  Over the limit an older one goes.
RecordFailure(h, cache) ==
  LET others == recentConnectionFailures \ {h}
  IN  \/ /\ AddressResolves(h, cache)
         /\ recentConnectionFailures' = others
      \/ /\ ~AddressResolves(h, cache)
         /\ Cardinality(others) < MaxFailures
         /\ recentConnectionFailures' = others \cup {h}
      \/ /\ ~AddressResolves(h, cache)
         /\ Cardinality(others) >= MaxFailures
         /\ \E oldest \in others :
              recentConnectionFailures' = (others \ {oldest}) \cup {h}

\* Mutant of ScheduleReconnect: the count saturates and the chain never gives up.
ScheduleReconnectForEver(h, timers) ==
  /\ reconnectAttempts' = [reconnectAttempts EXCEPT ![h] = IF @ < MaxAttempts THEN @ + 1 ELSE @]
  /\ reconnectTimers' = timers \cup {h}

\* scheduleReconnect(): arms the next attempt or gives up after the last
ScheduleReconnect(h, timers) ==
  \/ /\ reconnectAttempts[h] < MaxAttempts
     /\ reconnectAttempts' = [reconnectAttempts EXCEPT ![h] = @ + 1]
     /\ reconnectTimers' = timers \cup {h}
  \/ /\ reconnectAttempts[h] >= MaxAttempts
     /\ reconnectAttempts' = [reconnectAttempts EXCEPT ![h] = 0]
     /\ reconnectTimers' = timers \ {h}

\* What the caller of add(h) does when add returns false
AddReturnsFalse(h, origin, connecting, timers, cache) ==
  \/ /\ origin = "discovery"
     /\ reconnectTimers' = timers
     /\ UNCHANGED <<reconnectAttempts, recentConnectionFailures>>
  \/ /\ origin = "api"
     /\ RecordFailure(h, cache)
     /\ reconnectTimers' = timers
     /\ UNCHANGED reconnectAttempts
  \/ /\ origin = "reconnect"
     /\ Satisfied(h, connecting, cache)
     /\ reconnectTimers' = timers
     /\ reconnectAttempts' = [reconnectAttempts EXCEPT ![h] = 0]
     /\ UNCHANGED recentConnectionFailures
  \/ /\ origin = "reconnect"
     /\ ~Satisfied(h, connecting, cache)
     /\ RecordFailure(h, cache)
     /\ ScheduleReconnect(h, timers)

\* Mutant of DialFails: the hostname is not released.
DialFailsWithoutFinally(h, origin, timers, cache) ==
  /\ dial' = [dial EXCEPT ![h] = None]
  /\ AddReturnsFalse(h, origin, connectingPeers, timers, cache)
  /\ UNCHANGED connectingPeers

\* The finally block of add(), then its caller
DialFails(h, origin, timers, cache) ==
  /\ connectingPeers' = connectingPeers \ {h}
  /\ dial' = [dial EXCEPT ![h] = None]
  /\ AddReturnsFalse(h, origin, connectingPeers \ {h}, timers, cache)

\* toPeer() once it has an identity: go on to a transport, or return false
HaveIdentity(h, origin, id, timers, cache) ==
  \/ /\ ShouldConnect(h, id)
     /\ connectingPeers' = connectingPeers \cup {h}
     /\ dial' = [dial EXCEPT ![h] = [origin |-> origin, authenticating |-> None,
                                     identity |-> id]]
     /\ reconnectTimers' = timers
     /\ UNCHANGED <<reconnectAttempts, recentConnectionFailures>>
  \/ /\ ~ShouldConnect(h, id)
     /\ DialFails(h, origin, timers, cache)

\* authenticateServerHTTP(at) up to its fetch.  An entry of the cache is used,
\* or is too old and deleted, or has no age since a restart and stays.
Authenticate(h, origin, at, timers) ==
  \/ /\ authenticatedPeers[at] # None
     /\ HaveIdentity(h, origin, authenticatedPeers[at], timers, authenticatedPeers)
     /\ UNCHANGED authenticatedPeers
  \/ /\ connectingPeers' = connectingPeers \cup {h}
     /\ dial' = [dial EXCEPT ![h] = [origin |-> origin, authenticating |-> at,
                                     identity |-> None]]
     /\ reconnectTimers' = timers
     /\ \E entry \in {None, authenticatedPeers[at]} :
          authenticatedPeers' = [authenticatedPeers EXCEPT ![at] = entry]
     /\ UNCHANGED <<reconnectAttempts, recentConnectionFailures>>

\* add(h) for a hostname, up to its first wait
Add(h, origin, known, timers) ==
  LET key    == Normalize(h, authenticatedPeers)
      admits == /\ h \in DialableHost
                /\ key \notin connectingPeers
                /\ ShouldAuthenticate(key, known)
  IN  \/ /\ ~admits
         /\ AddReturnsFalse(h, origin, connectingPeers, timers, authenticatedPeers)
         /\ UNCHANGED <<dialVars, authenticatedPeers>>
      \/ /\ admits
         /\ Authenticate(key, origin, h, timers)

\* add(socket) past the duplicate check
Register(s, id) ==
  LET h == Normalize(id.hostname, authenticatedPeers)
  IN  /\ socket' = [socket EXCEPT ![s] = id]
      /\ peers' = [peers EXCEPT ![id.address] = s]
      /\ wsServer' = {socket'[peers'[a]].hostname : a \in {b \in Address : peers'[b] # None}}
      /\ knownPeers' = knownPeers \cup {h}
      /\ reconnectTimers' = reconnectTimers \ {h}
      /\ recentPeerAddresses' = [recentPeerAddresses EXCEPT ![h] = id.address]
      /\ recentConnectionFailures' = recentConnectionFailures \ {h}

\* The attempts of the hostnames hs are forgotten.
ClearAttempts(hs) ==
  reconnectAttempts' = [h \in Host \ {ApiHost} |-> IF h \in hs THEN 0 ELSE reconnectAttempts[h]]

-----------------------------------------------------------------------------
(* Dialing. *)

\* A hostname is learnt from the DHT, a ping, an announcement or the bootstrap
\* list, or the user asks for it in the web UI.
Discover(h) ==
  /\ \/ Add(h, "discovery", knownPeers, reconnectTimers)
     \/ Connected(ApiAddress) /\ Add(h, "api", knownPeers, reconnectTimers)
  /\ UNCHANGED <<socket, peers, knownPeers, recentPeerAddresses, wsServer>>

\* Mutant of ReconnectFires: the count survives a timer that finds the host connected.
ReconnectFiresKeepsCount(h) ==
  /\ h \in reconnectTimers
  /\ \/ /\ Satisfied(h, connectingPeers, authenticatedPeers)
        /\ reconnectTimers' = reconnectTimers \ {h}
        /\ UNCHANGED <<dialVars, knownPeers, reconnectAttempts, recentConnectionFailures,
                       authenticatedPeers>>
     \/ /\ ~Satisfied(h, connectingPeers, authenticatedPeers)
        /\ knownPeers' = knownPeers \ {h}
        /\ Add(h, "reconnect", knownPeers \ {h}, reconnectTimers \ {h})
  /\ UNCHANGED <<socket, peers, recentPeerAddresses, wsServer>>

\* The callback of a reconnect timer
ReconnectFires(h) ==
  /\ h \in reconnectTimers
  /\ \/ /\ Satisfied(h, connectingPeers, authenticatedPeers)
        /\ reconnectTimers' = reconnectTimers \ {h}
        /\ reconnectAttempts' = [reconnectAttempts EXCEPT ![h] = 0]
        /\ UNCHANGED <<dialVars, knownPeers, recentConnectionFailures, authenticatedPeers>>
     \/ /\ ~Satisfied(h, connectingPeers, authenticatedPeers)
        /\ knownPeers' = knownPeers \ {h}
        /\ Add(h, "reconnect", knownPeers \ {h}, reconnectTimers \ {h})
  /\ UNCHANGED <<socket, peers, recentPeerAddresses, wsServer>>

\* The fetch fails, times out, or brings a bad signature.
AuthenticationFails(h) ==
  /\ dial[h] # None /\ dial[h].authenticating # None
  /\ DialFails(h, dial[h].origin, reconnectTimers, authenticatedPeers)
  /\ UNCHANGED <<socket, peers, knownPeers, recentPeerAddresses, authenticatedPeers, wsServer>>

\* Mutant of ProvedIdentity: a local route is cached under the advertised hostname.
ProvedIdentityAsAdvertised(at) == Advertised[at]

\* The identity cached for the answer of hostname at, which keeps a local route
ProvedIdentity(at) == [Advertised[at] EXCEPT !.hostname = at]

\* The answer is accepted under the hostname that was asked.
AcceptsAnswer(at) ==
  \/ Advertised[at].hostname = at
  \/ at \in LocalRoute /\ Advertised[at].hostname \notin LocalRoute

\* /auth answers: the identity is cached, or the hostname it advertises is tried next.
AuthenticationAnswers(h) ==
  /\ dial[h] # None /\ dial[h].authenticating # None
  /\ LET at     == dial[h].authenticating
         origin == dial[h].origin
     IN  \/ /\ AcceptsAnswer(at)
            /\ authenticatedPeers' = [authenticatedPeers EXCEPT ![at] = ProvedIdentity(at)]
            /\ HaveIdentity(h, origin, ProvedIdentity(at), reconnectTimers,
                            authenticatedPeers')
         \/ /\ ~AcceptsAnswer(at)
            /\ Authenticate(h, origin, Advertised[at].hostname, reconnectTimers)
  /\ UNCHANGED <<socket, peers, knownPeers, recentPeerAddresses, wsServer>>

\* Both transports have failed or timed out.
TransportFails(h) ==
  /\ dial[h] # None /\ dial[h].identity # None
  /\ DialFails(h, dial[h].origin, reconnectTimers, authenticatedPeers)
  /\ UNCHANGED <<socket, peers, knownPeers, recentPeerAddresses, authenticatedPeers, wsServer>>

\* Mutant of TransportOpens: the peer is not looked up again once the socket is open.
TransportOpensUnchecked(h, s) ==
  /\ dial[h] # None /\ dial[h].identity # None
  /\ socket[s] = None
  /\ Register(s, dial[h].identity)
  /\ ClearAttempts({dial[h].identity.hostname} \cup {k \in {h} : dial[h].origin = "reconnect"})
  /\ connectingPeers' = connectingPeers \ {h}
  /\ dial' = [dial EXCEPT ![h] = None]
  /\ UNCHANGED authenticatedPeers

\* A transport opens.  In the meantime the peer may have dialed in: then the
\* new socket is closed and add() returns false.
TransportOpens(h, s) ==
  /\ dial[h] # None /\ dial[h].identity # None
  /\ socket[s] = None
  /\ LET id     == dial[h].identity
         origin == dial[h].origin
     IN  \/ /\ Connected(id.address)
            /\ DialFails(h, origin, reconnectTimers, authenticatedPeers)
            /\ UNCHANGED <<socket, peers, knownPeers, recentPeerAddresses, wsServer>>
         \/ /\ ~Connected(id.address)
            /\ Register(s, id)
            /\ ClearAttempts({Normalize(id.hostname, authenticatedPeers)}
                             \cup {k \in {h} : origin = "reconnect"})
            /\ connectingPeers' = connectingPeers \ {h}
            /\ dial' = [dial EXCEPT ![h] = None]
  /\ UNCHANGED authenticatedPeers

-----------------------------------------------------------------------------
(* Connections that other nodes or the web UI open, and the end of connections. *)

\* Verifying a client that dials in asks the hostname it claims for /auth, so it
\* refreshes or ages the cache whatever becomes of the client.
VerifyInbound(h) ==
  /\ h # ApiHost
  /\ \/ AcceptsAnswer(h) /\ authenticatedPeers' = [authenticatedPeers EXCEPT ![h] = ProvedIdentity(h)]
     \/ authenticatedPeers' = [authenticatedPeers EXCEPT ![h] = None]
  /\ UNCHANGED <<socket, peers, dialVars, knownPeers, reconnectVars, recentPeerAddresses,
                 recentConnectionFailures, wsServer>>

\* A verified inbound socket reaches add().  A second socket of a connected peer
\* is closed and changes nothing; a second web UI replaces the first.  No address is
\* refused for being the node's own.
InboundOpens(id, s) ==
  /\ socket[s] = None
  /\ id.address # ApiAddress => ~Connected(id.address)
  /\ Register(s, id)
  /\ ClearAttempts({Normalize(id.hostname, authenticatedPeers)})
  /\ UNCHANGED <<dialVars, authenticatedPeers>>

\* Mutant of SocketCloses: no stale check.
SocketClosesUnchecked(s) ==
  /\ socket[s] # None
  /\ socket' = [socket EXCEPT ![s] = None]
  /\ peers' = [peers EXCEPT ![socket[s].address] = None]
  /\ knownPeers' = knownPeers \ {socket[s].hostname}
  /\ IF socket[s].hostname = ApiHost THEN UNCHANGED reconnectVars
     ELSE ScheduleReconnect(socket[s].hostname, reconnectTimers)
  /\ UNCHANGED <<dialVars, recentPeerAddresses, recentConnectionFailures,
                 authenticatedPeers, wsServer>>

\* Mutant of SocketCloses: the hostname stays known.
SocketClosesStaysKnown(s) ==
  /\ socket[s] # None
  /\ socket' = [socket EXCEPT ![s] = None]
  /\ \/ peers[socket[s].address] # s /\ UNCHANGED <<peers, reconnectVars>>
     \/ /\ peers[socket[s].address] = s
        /\ peers' = [peers EXCEPT ![socket[s].address] = None]
        /\ IF socket[s].hostname = ApiHost THEN UNCHANGED reconnectVars
           ELSE ScheduleReconnect(socket[s].hostname, reconnectTimers)
  /\ UNCHANGED <<dialVars, knownPeers, recentPeerAddresses, recentConnectionFailures,
                 authenticatedPeers, wsServer>>

\* The close event of a registered socket, whichever side or timeout closed it.
\* It is stale when another socket has taken the address over.
SocketCloses(s) ==
  /\ socket[s] # None
  /\ socket' = [socket EXCEPT ![s] = None]
  /\ LET id == socket[s]
         h  == Normalize(id.hostname, authenticatedPeers)
     IN  \/ /\ peers[id.address] # s
            /\ UNCHANGED <<peers, knownPeers, reconnectVars>>
         \/ /\ peers[id.address] = s
            /\ peers' = [peers EXCEPT ![id.address] = None]
            /\ knownPeers' = knownPeers \ {h}
            /\ IF id.hostname = ApiHost THEN UNCHANGED reconnectVars
                                        ELSE ScheduleReconnect(h, reconnectTimers)
  /\ UNCHANGED <<dialVars, recentPeerAddresses, recentConnectionFailures,
                 authenticatedPeers, wsServer>>

-----------------------------------------------------------------------------
(* Housekeeping. *)

\* purgePeerCache(), on request of the web UI.  Connections and dials go on.
PurgePeerCache ==
  /\ Connected(ApiAddress)
  /\ wsServer' = {}
  /\ authenticatedPeers' = [h \in Host \ {ApiHost} |-> None]
  /\ recentPeerAddresses' = [h \in Host |-> None]
  /\ recentConnectionFailures' = {}
  /\ reconnectTimers' = {}
  /\ reconnectAttempts' = [h \in Host \ {ApiHost} |-> 0]
  /\ UNCHANGED <<socket, peers, dialVars, knownPeers>>

\* pruneExpiredConnectionFailures(), from the sweep timer
SweepFailures ==
  /\ \E expired \in SUBSET recentConnectionFailures \ {{}} :
       recentConnectionFailures' = recentConnectionFailures \ expired
  /\ UNCHANGED <<socket, peers, dialVars, knownPeers, reconnectVars, recentPeerAddresses,
                 authenticatedPeers, wsServer>>

DialStep(h) ==
  \/ AuthenticationFails(h)
  \/ AuthenticationAnswers(h)
  \/ TransportFails(h)
  \/ \E s \in Socket : TransportOpens(h, s)

Next ==
  \/ \E h \in Host \ {ApiHost} : Discover(h) \/ ReconnectFires(h) \/ VerifyInbound(h)
  \/ \E h \in DialableHost : DialStep(h)
  \/ \E s \in Socket : SocketCloses(s)
  \/ \E s \in Socket, id \in InboundIdentity \cup {ApiIdentity} : InboundOpens(id, s)
  \/ PurgePeerCache
  \/ SweepFailures

Spec == Init /\ [][Next]_vars

\* Every wait of a dial has a timeout and every armed timer fires, so dials and
\* timers make progress.  Nothing else is owed: peers, users and closes may stay away.
FairSpec ==
  /\ Spec
  /\ \A h \in DialableHost : WF_vars(DialStep(h))
  /\ \A h \in Host \ {ApiHost} : WF_vars(ReconnectFires(h))

-----------------------------------------------------------------------------
(* Properties. *)

\* Every entry of the cache proves the hostname it is filed under, whatever route or
\* upgrade led to it (http.ts).  normalizeHostname() is then the identity: what one
\* handler files under a hostname, the next one finds, even after a purge in between.
CacheProvesItsHostname ==
  \A h \in Host \ {ApiHost} :
    authenticatedPeers[h] # None => authenticatedPeers[h].hostname = h

\* The table and the live connections agree (add(), PeerManager.ts): an entry leads to a
\* live socket of that very peer, and no live peer connection is missing from the table,
\* however dials, inbound connections and closes interleave.  A connection missing
\* from it would never be used and never be closed.
TableMatchesConnections ==
  /\ \A a \in Address : Connected(a) => /\ socket[peers[a]] # None
                                        /\ socket[peers[a]].address = a
  /\ \A s \in Socket : socket[s] # None /\ socket[s].address # ApiAddress
                          => peers[socket[s].address] = s

\* A hostname is only held to be connected while a peer is connected under it.  A
\* leftover in knownPeers would make shouldAuthenticate() refuse that host for ever.
KnownPeersAreConnected ==
  \A h \in knownPeers : \E a \in Address : Connected(a) /\ socket[peers[a]].hostname = h

\* No dial ends in a connection to the node itself, whatever alias of itself it discovers:
\* by hostname in shouldAuthenticate(), by proved identity in shouldConnect().  Only who
\* dials in can be listed under its own address, which add(socket) does not compare.
NoDialLeadsToItself ==
  [][Connected(SelfAddress)' /\ ~Connected(SelfAddress) => UNCHANGED dial]_vars

\* connectingPeers holds exactly the dials in flight: every path out of add()
\* releases the hostname, and no hostname is dialed twice at a time.
ConnectingPeersAreDials == connectingPeers = {h \in DialableHost : dial[h] # None}

\* A chain of reconnect attempts that is counted is alive: its next timer is armed or
\* its dial is in flight.  A count left behind would start the next chain at a long
\* delay, and near its end.
ReconnectChainsAreAlive ==
  \A h \in Host \ {ApiHost} : reconnectAttempts[h] > 0 =>
    \/ h \in reconnectTimers
    \/ h \in connectingPeers /\ dial[h].origin = "reconnect"

\* A connection failure that waits for its peer never waits while that peer is connected
\* under that hostname: recording it or registering the peer delivers it.
NoFailureKeptFromConnectedPeer ==
  \A h \in recentConnectionFailures, a \in Address \ {ApiAddress} :
    Connected(a) => socket[peers[a]].hostname # h

\* A peer leaves the table only with its own connection: the late close event of a
\* replaced web UI socket, or of any other, unlists nobody (the stale check of onClose).
OnlyItsOwnCloseUnlistsAPeer ==
  [][\A a \in Address : Connected(a) /\ ~Connected(a)' => socket'[peers[a]] = None]_vars

\* Every dial comes to an end, so that its hostname can be dialed again.
DialsEnd == \A h \in DialableHost : h \in connectingPeers ~> h \notin connectingPeers

\* Every chain of reconnect attempts comes to an end: by a connection, by giving up,
\* by a purge, or by finding the host connected; none backs off for ever.
ReconnectChainsEnd ==
  \A h \in Host \ {ApiHost} : reconnectAttempts[h] > 0 ~> reconnectAttempts[h] = 0

=============================================================================
