# Hydrabase in TLA+

A verification project for Hydrabase: the backend of a node of its peer-to-peer
metadata network (`src/src/backend`), the supervisor around it (`src/scripts/start.ts`), and
the page that talks to it (`src/src/frontend`). The modules are translated from the
TypeScript source; line numbers below refer to `src/src/backend` unless another
path is given.

- [The system](#the-system): components, state, interactions, what is hard
- [The modules](#the-modules): how definitions correspond to the code
- [The runs](#the-runs): what TLC checks, bounds, fairness
- [The proofs](#the-proofs): what TLAPS proves and how
- [Disagreements found](#disagreements-found)
- [What is not modelled](#what-is-not-modelled) and [the plan](#the-plan)

## The system

A node is one JavaScript process: callbacks run one at a time, and everything
that can interleave does so at an `await`, a timer or a socket event. The nodes
of the network run concurrently and fail independently.

| Component | Source | State | Operations |
| --- | --- | --- | --- |
| Connection management | `PeerManager.ts` | `peers` (by address), `connectingPeers`, `knownPeers`, `reconnectTimers`, `reconnectAttempts`, `recentPeerAddresses`, `recentConnectionFailures`, the persisted peer list | `add` (a dial or an inbound socket), `toPeer`, the close handler, `scheduleReconnect`, `recordConnectionFailure`, `purgePeerCache`, the 10 s sweep |
| Messaging | `PeerManager.ts`, `protocol/HIP2_Messaging` | `localMessageHistory`, `heldMessages` | create, receive a packet or a batch, relay, hold, replay to a new peer, sweep |
| Peer session | `Peer.ts` | traffic counters and what of them is saved, `pendingPings`, `consecutivePingTimeouts` | ping every 60 s, pong, ping timeout, save every 30 s, close, one handler per message type |
| Request manager | `RequestManager.ts` | `nonce`, `pending`, `resolvedCount` | `register`, `resolve`, timeout, `close` |
| Server authentication | `networking/http.ts`, `networking/authenticatedPeers.ts` | the cache of proved identities, with their age | `GET /auth`, hostname upgrade, local routes, expiry |
| HIP1 - HIP4 | `protocol/` | none | identities and proofs, messages, announcements, verification of claimed hostnames |
| Transports | `networking/ws`, `networking/utp` | sockets, receive buffers, send queue | open, time out, send, frame, close |
| DHT | `networking/dht.ts` | known hosts, startup conditions | discover, announce |
| Search and votes | `Node.ts`, `PeerManager.ts`, `metadata/index.ts` | none of its own; the `artists`, `albums` and `tracks` tables | local search, search over all peers, choice of an id for a soul, merge |
| Plugins | `metadata/plugins` | none | fetch from web services |
| Runtime settings | `RuntimeSettingsManager.ts`, `config.ts` | desired, active and stored configuration | update, load |
| Statistics | `StatsReporter.ts`, `StatsPulseHistory.ts` | two debounce timers, pulse history | report, report DHT nodes |
| Port mapping | `networking/upnp.ts` | the promise of the library, active mappings | request, observe, time out, release |
| Startup | `index.ts`, `Node.ts` | the process | start a node, end on a signal, on request, by a crash |
| Repositories | `db/` | SQLite tables | single statements |
| Supervisor | `src/scripts/start.ts` | the child, restart history, flags | restart, update, shut down |
| The page | `src/src/frontend` | pending requests by nonce, settings and their draft, connection attempts, messages, statistics | search, save, purge, connect, open a peer, restart; merge what is pushed; reconnect |

How they interact: the DHT, pings, announcements, the bootstrap list and the web
UI all call `PeerManager.add`, which authenticates over HTTP, opens a transport
and builds a `Peer`; registration triggers the replay of messages, the warm-up
searches and a statistics report; the close event of the socket runs the
handler of the peer manager and of the session, and starts a reconnect chain.
Sessions call back into the peer manager for messages and discoveries. The page is a peer with
address `0x0` of its node, whose packets are requests with a nonce; messages, statistics and
connection errors are pushed to it.

What is hard here, and what makes each part correct:

- **Connections.** A dial waits three times (authentication, primary and
  fallback transport), and every check it made may be stale afterwards. The
  same peer can be reached under several hostnames, dials in while it is being
  dialed, and shares a NAT with another. The table must agree with the live
  connections, bookkeeping by hostname must not leak, every dial must release
  its hostname, chains must end and must not die early, and no dial may lead the node
  to itself.
- **Messages.** Flooding without acknowledgements, over connections that break
  with messages on the way, among nodes that restart and whose clocks disagree.
  A message is to be shown at most once, never after its expiry, and not to be
  kept from a connected recipient. Over uTP even a live connection loses what reaches the
  accepting node while it authenticates the other.
- **Sessions.** Responses, pongs, timeouts and the close event race. Each request is
  settled once, only silence disconnects a peer, silence does disconnect it, and each
  byte is counted once.
- **Links.** Two nodes that dial each other, over two transports whose ends register at
  different moments: whatever breaks, the tables of both must agree in the end.
- **Settings.** Four copies of each setting (environment, database, desired, active) over
  saves that fail, restarts, and an environment that changes in between.
- **The supervisor.** Crashes, updates, signals and restarts from the page meet a loop that
  waits twice: no two backends of its own, none after a shutdown, the newest one otherwise.
- **Search.** Peers leave between two answers, their records stay and vote, and two lists of
  results are merged by index. Records carry a confidence
  that their sender chooses, and an answer may be of another type than its request. The node's own
  findings must come back, every peer be asked, and distrusted votes not outweigh a trusted one.
- **The stream of a uTP connection.** Cut anywhere, in two framings, with a gap in which nobody listens.
- **The start of a process.** Signals, restarts and crashes meet a gateway that answers late, settings
  that are loaded after the ports were asked for, and a list of peers that the first registration overwrites.
- **The page.** Answers, timeouts, breaks and reloads race; indicators must go out, what is shown
  must be what the node has, and messages must survive React's delayed effects.

Every hazard is listed under `hazards` in `PROJECT.json` at its line, with the properties
that are about it.

## The modules

`PeerConnections` models the table of one node. The event loop makes the code
between two waits atomic, and that is an action: the start of a dial up to its first
wait (`Discover`, `ReconnectFires` calling `Add`), one outcome of `/auth`
(`AuthenticationAnswers`, `AuthenticationFails`), one outcome of the transports
(`TransportOpens`, `TransportFails`), an inbound connection (`InboundOpens`, after
`VerifyInbound`), a close event (`SocketCloses`), the purge and the sweep.
What the caller of `add()` does with `false` belongs to the same step
(`AddReturnsFalse`): the reconnect timer schedules the next attempt, the web UI's
request records a failure. `dial[h]` stands for the suspended calls of `toPeer`: who
waits for it, and the hostname being authenticated (a hostname upgrade asks another
one) or the identity a transport is being opened for. The two transports are one
wait: nothing is read or written between them. An inbound connection may come with the node's own identity: over uTP the hostname is what the
greeting says, and nothing compares it with the node's own before `add(socket)` registers it
(networking/utp/client.ts:38). Only dials have a check, which is what `NoDialLeadsToItself` is about.
A cache entry may be found fresh or stale at any time, which abstracts its hour. `MaxAttempts` is
`RECONNECT_MAX_ATTEMPTS` and `MaxFailures` is `RECENT_CONNECTION_FAILURE_MAX`; both are
parameters of the code's own, not bounds of the model.

`Messaging` models nodes that exchange envelopes over connections that come up
(`Open`, when either side dials), are registered by each side in its own time
(`Register`), break (`Break`) and are noticed to be broken by each side (`Close`).
`channel[n][m]` is what is on the way; it is lost when the connection breaks, and
its order is left open although a socket keeps it, since handlers of different
connections interleave anyhow. Over uTP a live connection loses it too: between the greeting and the end of
`/auth` the accepting node has no listener for data (networking/utp/client.ts:155), so that what the
dialer posts when it registers, the replay above all, may be heard by nobody (`ArriveUnheard`). Of a message
of which only the end is lost the head stays in the buffer (`torn`), and spoils the next one (`ArriveGarbled`). `Receive` is `processMessagePacket` for all packets of a
message; a single packet is a batch of one. `Greeting` is what a registration sends: held
messages, history, held messages of others, and possibly a new message (the
connect message or a failure report). `Expire` lets each node's clock pass an envelope's
expiry in its own time. `shown` counts what was passed to the web UI since the start,
which restarts forget. `missed` is a history variable
that records what a connected node misses from another: what the hop limit kept back, and what was lost in these two ways.

`MessageDelivery` is the abstract service: sending, showing at most once between two
starts, expiry, restart. `Messaging` implements it under `sent <- created`.

`PeerSession` models one session: the request manager, the pings, the searches of the
other side and the traffic counters, with the peer as the environment (it
answers, asks, or falls silent for good, `PeerDies`). `toPeer` and `fromPeer` hold what
is on the way; the peer may delay a response or a pong arbitrarily and may answer a
ping with an invalid pong. A request may also be made on a session that is closed already: the warm-up
searches of a new peer keep the `Peer` over their waits (Node.ts:27), and each of their later requests is
left to its timeout, since the close event has been. `missed` and `outcome` are history variables.
`MaxTraffic` caps the byte counters, `MaxRequests` the requests, `PingNonce` the pings
whose nonces are told apart (a nonce returns when nothing of its last use is left),
`MaxServing` the searches being served at a time.

`PeerLinks` composes the tables of several nodes. `PeerConnections` knows a connection as
open or closed; here each end learns what the other did from an event of its own. Every
connection has the state of its dialer (`Dial`, `DialerOpens`, `DialFails`, `FallsBack` for
the second transport, `DialerHears` for the close event) and of its acceptor (`Arrives`,
`AcceptorVerifies`, `AcceptorRejects`, `AcceptorHears`). Over TCP the acceptor registers
when it upgrades the request, after it has authenticated the headers, and refuses with 409 a
peer it lists already (networking/ws/server.ts:134); the dialer registers at the answer. Over uTP the dialer
registers first, and the acceptor after the greeting and `/auth` (networking/utp/client.ts:31,
Node.ts:135). Hostnames, caches and reconnect chains are those of `PeerConnections` and
are left out: a dial may start whenever `toPeer()` would let it.

`RuntimeConfig` models the configuration over restarts: `Start` is `createLiveConfig()`,
`resolvePort()` and `loadFromStorage()`; `Save` and `SaveFails` are `update()` with a
write that succeeds or throws; `EditEnvironment` and `ChangeAddress` happen outside.
Settings come in four kinds, which are the ones the code treats differently
(live, at restart, the hostname, the port). `PatchSize` bounds what one save changes.

`Supervisor` models `scripts/start.ts`. The code between two waits of `runSupervisorLoop` is an
action (`LoopReturns`, `RelaunchAfterUpdate`, `CrashIsCounted`, `SleepEnds`); signals and the update
timer run in between, also during the delay (`ShutdownIsHandled`, `UpdateIsApplied`, and `InstallFails`
for a pull whose dependencies cannot be installed). `RestartIsRequested` is the backend's own handler
of `restart` (Peer.ts:155), which spawns a detached process. `RestartAges` stands for time: an entry
may leave the window of the restart history at any moment. `crashes` is a history variable.
`MaxVersion` bounds the updates; a process handle is used again when its process has exited.

`NodeStartup` opens up the `Start` of `RuntimeConfig` and composes it with the rest of a process's
life. `Boot` is `createLiveConfig()`; the ports are asked for one protocol after the other
(`CreateMapping`, then `MappingSucceeds`, `MappingFails` or `MappingTimesOut`, whose common end is
`NextPort`); only then are the settings loaded (`LoadSettings`), the server started, the bootstrap
peers and then the cached ones dialled (`Dial`, `ReadCache`), and the DHT announced. `handle[p]` is
what the library does for the mapping of a protocol, and so what the gateway has; `active` is what
`activeMappings` knows of it. `Signal`, `Exit` and `Stops` (a second signal, a restart, a crash) may come at any step.
Once the page is connected it may have the peers forgotten (`PurgePeerCache`): the persisted list is emptied
while the peers stay connected, and the next registration writes it anew.
`early`, `joined`, `purged` and `lost` are history variables.

`Search` models `Node.search`: the plugin is asked while the cache is read, peers are asked one after
the other (`AskPeers`, `Answered`; `Leave` settles the request to the peer that goes), and every answer
is stored. `IdsFor` is `matchId()`: confidences are fractions, since only their order matters.
`Together` is what remains of the results when the local ones are put back by index. What a plugin
finds is a list, in which a result may be repeated. A record has the confidence its sender gave it,
between -1 and 1 as the schema allows, in multiples of 1/`Full`; `Score` weighs each vote by it. An answer of another
type than the request passes the schema and throws when it is stored (`AnsweredAmiss`): the search fails, and nobody else is asked. Searches done
for others (`Served`) and warm-up searches (`Warmed`) store records in between.

`StatsFeed` models what is pushed to the page: `timers` are the armed stats timers, in the order of
arming, each remembered by `debounceTimer` or forgotten; a report is a version number. On the page, `queued` is the
list last given to `setMessages`, `rendered` the one of the last rendering, `ref` the one in `messagesRef`.
Of a report the numbers are shown at once (`view`) and the list of peers when all their countries have been looked up
(`lookups`, `listed`): `LookupEnds` takes any of the lookups under way, whatever their order, and `LookupFails` shows nothing. The
list of DHT nodes goes the same way and is left out.
The pair of `Render` and `RunEffect` is React's, and is marked external. `dropped` and `overwritten` are history variables.

`Dashboard` models what the page asks for: every request in `requests` has its kind, nonce and
state; the two directions of its connection are queues; `work` is what the node is busy with.
`saving` and `purging` are the locks of the settings tab, which leaving the tab forgets.
A configuration is the number of the save that made it.

`UtpTransport` models the receiving side of a uTP connection over the bytes that its parser
tells apart. `Cut` is `flushFrames()`, byte by byte in `CutAt`; `Scan` has the states of the parser of
`flushLegacyJsonFrames()`, which each byte moves as `ParseAt` says; `Decoded` is `toString()` on one chunk.
What a peer sends is the JSON of objects, and none of them is the greeting (`TextAssumption`). `ArrivesUnheard` is data between the greeting and the end of the
authentication; `lost` is a history variable. `PeerLinks` has the transport's ends, this module its content.

`MC...` modules only give constants their values; `PeerSession`, `PeerLinks`, `Supervisor` and `Dashboard` need none.
`...Proofs` modules hold theorems; `NodeStartupProofs` has those of a node's processes (`RuntimeConfig`, `NodeStartup` and `Supervisor`),
`PeerLinksProofs` those of connections and of what comes over them (`PeerLinks` and `UtpTransport`). Operators whose comment begins with "Mutant of" are variants
of the operator named there, each with a mistake somebody might make; no
specification refers to them. They show for each property a mistake that breaks it.

## The runs

| Run | Instance | Properties |
| --- | --- | --- |
| `connection_table` | two peers behind one NAT that share a hostname, one of its names a local route, and the page; three sockets | the table is the set of live connections, known hosts do not leak, the cache proves its names, chains are not forgotten, a stale close event unlists nobody |
| `connection_liveness` | one peer, an alias of the node itself, a twin that greets with the node's name, one socket, fair | dials and chains end; no dial leads to the node itself |
| `link_pairs` | two nodes, two connections, both transports, fair | the tables of both ends agree when all is quiet; crossed connections end |
| `message_triangle` | three nodes, all links, one envelope, one relay hop, losses on live connections | messages are held for absent peers only, shared, served to their recipient; refinement of `MessageDelivery` |
| `message_batches` | two nodes, one envelope each way, fair | batches with new, duplicate and expired parts; a connected recipient is shown its message unless the connection lost it |
| `session_races` | two requests, two ping nonces, a threshold of two, fair | requests settle, an answering peer is kept and a silent one dropped, each byte is saved once |
| `supervisor_restarts` | three process handles, a budget of two crashes, two updates, fair | one supervised backend at a time, a shutdown is final, the newest version comes back |
| `search_votes` | three peers, two artists of two souls that the plugin may find, up to three results of it, a track, confidences 1 and -1, three rows in the tables together, fair | own results are returned, every peer is asked, trusted votes win, searches end, if only with an error |
| `stats_feed` | two messages, one of them global, one change, two packets on the way, one break, two lookups at a time, fair | at most two timers, messages are missed only in two ways, statistics are shown |
| `node_startup` | one hostname and one port to set, one address, a bootstrap peer and another, two processes, fair | mappings are accounted for and released by an orderly exit, saved settings are used, lost peers are dialled unless forgotten on request, starts and ends come to an end |
| `dashboard` | two requests of the page, two mishaps, one host, two peers to look at, fair | settings shown are the node's, the spinner is honest, a peer's page shows its own statistics, the page settles |
| `utp_framing` | a greeting and three messages (braces and escapes in a string, nested objects, a character outside ASCII), chunks of any size, with and without delimiters | messages come once and in order; a gap loses no more than it must |

**Bounds.** Two peers are the least with which bookkeeping by hostname or address
can be confused, and the code never relates three entries; the third socket lets a
replaced connection, its successor and that of another peer coexist. Two attempts tell the
first, the repeated and the last attempt of a chain apart. Where liveness is checked, one socket is enough: a chain and a dial meet one connection
of their host at a time, and the twin and the alias are the two ways in which the node's own identity comes in. Three nodes are the
least with which a message is relayed, held by a third party, and comes by two
routes; one hop of relay shows both sides of the hop limit. Two requests let
one be answered while the other times out or is cut off by the close event. Two
connections between two nodes are the least that can collide; a third adds handles, not kinds
of steps, since a handle is used again when its connection is over. Three processes are the
supervised one, its successor and a detached one; a budget of two lets updates and crashes mix
before it is spent. Three peers are the least with which two distrusted votes meet a trusted one, and three rows
let them meet; three results are the least (one twice, then another) of which putting back by index loses one, and the
confidences 1 and -1 those with which a vote counts fully for or against. Two processes let the second meet what the first left: stored settings, cached peers, mappings; in each
of them a save, a signal and a crash may come at every step. Two requests of the page are the least that can
be taken for one another; three, without mishaps, were checked once and gave nothing new. Two packets on the way let a report and a message
overtake each other's effects; one change is told by a report, lost with the connection, and told again;
two lookups are the least that can end in the wrong order.
The three messages exercise every branch of the brace scanner, and all splits are tried; the proof takes any messages.
The largest instances have 3,295,368 distinct states (`message_triangle`), 1,114,474 (`stats_feed`) and 1,091,126 (`search_votes`).
The proofs remove these bounds for most of the safety properties.

**Deadlock** is checked where the system goes on for ever. A session, a supervisor, a stream of bytes
and, within its bounds, a life of two processes or a page of two requests come to an end: `session_races`, `supervisor_restarts`,
`utp_framing`, `node_startup`, `dashboard`, `stats_feed` and `search_votes` switch it off.

**Fairness** is weak, and assumed only of steps of the node's own or of the service named:

- `connection_liveness`: each dial's outcome (`fetch` aborts after 10 s, networking/http.ts:99; the
  transports have timeouts of 30 s and 8 s) and each armed reconnect timer. Nothing of
  peers, closes, or the network's success.
- `link_pairs`: each wait of either end ends, in some outcome (those timeouts, and at the
  acceptor that of the greeting and of its `/auth`), and the close event of a closed socket
  is raised. Nobody need dial, and a connection need not break by itself: that
  crossed connections end follows from each side closing the duplicate.
- `message_batches`: what a live connection carries comes to the handler of a registered end, or is spoiled by a
  torn message before it (`Receive` or `ArriveGarbled`; nothing makes it arrive after the listener is attached). Nothing of
  reconnection or expiry; `RecipientIsShown` speaks of the time the connection stands.
- `session_races`: the timers of the node fire, what the peer has sent arrives, and a
  socket that the node closes raises its close event. Nothing of the peer.
- `supervisor_restarts`: the loop goes on when the child has exited or the delay is over, and a
  signalled backend exits (index.ts:111 does so even when releasing the leases fails).
  Nobody need crash, update or signal.
- `search_votes`: the fetch of a plugin ends, and so does a request to a peer, with an answer or
  after its timeout. Nobody need join, leave or search.
- `stats_feed`: time passes, armed timers fire, sockets deliver, the page reconnects, React renders, and the lookup of
  a country ends or fails. The timer that a report leaves armed is forgotten, so that no traffic can clear it; it fires with strong
  fairness, because only the bound on the packets on the way delays it. `StatsAreShown` makes two exceptions: lookups that keep
  failing, and packets that, until the first report was sent to a page, never leave a second without traffic. Endless traffic after
  that, the pings of every session included, is not excepted.
- `node_startup`: `startNode()` goes on, its timers fire, the library takes back what it has been told
  to (networking/upnp.ts:291 awaits that, without a timeout of its own), and a process that has
  nothing to wait for exits. Nothing of the gateway's or the DHT's answers.
- `dashboard`: timers fire, packets are handled in order, the page tries to connect again and succeeds
  at last, and the node that was asked to restart exits. The user need do nothing.

## The proofs

TLAPS proves, for every value of the constants allowed by the assumptions of the
module, the theorems below. Each rests on one inductive invariant (`IInv`; in `NodeStartupProofs` also `PortInv` and `SupIInv`, in `PeerLinksProofs` also `StreamInv`), proved by
`Init => IInv` and one lemma per action or kind of action, and `PTL` lifts it to `Spec => []IInv`.

| Module | Theorems | Why the invariant is stronger than the properties |
| --- | --- | --- |
| `PeerConnectionsProofs` | `ConnectionInvariant`, `TypesAreCorrect`, `TableAgrees`, `KnownPeersDoNotLeak`, `NoSelfDial`, `DialsAreReleased`, `CacheIsSound`, `FailuresReachConnectedPeers`, `OnlyOwnClose`, `ChainsAreAlive` | Bookkeeping by hostname goes through `normalizeHostname`; that it does not leak needs `CacheProvesItsHostname`, which makes normalisation the identity, and that connected peers keep the hostname they registered with. `NoDialLeadsToItself` needs that no dial holds an identity that is the node's own (`DialsAvoidSelf`), although the table may hold it. |
| `MessagingProofs` | `MessagingInvariant`, `MessagesAreTyped`, `HeldOnlyForAbsent`, `ShownStaysRemembered`, `RecipientsAreServed`, `HeldMessagesAreShared`, `DeliveryIsImplemented` | Only created envelopes exist anywhere (`OnlyCreated`); what is held is remembered (`HeldIsRemembered`), else a held message could come back as new; a sender remembers what it sends until it expires (`SenderRemembers`), else a lost copy could not be replayed; a copy that a live connection loses is recorded in `missed`, whatever was sent with it; a node is never its own peer (`NeverItsOwnPeer`). The refinement maps `CreateAndSend` and `Register` to `Send`, `Receive` to `Show`, all else to itself or a stutter. |
| `PeerSessionProofs` | `SessionInvariant`, `SessionIsTyped`, `RequestsStayAccountedFor`, `ResponsesCountOnce`, `PingsStayBounded`, `OnlySilenceDisconnects`, `LifetimeStaysExact` | Outcomes, nonces and what is on the way agree (`RequestInv`, `LinkInv`); strikes equal misses (`PingInv`); what was saved is what was counted at the last save (`TrafficInv`); a closed session has no ping left (`ClosedInv`), though it may have requests. |
| `PeerLinksProofs`, the connections | `LinkInvariant`, `LinksAreTyped`, `TablesMatchLinks`, `NoLinkIsHalfOpen`, `QuietNodesAgree` | An end that has closed or failed has taken the connection down (`EndsMatchWire`). `QuietTablesAgree` is not inductive itself: it follows, because in a quiet pair every connection listed at one end is listed at the other, and a table lists one connection only. |
| `PeerLinksProofs`, the stream | `StreamInvariant`, `MessagesAlwaysComeInOrder` | What has been handled is the first messages; the buffer is what was sent after them, as it arrived, and less than a message once there is a handler (`HandlingInv`). The layout of the stream (`SentLayout`) says where each message ends; a flush of a buffer that begins with a message takes the messages off it that are complete, and leaves a beginning of the next (`FlushFramed`, `FlushUnframed`), because the parser moves in the stream as it does in the text of each message alone (`MovesAgree`), also over a character that was cut in two. During the greeting the buffer is all that arrived; its first frame can only have been sent as the greeting, since no message is the same (`GreetingEnds`). |
| `NodeStartupProofs`, the settings | `ConfigInvariant`, `ConfigIsTyped`, `EnvironmentAlwaysWins`, `LiveSettingsStayActive`, `PromisesAreStored`, `PromisesAreUsed` | A running node's locked paths are those of the environment it started in (`LockedIsCurrent`), so that what is stripped from a save is what the next start overrules. |
| `NodeStartupProofs`, the start | `PortInvariant`, `MappingsStayAccountedFor`, `OrderlyExitsLeaveNoMapping`, `LostPeersStayCached`, `StartupImplementsConfig`, `PromisesSurviveStartup`, `StartupIsTyped` | A protocol that has not had its turn has nothing on the gateway (`AskingFollowsBoot`, `LoadsComeFirst`), and once a signal that was not early has come, no handle is pending or up any more (`LateSignalTakesAll`). Until the settings load, `live` is what `createLiveConfig()` makes of some port and address (`LiveInv`); with that each step is a step of `RuntimeConfig` or stutters, so its theorems hold of the start in all its steps. |
| `NodeStartupProofs`, the supervisor | `SupervisorInvariant`, `SupervisorIsTyped`, `OneBackendIsSupervised`, `UpdatesAreNotCrashes`, `ShutdownStaysFinal` | A signalled child is explained by a shutdown or an update (`StopIsExplained`), so that its exit is not taken for a crash; every entry of the history has its crash, and a crash that is not entered yet has room (`CrashesAreEntered`). |
| `StatsFeedProofs` | `TimersStayFew`, `FeedIsTyped`, `OnlyTwoWaysToMiss` | Among the armed timers at most the last is remembered, and at most one is forgotten (`TimersInv`): a report forgets the one it arms only after it has itself ended. What the ref or the rendering holds was queued or is accounted for as overwritten (`ListsInv`), and a page that is open is the one the node pushes to (`FeedInv`). |
| `DashboardProofs` | `InvariantHolds`, `DashboardIsTyped`, `ShownConfigStaysCurrent`, `SpinnerStaysHonest`, `PeerStatsStayItsOwn` | The two queues of the connection, together, keep the order of the requests (`PacketsAreOrdered`), so that the answer on the way that counts is the last one: the page knows the node's settings or a packet that tells them is on its way with nothing older behind it (`SettingsCatchUp`), and a done request of a peer's page whose answer can still come was overtaken by the answer of an earlier page with its nonce (`StatsAreOvertaken`). A save whose answer can come is still open or was given up (`SavesAreOpen`). |
| `SearchProofs` | `SearchInvariant`, `SearchIsTyped`, `OwnResultsAreAlwaysReturned`, `EveryPeerIsAlwaysAsked`, `TrustedVotesAlwaysWin` | The node's results begin with what its plugin found, in its order (`OwnComesFirst`): there are then at least as many contents as the plugin found different results, so that putting back by index keeps that many (`TogetherReturnsOwn`). Who has not been asked is in the list behind the one being asked (`AskedInTurn`). The vote is a statement about every typed state: the sum of votes, a fold over a set of finitely many possible rows (`ConfidencesAreFinite`), is defined for finite sets (`TotalIsDefined`) and has the sign on which its votes agree, with a total weight that is then positive (`TotalHasSign`). |

Theorems whose property no run repeats: the invariants and types; `DialsAreReleased`, `FailuresReachConnectedPeers`,
`ShownStaysRemembered`, `TablesMatchLinks`, `NoLinkIsHalfOpen`, `RequestsStayAccountedFor`, `ResponsesCountOnce`,
`PingsStayBounded`, `EnvironmentAlwaysWins`, `LiveSettingsStayActive`, `PromisesAreStored`, `UpdatesAreNotCrashes`
and the refinement `StartupImplementsConfig`; each holds for every instance, the ones of the runs included.

An assumption on a constant says what the code has: `Search` takes the peers, records and souls that ever
occur to be finite, since the vote adds up a finite table, and the confidences to be multiples of 1/`Full` from -1 to 1,
for any positive `Full`. The provers have no induction over data; where `SearchProofs` needs
one, a least counterexample takes its place, in the well-founded order of the finite subsets of a set (`LeastExists`, `TotalIsDefined`, `TotalHasSign`).
`PeerLinksProofs` goes on from there: a set that holds 0 and with each number the next holds an interval (`UpTo`), a function given
by a first value and a step exists (`Iterates`), and so the recursive functions of `UtpTransport` have the values that their
equations say (`CutIterates`, `ScanIterates`, `EndsIterates`). `UtpTransport` takes any texts on which the parser is in the midst
of an object until the last byte: what `JSON.stringify` gives for an object, which is all that is ever sent.

Model-checked only: the liveness properties
(`DialsEnd`, `ReconnectChainsEnd`, `CrossedConnectionsEnd`, `RecipientIsShown`, `RequestsSettle`,
`SilentPeerIsDropped`, `BackendComesBack`, `SearchesEnd`, `StatsAreShown`, `StartupAndExitEnd`, `PageSettles`), since TLAPS has no
support for `ENABLED` and so for fairness; and `LossStaysLocal`, which bounds the damage of a gap by where in the stream it lies. It
is about the instance's messages, which differ from one another: of two equal ones nobody could say which was lost.

## Disagreements found

The code, its comments and its log lines do not always say the same. What was met while modelling
is part of the models, which allow it; no property denies it.

Connections and messages:

- **"avoid connecting to itself"** is what README.md:165 says the public key is used for. A dial does compare hostname and key
  with the node's own. An inbound uTP connection takes its hostname from the greeting, is authenticated
  without that check (networking/utp/client.ts:38, Node.ts:135) and registered by `add(socket)`, which has none
  (PeerManager.ts:197): a peer that greets with this node's hostname enters the table under the node's own
  address. `PeerConnections` lets it; `NoDialLeadsToItself` speaks of dials.
- What the dialing end of a uTP connection sends when it registers, the history and the held messages, may arrive while the
  other end authenticates it, and is then heard by nobody (networking/utp/client.ts:155). Nothing sends it
  again before the next connection: `RecipientIsServed`, `HeldIsShared` and `RecipientIsShown` except it (`missed`).
- **A reconnect chain can be dropped.** `hasSatisfiedConnection` counts a dial that is
  merely in flight (PeerManager.ts:560); a reconnect timer that fires meanwhile ends the chain
  (PeerManager.ts:751), and if that dial fails its caller does not schedule another. `ReconnectChainsAreAlive`
  speaks of chains that are still counted.
- **"Duplicate socket ...; keeping existing connection"** (PeerManager.ts:202). Two nodes that dial each other may each keep
  their own connection and close the other's, so that neither is kept. `CrossedConnectionsEnd`
  shows that this ends; both then redial after equal delays.
- **"Stored message ...; reached max hops"** (PeerManager.ts:633) is not what happens when the
  recipient is connected: the message is neither stored for it nor relayed to it
  (`missed`, as above).
- Messages to oneself are held: a node is never in its own table, so
  `storeHeldMessageIfOffline` (PeerManager.ts:792) takes it for an offline recipient and
  shares with every new peer what it has just received.
- An inbound uTP connection that closes while its dialer is being authenticated is
  registered afterwards and stays listed: its close event had no listener yet
  (networking/utp/client.ts:31). `QuietTablesAgree` and `CrossedConnectionsEnd` except it (`ghost`).
- The warm-up searches of a peer go on when its session closes (Node.ts:27): each sends over the closed socket
  and waits for its timeout of 15 s, because `close()` has settled the pending requests before.
- Purging the peer cache empties the persisted list while the peers stay connected (PeerManager.ts:418): after a crash
  before the next registration nobody is dialled. `LostPeersAreDialled` excepts it (`purged`).
- A save whose write throws is answered with an error, yet it is in force and the next save
  stores it (RuntimeSettingsManager.ts:258). `PromisedIsStored` only speaks of what was confirmed.
- Any save stores the detected hostname and port with everything else
  (RuntimeSettingsManager.ts:264): a later change of the address, or a port found to be free
  at the next start (config.ts:237), is then overruled by the stored one.
- A value of the environment that `validatePatch` refuses is stored by a save like any other; when the
  environment no longer sets it, `loadFromStorage` ignores the whole stored configuration
  (RuntimeSettingsManager.ts:248). `PromisedIsUsed` excepts it (`Loads`).
- An update applied during the delay before a restart finds no child to stop; the delay launches
  the new version, and `updateRestartPending` stays set (scripts/start.ts:204): the update timer then
  returns early at every turn (scripts/start.ts:165), although README.md:56 says updates are checked
  "periodically", until the backend next exits, which passes for an update and not for a crash.
- A signal during that delay is not looked at when it ends: a backend is launched, and the supervisor
  stays until that one exits. `ShutdownIsFinal` excepts it.
- A restart from the settings page under the supervisor leaves two backends: the detached one that
  Peer.ts:160 spawns, and the one the supervisor launches because its child has exited.
- A pull whose dependencies cannot be installed (scripts/start.ts:101) leaves the new version in
  the tree: the next check finds nothing to do, and the next crash launches it.

Search:

- Local results are put back by their index into a set of contents in which duplicates have collapsed and
  which begins with what the peers sent (Node.ts:78). Results are then filed under the hash of others; what the plugin has just found survives
  if it is found once (`OwnResultsAreReturned`), cached results may not. Of a list that repeats a result (A, A, B) the code that
  is to "Inject local results" loses B: there are two contents, and B stands at the third place.
- A record's confidence comes from its sender, from -1 to 1 (src/src/types/hydrabase-schemas.ts:21), and its vote is weighed by it
  (metadata/index.ts:8): the record of a distrusted peer with confidence -1 counts in favour, and the sum of
  the weights may be negative or nothing. `TrustedVotesWin` speaks of records with a positive confidence.
- The schema of a response is not that of its request (src/src/types/hydrabase-schemas.ts:69): tracks in answer to a search for artists
  throw when they are stored (db/repositories/ArtistRepository.ts:44); the search ends with an error
  and the remaining peers are not asked. `EveryPeerIsAsked` speaks of searches that return.
- No stored track or album has the id of its artist, so the lookup of cached tracks by artist never
  finds any; and a lookup without ids has no condition and returns the whole table (`CachedTracks`).
- The hash of a peer's record includes its address and confidence, those of the confirmed ones do not
  (PeerManager.ts:58): they never match. A peer without a known plugin gets the average of nothing
  (PeerManager.ts:67), which is NaN. Neither is modelled.
- A peer that has gone has confidence 0, so that all its stored records count as votes against (metadata/index.ts:8).

Startup and port mapping:

- UPnP maps the port of the environment or the default, before the stored one is loaded
  (Node.ts:103, :111); the server then listens on the stored one.
- A restart over the API starts the successor before this process exits, and releases no mapping (Peer.ts:156). A second signal exits before
  the release has ended (index.ts:102); an early one lets `startNode()` map the second protocol
  while the process ends. `OrderlyExitLeavesNoMapping` excepts these.
- Every registration replaces the persisted list of peers (PeerManager.ts:237), and it is read only after the bootstrap
  dials: a bootstrap peer that answers makes the node forget the others. `LostPeersAreDialled` excepts it (`joined`).
- The second alternative of the condition at networking/dht.ts:56 cannot hold: without `requireReady` the node still
  waits until it is connected.

The page:

- Until the first full report the page may take `0x0` for the node's address (src/src/frontend/utils.ts:177) and then drops
  direct messages; and a message handled between an update and its effect (src/src/frontend/App.tsx:302) overwrites the update.
  These are the two ways of `MissesOnlyInTwoWays`.
- A report forgets the timer armed while it was sent (StatsReporter.ts:104), so that reports go on by themselves while the page is connected, whatever
  the traffic. Only before the first of them does traffic without a pause of a second let no report through.
- The peers of a report are shown when all their countries are known (src/src/frontend/App.tsx:515): the list of an older report may
  replace that of a newer one, and a lookup that fails leaves the old list in place. A later report mends both.
- Leaving the settings tab forgets that a save is under way, so that two may overlap; the late answer of one that timed out is ignored, and the page shows the old
  settings until the next snapshot (`ShownConfigIsCurrent` excepts it).
- The nonces of a peer's page start again at each opening (src/src/frontend/components/PeerDetail.tsx:238): a late answer may
  be taken for that of another peer.
- A refused inbound connection from a host fails the page's pending attempt to that host, and the restart flag is cleared by any reconnection.

uTP:

- Data that arrives while an inbound peer is being authenticated is heard by nobody (networking/utp/client.ts:155). With delimiters
  the next message but one is whole again; without them nothing may be, ever after.
- Each chunk is decoded on its own (networking/utp/client.ts:29): a character cut in two becomes two replacement characters.
- A greeting that comes in one chunk with a large first message is refused (networking/utp/client.ts:162).

## What is not modelled

- **Content.** Signatures (taken to be unforgeable), JSON and schema validation, the content of
  requests and metadata, the plugins' web services, the SQL of the repositories beyond upserts and lookups, logging, traces, versions' comparison, bundling and file watching.
- **Libraries.** The DHT, node-portmapping, the uTP library, the browser and React appear only through what the code sees of them.
- **Settings.** The parsing of values, `node.ip`, and the fallback of `preferTransport` on a node without uTP.
- **Startup.** The fallback of the uTP socket when its port is taken, leases that expire on the gateway, the page's own entry in the persisted list.
- **Search.** The averaging of plugin matches into a peer's confidence, which is arithmetic over reals; `Search` takes a simple
  fraction for it. Albums, which take the same code as tracks. Confidences of records of tracks, which no vote reads.
- **The page.** Layout, the read state, the search history, a second page at the same time; React's updates are immediate in
  `Dashboard`, and delayed where that matters, in `StatsFeed`. A peer's page is not opened while the socket is connecting, because the
  browser throws there (src/src/frontend/components/PeerDetail.tsx:232).
- **Statistics.** What is counted, who announced whom, the pulse history.

The components' status in `PROJECT.json` says the same part by part.

## The plan

Done: all of the modules above, all with proofs. What would add most next:

1. An abstract specification of connectivity (a pair is connected or not, and each side
   learns of it) that `PeerLinks` implements.
2. The composition of `NodeStartup` with `Supervisor`, whose signals and restarts cause its ends.
3. `LossStaysLocal` for any messages: `StreamInv` stops at the first byte that nobody heard; beyond it the
   buffer begins in the midst of a message, and the next delimiter is what brings the two sides together again.
