---------------------------- MODULE NodeStartup ----------------------------
(***************************************************************************)
(* The life of a node's process, from startNode() to its end: the ports    *)
(* that requestPort() forwards on the gateway, one protocol after the      *)
(* other, the settings, the server, the peers that loadCache() dials and   *)
(* the DHT; and the signals, restart requests and crashes that may come at *)
(* any of these steps.  RuntimeConfig takes the start as one step; here    *)
(* the configuration of the environment is made before the ports are       *)
(* requested, and what is stored is loaded over it after that.             *)
(***************************************************************************)
EXTENDS RuntimeConfig

CONSTANTS
  Host,          \* hostnames of peers
  Bootstrap,     \* those of them in BOOTSTRAP_PEERS
  RequireReady,  \* CONFIG.dht.requireReady
  MaxStarts      \* bound: processes started

ASSUME StartupAssumption ==
  /\ Bootstrap \subseteq Host
  /\ RequireReady \in BOOLEAN
  /\ MaxStarts \in Nat \ {0}

VARIABLES
  boot,     \* where startNode() is
  live,     \* the configuration that createLiveConfig() made, or None
  asking,   \* requestPort(): the protocol it is at, or "done"
  stage,    \* createPortMapping() waits for a "load" of the library, for the loaded
            \* "module", or for an "answer"
  module,   \* portMappingModulePromise: "none", "set", or "failed" (portMappingInitError)
  handle,   \* handle[p]: what the library does for the mapping of p
  active,   \* activeMappings
  exit,     \* "no", or what the first signal made of the process
  toDial,   \* the hostnames loadCache() has yet to dial
  peers,    \* the hostnames of the connected peers
  cached,   \* the table of WsServerRepository
  dht,      \* what the DHT node has reached
  starts,   \* processes started
  lost,     \* history: the peers that were connected when the last process ended, but for
            \* those it was told to forget
  early,    \* history: the first signal came before requestPort() had ended
  joined,   \* history: a peer has connected to this process
  purged    \* history: since the last one connected, the user has had the peers forgotten

configVars == <<env, address, stored, node, promised>>
portVars   == <<asking, stage, module, handle, active>>
peerVars   == <<toDial, peers, cached, dht>>
pastVars   == <<starts, lost, early, joined, purged>>
startupVars == <<vars, boot, live, portVars, exit, peerVars, pastVars>>

Protocol == {"TCP", "UDP"}

\* The library's states of a mapping, which are the gateway's for "up" and "deleting"
Handle == {"none", "pending", "up", "deleting"}

StartupTypeOK ==
  /\ TypeOK
  /\ boot \in {"off", "ports", "settings", "server", "bootstrap", "dials", "ready", "failed"}
  /\ live \in Config \cup {None}
  /\ asking \in Protocol \cup {"done"} /\ stage \in {"load", "module", "answer"}
  /\ module \in {"none", "set", "failed"}
  /\ handle \in [Protocol -> Handle] /\ active \subseteq Protocol
  /\ exit \in {"no", "loading", "cleaning", "over"}
  /\ toDial \subseteq Host /\ peers \subseteq Host /\ cached \subseteq Host
  /\ dht \subseteq {"connected", "ready", "announcing"}
  /\ starts \in 0..MaxStarts /\ lost \subseteq Host /\ early \in BOOLEAN
  /\ joined \in BOOLEAN /\ purged \in BOOLEAN

\* What a process starts with
Fresh ==
  /\ live' = None
  /\ asking' = "TCP" /\ stage' = "load" /\ module' = "none"
  /\ handle' = [p \in Protocol |-> "none"] /\ active' = {}
  /\ exit' = "no"
  /\ toDial' = {} /\ peers' = {} /\ dht' = {}
  /\ early' = FALSE /\ joined' = FALSE /\ purged' = FALSE

StartupInit ==
  /\ Init
  /\ boot = "off" /\ live = None
  /\ asking = "TCP" /\ stage = "load" /\ module = "none"
  /\ handle = [p \in Protocol |-> "none"] /\ active = {}
  /\ exit = "no"
  /\ toDial = {} /\ peers = {} /\ cached = {} /\ dht = {}
  /\ starts = 0 /\ lost = {} /\ early = FALSE /\ joined = FALSE /\ purged = FALSE

-----------------------------------------------------------------------------
(* The ports. *)

\* createLiveConfig(), up to the import of the library for the first port
Boot ==
  /\ boot = "off" /\ starts < MaxStarts
  /\ boot' = "ports" /\ starts' = starts + 1
  /\ \E port \in FreePort : live' = LiveConfig(port, address)
  /\ module' = "set"
  /\ UNCHANGED <<configVars, asking, stage, handle, active, exit, peerVars, lost, early,
                 joined, purged>>

\* The promise of createPortMapping() settles; an error is only written down.  The next
\* protocol is asked for, with the library loaded again if it was let go.
NextPort ==
  IF asking = "TCP"
  THEN /\ asking' = "UDP"
       /\ stage' = IF module = "set" THEN "module" ELSE "load"
       /\ module' = "set"
       /\ UNCHANGED boot
  ELSE asking' = "done" /\ boot' = "settings" /\ UNCHANGED <<stage, module>>

\* The library cannot be loaded or initialised, which portMappingInitError remembers:
\* the next protocol fails at once, and the cleanup of an early signal too.
ModuleFails ==
  /\ boot = "ports" /\ stage = "load"
  /\ module' = "failed" /\ asking' = "done" /\ boot' = "settings"
  /\ exit' = IF exit = "loading" THEN "over" ELSE exit
  /\ UNCHANGED <<configVars, live, stage, handle, active, peerVars, pastVars>>

\* mapping.destroy(): the library takes back what it asked of the gateway.
Destroyed(p) == IF handle[p] = "none" THEN "none" ELSE "deleting"

\* The library creates the mapping (there is none yet that removeActiveMapping() would
\* destroy: each protocol is asked for once).  The cleanup of a signal that came during
\* the load runs next, and destroys it.
CreateMapping ==
  /\ boot = "ports" /\ stage \in {"load", "module"}
  /\ stage' = "answer"
  /\ handle' = [handle EXCEPT ![asking] = IF exit = "loading" THEN "deleting" ELSE "pending"]
  /\ exit' = IF exit = "loading" THEN "cleaning" ELSE exit
  /\ UNCHANGED <<configVars, boot, live, asking, module, active, peerVars, pastVars>>

\* Success, as the callback or the eager read tells it
MappingSucceeds ==
  /\ boot = "ports" /\ stage = "answer" /\ handle[asking] = "up"
  /\ active' = active \cup {asking}
  /\ NextPort
  /\ UNCHANGED <<configVars, live, handle, exit, peerVars, pastVars>>

\* Failure or Destroyed: the gateway refuses, or the library is cleaned up.
MappingFails ==
  /\ boot = "ports" /\ stage = "answer" /\ handle[asking] # "up"
  /\ handle' = [handle EXCEPT ![asking] = Destroyed(asking)]
  /\ NextPort
  /\ UNCHANGED <<configVars, live, active, exit, peerVars, pastVars>>

\* Mutant of MappingTimesOut: the handle is left to itself.
MappingTimesOutKept ==
  /\ boot = "ports" /\ stage = "answer"
  /\ NextPort
  /\ UNCHANGED <<configVars, live, handle, active, exit, peerVars, pastVars>>

\* Mutant of MappingTimesOut: the handle is destroyed, and the promise never settles.
MappingTimesOutUnsettled ==
  /\ boot = "ports" /\ stage = "answer"
  /\ handle' = [handle EXCEPT ![asking] = Destroyed(asking)]
  /\ UNCHANGED <<configVars, boot, live, asking, stage, module, active, exit, peerVars, pastVars>>

\* No answer in five seconds; one that comes later finds the observer settled.
MappingTimesOut ==
  /\ boot = "ports" /\ stage = "answer"
  /\ handle' = [handle EXCEPT ![asking] = Destroyed(asking)]
  /\ NextPort
  /\ UNCHANGED <<configVars, live, active, exit, peerVars, pastVars>>

\* The library and the gateway, on their own
Library(p) ==
  /\ \/ handle[p] = "pending"  /\ handle' = [handle EXCEPT ![p] = "up"]
     \/ handle[p] = "deleting" /\ handle' = [handle EXCEPT ![p] = "none"]
  /\ UNCHANGED <<configVars, boot, live, asking, stage, module, active, exit, peerVars, pastVars>>

-----------------------------------------------------------------------------
(* The end of the process. *)

\* Mutant of Signal: without known mappings, there is nothing to wait for.
SignalWithoutMappings ==
  /\ boot # "off" /\ exit = "no"
  /\ exit' = IF active = {} THEN "over" ELSE "cleaning"
  /\ handle' = [p \in Protocol |-> IF active = {} THEN handle[p] ELSE Destroyed(p)]
  /\ active' = {}
  /\ module' = IF module = "set" THEN "none" ELSE module
  /\ early' = (asking # "done")
  /\ UNCHANGED <<configVars, boot, live, asking, stage, peerVars, starts, lost, joined,
                 purged>>

\* The first signal: releasePortLeases() lets the library go, and its cleanup() takes
\* every mapping back, as soon as a load that was on its way has ended.
Signal ==
  /\ boot # "off" /\ exit = "no"
  /\ exit' = IF module # "set" THEN "over"
             ELSE IF asking = "TCP" /\ stage = "load" THEN "loading" ELSE "cleaning"
  /\ handle' = [p \in Protocol |-> Destroyed(p)]
  /\ active' = {}
  /\ module' = IF module = "set" THEN "none" ELSE module
  /\ early' = (asking # "done")
  /\ UNCHANGED <<configVars, boot, live, asking, stage, peerVars, starts, lost, joined,
                 purged>>

\* The process ends: what it knew is gone; the database stays, and so does a mapping that
\* the gateway still has.
End ==
  /\ boot' = "off" /\ node' = None
  /\ lost' = IF ~joined THEN lost ELSE IF purged THEN {} ELSE peers
  /\ Fresh
  /\ UNCHANGED <<env, address, stored, promised, cached, starts>>

\* process.exit(0) once nothing is left that cleanup() takes back
Exit ==
  /\ \/ exit = "over"
     \/ exit = "cleaning" /\ \A p \in Protocol : handle[p] # "deleting"
  /\ End

\* A second signal finds isShuttingDown set and has nothing to wait for; the restart that
\* the page asks for and a crash release nothing either.
Stops == boot # "off" /\ End

-----------------------------------------------------------------------------
(* The settings, the server, the peers and the DHT. *)

LoadSettings ==
  /\ boot = "settings" /\ Load(live)
  /\ boot' = "server"
  /\ UNCHANGED <<live, portVars, exit, peerVars, pastVars>>

\* startServer(); loadCache() dials the bootstrap peers.
StartServer ==
  /\ boot = "server" /\ Serve
  /\ boot' = "bootstrap" /\ toDial' = Bootstrap
  /\ UNCHANGED <<live, portVars, exit, peers, cached, dht, pastVars>>

\* The stored port is in use: startNode() ends with an error, and the process goes on.
ServerFails ==
  /\ boot = "server"
  /\ boot' = "failed"
  /\ UNCHANGED <<configVars, live, portVars, exit, peerVars, pastVars>>

Up == boot \in {"bootstrap", "dials", "ready"}

\* Mutant of Register: the table is written before the peer is listed.
RegisterTooEarly(h) ==
  /\ h \notin peers
  /\ peers' = peers \cup {h} /\ cached' = peers /\ joined' = TRUE /\ purged' = FALSE

\* PeerManager.add() lists a peer and replaces the table by the peers that are connected.
Register(h) ==
  /\ h \notin peers
  /\ peers' = peers \cup {h} /\ cached' = peers' /\ joined' = TRUE /\ purged' = FALSE

\* loadCache() dials the bootstrap peers at once, the cached ones in turn; a dial
\* connects, fails, or finds the peer connected.
Dial(h) ==
  /\ Up /\ h \in toDial
  /\ Register(h) \/ UNCHANGED <<peers, cached, joined, purged>>
  /\ toDial' = toDial \ {h}
  /\ UNCHANGED <<configVars, boot, live, portVars, exit, dht, starts, lost, early>>

\* Only now the table is read.
ReadCache ==
  /\ boot = "bootstrap" /\ toDial = {}
  /\ boot' = "dials" /\ toDial' = cached \ Bootstrap
  /\ UNCHANGED <<configVars, live, portVars, exit, peers, cached, dht, pastVars>>

EndStartup ==
  /\ boot = "dials" /\ toDial = {}
  /\ boot' = "ready"
  /\ UNCHANGED <<configVars, live, portVars, exit, peerVars, pastVars>>

\* A peer connects from outside, or is found by the DHT.
Inbound(h) ==
  /\ Up /\ Register(h)
  /\ UNCHANGED <<configVars, boot, live, portVars, exit, toDial, dht, starts, lost, early>>

\* The settings page connects; its entry of the table leads nowhere and is left out.
PageConnects ==
  /\ Up
  /\ cached' = peers /\ joined' = TRUE /\ purged' = FALSE
  /\ UNCHANGED <<configVars, boot, live, portVars, exit, toDial, peers, dht, starts, lost, early>>

\* purgePeerCache(), on request of a page that has connected: the table is emptied, the
\* peers stay connected.
PurgePeerCache ==
  /\ Up /\ joined
  /\ cached' = {} /\ purged' = TRUE
  /\ UNCHANGED <<configVars, boot, live, portVars, exit, toDial, peers, dht, starts, lost, early,
                 joined>>

\* A connection closes, which leaves the table as it is.
Depart(h) ==
  /\ h \in peers
  /\ peers' = peers \ {h}
  /\ UNCHANGED <<configVars, boot, live, portVars, exit, toDial, cached, dht, pastVars>>

\* The DHT has bootstrapped, or knows of other nodes.
DhtReaches(what) ==
  /\ Up /\ what \in {"ready", "connected"} \ dht
  /\ dht' = dht \cup {what}
  /\ UNCHANGED <<configVars, boot, live, portVars, exit, toDial, peers, cached, pastVars>>

\* isReady() polls every second, and announces the node when all is resolved.
Announce ==
  /\ boot = "ready" /\ "announcing" \notin dht
  /\ "connected" \in dht /\ (RequireReady => "ready" \in dht)
  /\ dht' = dht \cup {"ready", "announcing"}
  /\ UNCHANGED <<configVars, boot, live, portVars, exit, toDial, peers, cached, pastVars>>

-----------------------------------------------------------------------------

\* The settings and the surroundings of RuntimeConfig
Surroundings ==
  /\ \/ ChangeAddress
     \/ boot = "off" /\ \E p \in Path : EditEnvironment(p)
     \/ \E paths \in {s \in SUBSET Path : s # {} /\ Cardinality(s) =< PatchSize} :
          \E patch \in Patch(paths) : Save(patch) \/ SaveFails(patch)
  /\ UNCHANGED <<boot, live, portVars, exit, peerVars, pastVars>>

StartupNext ==
  \/ Boot \/ ModuleFails \/ CreateMapping \/ MappingSucceeds \/ MappingFails \/ MappingTimesOut
  \/ \E p \in Protocol : Library(p)
  \/ Signal \/ Exit \/ Stops
  \/ LoadSettings \/ StartServer \/ ServerFails \/ ReadCache \/ EndStartup
  \/ \E h \in Host : Dial(h) \/ Inbound(h) \/ Depart(h)
  \/ PageConnects \/ PurgePeerCache \/ (\E what \in {"ready", "connected"} : DhtReaches(what)) \/ Announce
  \/ Surroundings

\* startNode() goes on, the library loads and cleans up, and the timers fire: the one of
\* five seconds for a mapping, the one of isReady() and those of a dial.  Neither the
\* gateway nor the DHT need ever answer.
Fairness ==
  /\ WF_startupVars( \/ CreateMapping \/ ModuleFails \/ MappingTimesOut
                     \/ LoadSettings \/ StartServer \/ ServerFails
                     \/ (\E h \in Host : Dial(h)) \/ ReadCache \/ EndStartup )
  /\ WF_startupVars(Announce)
  /\ WF_startupVars(\E p \in Protocol : handle[p] = "deleting" /\ Library(p))
  /\ WF_startupVars(Exit)

StartupSpec == StartupInit /\ [][StartupNext]_startupVars /\ Fairness

-----------------------------------------------------------------------------
(* Properties. *)

\* A mapping the gateway has or may get is known to activeMappings or has an observer
\* that is still to settle, whatever was answered late, refused or released.
MappingsAreAccountedFor ==
  \A p \in Protocol :
    handle[p] \in {"pending", "up"} => p \in active \/ (asking = p /\ stage = "answer")

\* A process that is told to end leaves no mapping on the gateway, if it is told once
\* and not before both protocols are settled: then the second port may still be asked
\* for by the process that is ending.
OrderlyExitLeavesNoMapping ==
  [][ Exit /\ ~early => \A p \in Protocol : handle[p] = "none" ]_startupVars

\* The peers that were connected when the last process ended or crashed are dialled by
\* the next one, unless the user had them forgotten and nobody has connected since, or
\* somebody connects before the table is read: already a bootstrap peer that answers
\* replaces the table.
LostPeersAreDialled ==
  [][ boot = "bootstrap" /\ boot' = "dials" /\ ~joined => lost \subseteq toDial' \cup Bootstrap ]_startupVars

\* Whatever the gateway does, startNode() comes to an end, a node that has reached the
\* DHT is announced, and a signal ends the process.
StartupAndExitEnd ==
  /\ boot # "off" ~> boot \in {"ready", "failed", "off"}
  /\ boot = "ready" /\ {"ready", "connected"} \subseteq dht ~> "announcing" \in dht \/ boot = "off"
  /\ exit # "no" ~> boot = "off"

=============================================================================
