---------------------------- MODULE RuntimeConfig ----------------------------
(***************************************************************************)
(* The configuration of a node over its restarts: what createLiveConfig()  *)
(* finds in the environment and on the machine, what RuntimeSettings-      *)
(* Manager loads from the database over it, and what the settings page     *)
(* changes while the node runs.  There are four copies of a setting: the   *)
(* environment's, the stored one, the desired one the page shows and the   *)
(* active one the node uses.                                               *)
(***************************************************************************)
EXTENDS Naturals, FiniteSets

CONSTANTS
  LivePath,      \* settings that take effect at once: username, bio, formulas, ...
                 \* (but preferTransport, which a node without uTP changes by itself)
  RestartPath,   \* settings that take effect at the next start: dht.roomSeed, rpc.prefix, ...
  HostPath,      \* node.hostname: the public address unless set
  PortPath,      \* node.port: the next free port from the requested one
  Choice,        \* Choice[p]: the values somebody may give to the setting p
  Valid,         \* the values that validatePatch() accepts
  Default,       \* Default[p]: the value of p that is built in
  Address,       \* public addresses of the machine
  FreePort,      \* ports resolvePort() may find
  PatchSize,     \* bound: settings changed by one save
  None

Path == LivePath \cup RestartPath \cup {HostPath, PortPath}

Value == (UNION {Choice[p] : p \in Path}) \cup {Default[p] : p \in Path} \cup Address \cup FreePort

Config == [Path -> Value]

ASSUME ConfigAssumption ==
  /\ None \notin Value \cup Config
  /\ LivePath \cap (RestartPath \cup {HostPath, PortPath}) = {}
  /\ HostPath # PortPath

VARIABLES
  env,       \* env[p]: the value the environment gives to p, or None
  address,   \* the public address of the machine
  stored,    \* the configuration in the database, or None
  node,      \* the running node, or None
  promised   \* history: promised[p] is what the page was last told that p is and
             \* will be at the next start, or None

vars == <<env, address, stored, node, promised>>

\* active, desired: RuntimeSettingsManager.  locked: the paths set in the environment.
\* serving: the HTTP server is up, and with it the settings page.
Node == [active : Config, desired : Config, locked : SUBSET Path, serving : BOOLEAN]

TypeOK ==
  /\ env \in [Path -> Value \cup {None}]
  /\ address \in Address
  /\ stored \in Config \cup {None}
  /\ node \in Node \cup {None}
  /\ promised \in [Path -> Value \cup {None}]

Init ==
  /\ env \in {e \in [Path -> Value \cup {None}] : \A p \in Path : e[p] \in Choice[p] \cup {None}}
  /\ address \in Address
  /\ stored = None
  /\ node = None
  /\ promised = [p \in Path |-> None]

-----------------------------------------------------------------------------
(* Starting. *)

Locked == {p \in Path : env[p] # None}

\* createLiveConfig() and resolvePort(): the environment over the defaults, the address
\* that was found for the hostname, and the port that resolvePort() found
LiveConfig(port, found) ==
  [p \in Path |-> IF p = PortPath THEN port
                  ELSE IF p \in Locked THEN env[p]
                  ELSE IF p = HostPath THEN found ELSE Default[p]]

\* loadFromStorage() drops what is stored for locked paths, and everything if one of the
\* remaining values is invalid.
Loads == stored # None /\ \A p \in Path \ Locked : stored[p] \in Valid

Loaded(config) ==
  [p \in Path |-> IF Loads /\ p \notin Locked THEN stored[p] ELSE config[p]]

\* loadFromStorage() over what createLiveConfig() made; no setting is pending any more.
\* The history forgets what is overruled: a locked setting, and all when nothing loads.
Load(live) ==
  /\ node = None
  /\ node' = [active |-> Loaded(live), desired |-> Loaded(live), locked |-> Locked, serving |-> FALSE]
  /\ promised' = [p \in Path |-> IF Loads /\ p \notin Locked THEN promised[p] ELSE None]
  /\ UNCHANGED <<env, address, stored>>

\* startNode() up to the HTTP server; the address may have changed since it was found.
Start == \E port \in FreePort, found \in Address : Load(LiveConfig(port, found))

\* startServer(); it fails when the port is taken.
Serve ==
  /\ node # None /\ ~node.serving
  /\ node' = [node EXCEPT !.serving = TRUE]
  /\ UNCHANGED <<env, address, stored, promised>>

-----------------------------------------------------------------------------
(* The settings page. *)

\* What somebody may save
Patch(paths) == {patch \in [paths -> Value] : \A p \in paths : patch[p] \in Choice[p]}

\* stripEnvLockedFields() keeps these of a patch.
Kept(patch) == DOMAIN patch \ node.locked

\* applyPatch() to the desired configuration
Patched(config, patch) == [p \in Path |-> IF p \in Kept(patch) THEN patch[p] ELSE config[p]]

\* applyLivePatchToActive()
PatchedLive(config, patch) ==
  [p \in Path |-> IF p \in Kept(patch) \cap LivePath THEN patch[p] ELSE config[p]]

\* update() past validatePatch(): the patch is applied.
Apply(patch) ==
  /\ node # None /\ node.serving
  /\ \A p \in Kept(patch) : patch[p] \in Valid
  /\ node' = [node EXCEPT !.desired = Patched(node.desired, patch),
                          !.active  = PatchedLive(node.active, patch)]
  /\ UNCHANGED <<env, address>>

\* Mutant of Save: what the node uses is saved, not what is desired.
SaveActive(patch) ==
  /\ Apply(patch)
  /\ stored' = node'.active
  /\ promised' = [p \in Path |-> IF p \in node.locked THEN None ELSE node'.desired[p]]

\* The whole desired configuration is written, and the page is answered with it.
Save(patch) ==
  /\ Apply(patch)
  /\ stored' = node'.desired
  /\ promised' = [p \in Path |-> IF p \in node.locked THEN None ELSE node'.desired[p]]

\* The write throws after the patch was applied, and the page is answered with an error.
SaveFails(patch) ==
  /\ Apply(patch)
  /\ UNCHANGED <<stored, promised>>

-----------------------------------------------------------------------------
(* The node's surroundings. *)

\* The node exits or crashes.
Stop ==
  /\ node # None
  /\ node' = None
  /\ UNCHANGED <<env, address, stored, promised>>

\* The operator edits the environment of the next start.
EditEnvironment(p) ==
  /\ node = None
  /\ \E v \in Choice[p] \cup {None} : env' = [env EXCEPT ![p] = v]
  /\ UNCHANGED <<address, stored, node, promised>>

\* The provider assigns another address.
ChangeAddress ==
  /\ address' \in Address
  /\ UNCHANGED <<env, stored, node, promised>>

Next ==
  \/ Start \/ Serve \/ Stop \/ ChangeAddress
  \/ \E p \in Path : EditEnvironment(p)
  \/ \E paths \in {s \in SUBSET Path : s # {} /\ Cardinality(s) =< PatchSize} :
       \E patch \in Patch(paths) : Save(patch) \/ SaveFails(patch)

Spec == Init /\ [][Next]_vars

-----------------------------------------------------------------------------
(* Properties. *)

\* What the environment sets is what the node uses and shows, whatever is stored or
\* saved (the port excepted: another one is taken when it is in use).
EnvironmentWins ==
  node # None =>
    \A p \in node.locked \ {PortPath} : node.active[p] = env[p] /\ node.desired[p] = env[p]

\* A setting of liveUpdatePaths never waits for a restart, even when its write failed:
\* pendingRestartPaths, which leaves these paths out, is all that is pending.
LiveSettingsAreActive ==
  node # None => \A p \in LivePath : node.active[p] = node.desired[p]

\* What the page was told of a save survives crashes, failed saves and edits of the environment ...
PromisedIsStored ==
  \A p \in Path : promised[p] # None => stored # None /\ stored[p] = promised[p]

\* ... and is what the node uses from its next start on.
PromisedIsUsed ==
  [][ node = None /\ node' # None =>
        \A p \in Path : promised'[p] # None => node'.active[p] = promised'[p] ]_vars

=============================================================================
