-------------------------- MODULE NodeStartupProofs --------------------------
(***************************************************************************)
(* Proofs about the processes of a node, for any settings, hosts, signals  *)
(* and numbers of processes: the settings, the mappings on the gateway,    *)
(* the table of cached peers, that a start in all its steps is a start as  *)
(* RuntimeConfig has it, and the supervisor, a process of its own that     *)
(* shares no variable with the others.                                     *)
(***************************************************************************)
EXTENDS NodeStartup, Supervisor, TLAPS

-----------------------------------------------------------------------------
(* The settings. *)

\* The environment of a running node does not change.
LockedIsCurrent == node # None => node.locked = Locked

IInv == TypeOK /\ LockedIsCurrent /\ EnvironmentWins /\ LiveSettingsAreActive /\ PromisedIsStored

\* What a start reads is a configuration with the values of the environment.
LEMMA LoadedConfig ==
  ASSUME TypeOK, NEW port \in FreePort, NEW found \in Address
  PROVE  LET config == Loaded(LiveConfig(port, found))
         IN  /\ config \in Config
             /\ \A p \in Locked \ {PortPath} : config[p] = env[p]
             /\ \A p \in Path : Loads /\ p \notin Locked => config[p] = stored[p]
<1> DEFINE made == LiveConfig(port, found)
<1>1. \A p \in Path : made[p] \in Value
  BY DEF TypeOK, LiveConfig, Locked, Value
<1>2. \A p \in Locked \ {PortPath} : made[p] = env[p]
  BY DEF LiveConfig, Locked
<1>3. \A p \in Path : Loads => stored[p] \in Value
  BY DEF TypeOK, Loads, Config
<1> QED BY <1>1, <1>2, <1>3 DEF Loaded, Config, Locked

LEMMA StartStep ==
  ASSUME IInv, Start
  PROVE  /\ IInv'
         /\ \A p \in Path : promised'[p] # None => node'.active[p] = promised'[p]
<1>1. PICK port \in FreePort, found \in Address :
        LET config == Loaded(LiveConfig(port, found))
        IN  node' = [active |-> config, desired |-> config, locked |-> Locked, serving |-> FALSE]
  BY DEF Start, Load
<1> DEFINE config == Loaded(LiveConfig(port, found))
<1>2. /\ config \in Config
      /\ \A p \in Locked \ {PortPath} : config[p] = env[p]
      /\ \A p \in Path : Loads /\ p \notin Locked => config[p] = stored[p]
  BY LoadedConfig DEF IInv
<1> HIDE DEF config
<1>3. /\ node'.active = config /\ node'.desired = config /\ node'.locked = Locked
      /\ node' \in Node
  BY <1>1, <1>2 DEF Node, Locked, config
<1>4. UNCHANGED <<env, address, stored>> /\ Locked' = Locked BY DEF Start, Load, Locked
<1>5. \A p \in Path : promised'[p] = IF Loads /\ p \notin Locked THEN promised[p] ELSE None
  BY DEF Start, Load
<1>6. TypeOK' BY <1>3, <1>4, <1>5 DEF IInv, TypeOK, Start, Load
<1>7. PromisedIsStored' BY <1>4, <1>5 DEF IInv, PromisedIsStored
<1>8. \A p \in Path : promised'[p] # None => node'.active[p] = promised'[p]
  BY <1>2, <1>3, <1>5 DEF IInv, PromisedIsStored
<1>9. LockedIsCurrent' /\ EnvironmentWins' /\ LiveSettingsAreActive'
  BY <1>2, <1>3, <1>4 DEF LockedIsCurrent, EnvironmentWins, LiveSettingsAreActive
<1> QED BY <1>6, <1>7, <1>8, <1>9 DEF IInv

\* Applying a patch keeps everything that is said of the node.
LEMMA ApplyStep ==
  ASSUME IInv, NEW paths \in SUBSET Path, NEW patch \in Patch(paths), Apply(patch)
  PROVE  /\ node' \in Node /\ node'.locked = node.locked
         /\ LockedIsCurrent' /\ EnvironmentWins' /\ LiveSettingsAreActive'
<1>1. node \in Node /\ node # None BY DEF Apply, IInv, TypeOK
<1>2. DOMAIN patch = paths /\ \A p \in paths : patch[p] \in Value BY DEF Patch
<1>3. Patched(node.desired, patch) \in Config /\ PatchedLive(node.active, patch) \in Config
  BY <1>1, <1>2 DEF Node, Config, Patched, PatchedLive, Kept
<1>4. /\ node' \in Node /\ node'.locked = node.locked
      /\ node'.desired = Patched(node.desired, patch) /\ node'.active = PatchedLive(node.active, patch)
  BY <1>1, <1>3 DEF Apply, Node
<1>6. Locked' = Locked BY DEF Apply, Locked
<1>7. LockedIsCurrent' BY <1>1, <1>4, <1>6 DEF IInv, LockedIsCurrent
<1>8. EnvironmentWins'
  BY <1>1, <1>4 DEF IInv, EnvironmentWins, Apply, Patched, PatchedLive, Kept, Node
<1>9. LiveSettingsAreActive'
  BY <1>1, <1>4 DEF IInv, LiveSettingsAreActive, Patched, PatchedLive, Kept, Path
<1> QED BY <1>4, <1>7, <1>8, <1>9

LEMMA SaveSteps ==
  ASSUME IInv, NEW paths \in SUBSET Path, NEW patch \in Patch(paths), Save(patch) \/ SaveFails(patch)
  PROVE  IInv'
<1>1. Apply(patch) BY DEF Save, SaveFails
<1>2. /\ node' \in Node /\ node'.locked = node.locked
      /\ LockedIsCurrent' /\ EnvironmentWins' /\ LiveSettingsAreActive'
  BY <1>1, ApplyStep
<1>3. CASE Save(patch)
  <2>1. stored' = node'.desired /\ node'.desired \in Config BY <1>2, <1>3 DEF Save, Node
  <2>2. promised' = [p \in Path |-> IF p \in node.locked THEN None ELSE node'.desired[p]]
    BY <1>3 DEF Save
  <2>3. TypeOK' BY <1>1, <1>2, <2>1, <2>2 DEF IInv, TypeOK, Apply, Config
  <2>4. PromisedIsStored' BY <2>1, <2>2, ConfigAssumption DEF PromisedIsStored
  <2> QED BY <1>2, <2>3, <2>4 DEF IInv
<1>4. CASE SaveFails(patch)
  <2>1. TypeOK' BY <1>1, <1>2, <1>4 DEF IInv, TypeOK, Apply, SaveFails
  <2>2. PromisedIsStored' BY <1>4 DEF IInv, PromisedIsStored, SaveFails
  <2> QED BY <1>2, <2>1, <2>2 DEF IInv
<1> QED BY <1>3, <1>4

LEMMA OtherSteps ==
  ASSUME IInv, Serve \/ Stop \/ ChangeAddress \/ \E p \in Path : EditEnvironment(p)
  PROVE  IInv'
<1>1. PromisedIsStored'
  BY DEF IInv, PromisedIsStored, Serve, Stop, ChangeAddress, EditEnvironment
<1>2. CASE Serve
  <2>1. /\ node \in Node /\ node # None /\ node' \in Node
        /\ node'.active = node.active /\ node'.desired = node.desired /\ node'.locked = node.locked
    BY <1>2 DEF Serve, IInv, TypeOK, Node
  <2>2. TypeOK' BY <1>2, <2>1 DEF IInv, TypeOK, Serve
  <2>3. LockedIsCurrent' /\ EnvironmentWins' /\ LiveSettingsAreActive'
    BY <1>2, <2>1 DEF IInv, LockedIsCurrent, Locked, EnvironmentWins, LiveSettingsAreActive, Serve
  <2> QED BY <1>1, <2>2, <2>3 DEF IInv
<1>3. CASE Stop
  <2>1. node' = None BY <1>3 DEF Stop
  <2>2. TypeOK' BY <1>3 DEF IInv, TypeOK, Stop
  <2>3. LockedIsCurrent' /\ EnvironmentWins' /\ LiveSettingsAreActive'
    BY <2>1 DEF LockedIsCurrent, EnvironmentWins, LiveSettingsAreActive
  <2> QED BY <1>1, <2>2, <2>3 DEF IInv
<1>4. CASE ChangeAddress
  BY <1>1, <1>4 DEF IInv, TypeOK, LockedIsCurrent, Locked, EnvironmentWins, LiveSettingsAreActive,
                    ChangeAddress
<1>5. CASE \E p \in Path : EditEnvironment(p)
  <2>1. PICK p \in Path : EditEnvironment(p) BY <1>5
  <2>2. node = None /\ UNCHANGED <<address, stored, node, promised>> BY <2>1 DEF EditEnvironment
  <2>3. Choice[p] \subseteq Value BY DEF Value
  <2>4. TypeOK' BY <2>1, <2>2, <2>3 DEF IInv, TypeOK, EditEnvironment
  <2>5. LockedIsCurrent' /\ EnvironmentWins' /\ LiveSettingsAreActive'
    BY <2>2 DEF LockedIsCurrent, EnvironmentWins, LiveSettingsAreActive
  <2> QED BY <1>1, <2>4, <2>5 DEF IInv
<1> QED BY <1>2, <1>3, <1>4, <1>5

-----------------------------------------------------------------------------
\* The invariant holds for any settings and values.
THEOREM ConfigInvariant == Spec => []IInv
<1>1. Init => IInv
  BY DEF Init, IInv, TypeOK, LockedIsCurrent, EnvironmentWins, LiveSettingsAreActive, PromisedIsStored
<1>2. IInv /\ [Next]_vars => IInv'
  <2> SUFFICES ASSUME IInv, [Next]_vars PROVE IInv' OBVIOUS
  <2>1. CASE Start BY <2>1, StartStep
  <2>2. CASE Serve \/ Stop \/ ChangeAddress \/ \E p \in Path : EditEnvironment(p)
    BY <2>2, OtherSteps
  <2>3. ASSUME NEW paths \in SUBSET Path, NEW patch \in Patch(paths), Save(patch) \/ SaveFails(patch)
        PROVE  IInv'
    BY <2>3, SaveSteps
  <2>4. CASE UNCHANGED vars
    BY <2>4 DEF IInv, TypeOK, LockedIsCurrent, Locked, EnvironmentWins, LiveSettingsAreActive,
                PromisedIsStored, vars
  <2> QED BY <2>1, <2>2, <2>3, <2>4 DEF Next
<1> QED BY <1>1, <1>2, PTL DEF Spec

\* The variables keep their types.
THEOREM ConfigIsTyped == Spec => []TypeOK
<1>1. IInv => TypeOK BY DEF IInv
<1> QED BY <1>1, ConfigInvariant, PTL

\* Neither what is stored nor what is saved overrules the environment.
THEOREM EnvironmentAlwaysWins == Spec => []EnvironmentWins
<1>1. IInv => EnvironmentWins BY DEF IInv
<1> QED BY <1>1, ConfigInvariant, PTL

\* No live setting is ever pending.
THEOREM LiveSettingsStayActive == Spec => []LiveSettingsAreActive
<1>1. IInv => LiveSettingsAreActive BY DEF IInv
<1> QED BY <1>1, ConfigInvariant, PTL

\* What the page was told of a save stays in the database.
THEOREM PromisesAreStored == Spec => []PromisedIsStored
<1>1. IInv => PromisedIsStored BY DEF IInv
<1> QED BY <1>1, ConfigInvariant, PTL

\* What the page was told of a save is what the node uses from its next start on.
THEOREM PromisesAreUsed == Spec => PromisedIsUsed
<1>1. IInv /\ [Next]_vars =>
        [node = None /\ node' # None =>
           \A p \in Path : promised'[p] # None => node'.active[p] = promised'[p]]_vars
  <2> SUFFICES ASSUME IInv, Next, node = None, node' # None
               PROVE  \A p \in Path : promised'[p] # None => node'.active[p] = promised'[p]
    BY DEF vars
  <2>1. Start
    BY DEF Next, Serve, Stop, ChangeAddress, EditEnvironment, Save, SaveFails, Apply
  <2> QED BY <2>1, StartStep
<1> QED BY <1>1, ConfigInvariant, PTL DEF Spec, PromisedIsUsed

-----------------------------------------------------------------------------
(* The mappings. *)

PortTypes ==
  /\ boot \in {"off", "ports", "settings", "server", "bootstrap", "dials", "ready", "failed"}
  /\ asking \in Protocol \cup {"done"} /\ stage \in {"load", "module", "answer"}
  /\ module \in {"none", "set", "failed"}
  /\ handle \in [Protocol -> Handle] /\ active \subseteq Protocol
  /\ exit \in {"no", "loading", "cleaning", "over"} /\ early \in BOOLEAN

NoHandle == \A p \in Protocol : handle[p] = "none"

\* Ports are asked for in startNode() alone; a process starts with nothing.
AskingFollowsBoot ==
  /\ boot = "ports" => asking # "done"
  /\ boot = "off"   => asking = "TCP" /\ stage = "load" /\ module = "none" /\ exit = "no"
  /\ boot \notin {"off", "ports"} => asking = "done"

\* Until a signal, the library is loaded before the first mapping and kept.
LoadsComeFirst ==
  exit = "no" =>
    /\ ~early
    /\ boot # "off" => module # "none"
    /\ stage = "load" \/ module # "set" => NoHandle
    /\ module = "failed" => asking = "done"

\* A signal after the ports are settled finds all mappings, and takes them back.
LateSignalTakesAll ==
  exit # "no" /\ ~early =>
    /\ asking = "done" /\ exit # "loading"
    /\ \A p \in Protocol : handle[p] \in {"none", "deleting"}
    /\ exit = "over" => NoHandle

PortInv ==
  /\ PortTypes /\ AskingFollowsBoot /\ LoadsComeFirst /\ LateSignalTakesAll
  /\ MappingsAreAccountedFor

USE DEF Protocol, Handle

LEMMA NextPortStep ==
  ASSUME PortInv, boot = "ports", stage = "answer", NextPort
  PROVE  /\ boot' \in {"ports", "settings"} /\ asking' \in {"UDP", "done"} /\ asking' # asking
         /\ boot' = "ports" <=> asking' # "done"
         /\ stage' \in {"load", "module", "answer"} /\ module' \in {"none", "set", "failed"}
         /\ exit = "no" => stage' # "load" /\ module' = "set" /\ module = "set"
BY DEF PortInv, PortTypes, AskingFollowsBoot, LoadsComeFirst, NextPort

\* The steps of requestPort()
LEMMA PortSteps ==
  ASSUME PortInv,
         ModuleFails \/ CreateMapping \/ MappingSucceeds \/ MappingFails \/ MappingTimesOut
  PROVE  PortInv'
<1> USE DEF PortInv, PortTypes
<1>1. CASE ModuleFails
  BY <1>1 DEF ModuleFails, pastVars, AskingFollowsBoot, LoadsComeFirst, LateSignalTakesAll,
              MappingsAreAccountedFor, NoHandle
<1>2. CASE CreateMapping
  BY <1>2 DEF CreateMapping, pastVars, AskingFollowsBoot, LoadsComeFirst, LateSignalTakesAll,
              MappingsAreAccountedFor, NoHandle
<1>3. CASE MappingSucceeds \/ MappingFails \/ MappingTimesOut
  <2>1. /\ boot = "ports" /\ stage = "answer" /\ NextPort /\ UNCHANGED <<exit, early>>
        /\ \/ active' = active \cup {asking} /\ UNCHANGED handle
           \/ handle' = [handle EXCEPT ![asking] = Destroyed(asking)] /\ UNCHANGED active
    BY <1>3 DEF MappingSucceeds, MappingFails, MappingTimesOut, pastVars
  <2>2. /\ boot' \in {"ports", "settings"} /\ asking' \in {"UDP", "done"} /\ asking' # asking
        /\ boot' = "ports" <=> asking' # "done"
        /\ stage' \in {"load", "module", "answer"} /\ module' \in {"none", "set", "failed"}
        /\ exit = "no" => stage' # "load" /\ module' = "set" /\ module = "set"
    BY <2>1, NextPortStep
  <2>3. asking \in Protocol BY <2>1 DEF AskingFollowsBoot
  <2>4. /\ handle' \in [Protocol -> Handle] /\ active' \subseteq Protocol
        /\ \A p \in Protocol : handle'[p] \in {"pending", "up"} =>
             handle'[p] = handle[p] /\ (p = asking => p \in active')
    BY <2>1, <2>3 DEF Destroyed
  <2>5. PortTypes' BY <2>1, <2>2, <2>4
  <2>6. MappingsAreAccountedFor'
    BY <2>1, <2>2, <2>3, <2>4 DEF MappingsAreAccountedFor
  <2>7. exit = "no" \/ early BY <2>1 DEF LateSignalTakesAll, AskingFollowsBoot
  <2>8. AskingFollowsBoot' /\ LoadsComeFirst' /\ LateSignalTakesAll'
    BY <2>1, <2>2, <2>7 DEF AskingFollowsBoot, LoadsComeFirst, LateSignalTakesAll
  <2> QED BY <2>5, <2>6, <2>8
<1> QED BY <1>1, <1>2, <1>3

LEMMA LibraryStep ==
  ASSUME PortInv, NEW p \in Protocol, Library(p)
  PROVE  PortInv'
BY DEF PortInv, PortTypes, Library, pastVars, AskingFollowsBoot, LoadsComeFirst,
       LateSignalTakesAll, MappingsAreAccountedFor, NoHandle

LEMMA SignalStep ==
  ASSUME PortInv, Signal
  PROVE  PortInv'
BY DEF PortInv, PortTypes, Signal, Destroyed, AskingFollowsBoot, LoadsComeFirst,
       LateSignalTakesAll, MappingsAreAccountedFor, NoHandle

LEMMA EndStep ==
  ASSUME PortInv, End
  PROVE  PortInv'
BY DEF PortInv, PortTypes, End, Fresh, AskingFollowsBoot, LoadsComeFirst,
       LateSignalTakesAll, MappingsAreAccountedFor, NoHandle

LEMMA BootStep ==
  ASSUME PortInv, Boot
  PROVE  PortInv'
BY DEF PortInv, PortTypes, Boot, AskingFollowsBoot, LoadsComeFirst, LateSignalTakesAll,
       MappingsAreAccountedFor, NoHandle

\* The steps that ask for nothing and release nothing
Running == {"settings", "server", "bootstrap", "dials", "ready", "failed"}

LEMMA StepsWithoutPorts ==
  ASSUME PortInv, UNCHANGED <<portVars, exit, early>>,
         boot' = boot \/ (boot \in Running /\ boot' \in Running)
  PROVE  PortInv'
BY DEF PortInv, PortTypes, Running, portVars, AskingFollowsBoot, LoadsComeFirst,
       LateSignalTakesAll, MappingsAreAccountedFor, NoHandle

LEMMA PortInvIsInductive ==
  ASSUME PortInv, [StartupNext]_startupVars
  PROVE  PortInv'
<1>1. CASE ModuleFails \/ CreateMapping \/ MappingSucceeds \/ MappingFails \/ MappingTimesOut
  BY <1>1, PortSteps
<1>2. CASE \E p \in Protocol : Library(p)
  BY <1>2, LibraryStep
<1>3. CASE Signal \/ Exit \/ Stops
  BY <1>3, SignalStep, EndStep DEF Exit, Stops
<1>4. CASE Boot
  BY <1>4, BootStep
<1>5. CASE LoadSettings \/ StartServer \/ ServerFails \/ ReadCache \/ EndStartup
  <2>1. /\ boot \in Running /\ boot' \in Running /\ UNCHANGED <<portVars, exit, early>>
    BY <1>5 DEF LoadSettings, StartServer, ServerFails, ReadCache, EndStartup, Running, pastVars
  <2> QED BY <2>1, StepsWithoutPorts
<1>6. CASE (\E h \in Host : Dial(h) \/ Inbound(h) \/ Depart(h)) \/ PageConnects \/ PurgePeerCache
  <2>1. UNCHANGED <<boot, portVars, exit, early>>
    BY <1>6 DEF Dial, Inbound, Depart, PageConnects, PurgePeerCache, pastVars
  <2> QED BY <2>1, StepsWithoutPorts
<1>7. CASE (\E what \in {"ready", "connected"} : DhtReaches(what)) \/ Announce \/ Surroundings
  <2>1. UNCHANGED <<boot, portVars, exit, early>>
    BY <1>7 DEF DhtReaches, Announce, Surroundings, pastVars
  <2> QED BY <2>1, StepsWithoutPorts
<1>8. CASE UNCHANGED startupVars
  BY <1>8, StepsWithoutPorts DEF startupVars, pastVars
<1> QED BY <1>1, <1>2, <1>3, <1>4, <1>5, <1>6, <1>7, <1>8 DEF StartupNext

\* What is said of the ports, the library and the signals holds in every reachable state.
THEOREM PortInvariant == StartupSpec => []PortInv
<1>1. StartupInit => PortInv
  BY DEF StartupInit, PortInv, PortTypes, AskingFollowsBoot, LoadsComeFirst,
         LateSignalTakesAll, MappingsAreAccountedFor, NoHandle
<1> QED BY <1>1, PortInvIsInductive, PTL DEF StartupSpec

\* No mapping is forgotten: one the gateway has or may get is in activeMappings, or has
\* an observer that is still to settle.
THEOREM MappingsStayAccountedFor == StartupSpec => []MappingsAreAccountedFor
<1>1. PortInv => MappingsAreAccountedFor BY DEF PortInv
<1> QED BY <1>1, PortInvariant, PTL

\* A process that is told to end after its ports are settled leaves no mapping.
THEOREM OrderlyExitsLeaveNoMapping == StartupSpec => OrderlyExitLeavesNoMapping
<1>1. PortInv /\ [StartupNext]_startupVars
        => [ Exit /\ ~early => \A p \in Protocol : handle[p] = "none" ]_startupVars
  BY DEF PortInv, PortTypes, LateSignalTakesAll, NoHandle, Exit
<1> QED BY <1>1, PortInvariant, PTL DEF StartupSpec, OrderlyExitLeavesNoMapping

-----------------------------------------------------------------------------
(* The table of cached peers. *)

\* The table is that of the last process until somebody connects, and then holds
\* whoever is connected, unless it was purged.
TableInv ==
  /\ joined \in BOOLEAN /\ purged \in BOOLEAN
  /\ ~joined => lost \subseteq cached
  /\ joined  => purged \/ peers \subseteq cached

LEMMA TableInvIsInductive ==
  ASSUME TableInv, [StartupNext]_startupVars
  PROVE  TableInv'
<1> USE DEF TableInv
<1>1. CASE Boot \/ ModuleFails \/ CreateMapping \/ MappingSucceeds \/ MappingFails \/ MappingTimesOut
  BY <1>1 DEF Boot, ModuleFails, CreateMapping, MappingSucceeds, MappingFails, MappingTimesOut,
              peerVars, pastVars
<1>2. CASE (\E p \in Protocol : Library(p)) \/ Signal
  BY <1>2 DEF Library, Signal, peerVars, pastVars
<1>3. CASE Exit \/ Stops
  BY <1>3 DEF Exit, Stops, End, Fresh
<1>4. CASE LoadSettings \/ StartServer \/ ServerFails \/ ReadCache \/ EndStartup
  BY <1>4 DEF LoadSettings, StartServer, ServerFails, ReadCache, EndStartup, peerVars, pastVars
<1>5. CASE (\E h \in Host : Dial(h) \/ Inbound(h) \/ Depart(h)) \/ PageConnects \/ PurgePeerCache
  <2>1. CASE (\E h \in Host : Register(h)) \/ PageConnects
    <3>1. cached' = peers' /\ joined' /\ purged' = FALSE
      BY <2>1, <1>5 DEF Register, PageConnects
    <3> QED BY <3>1
  <2>2. CASE (\E h \in Host : Depart(h)) \/ UNCHANGED <<peers, cached, joined, purged>>
    <3>1. peers' \subseteq peers /\ UNCHANGED <<cached, joined, purged, lost>>
      BY <2>2, <1>5 DEF Dial, Inbound, Depart, PageConnects, PurgePeerCache, Register, pastVars
    <3> QED BY <3>1
  <2>3. CASE PurgePeerCache
    BY <2>3 DEF PurgePeerCache
  <2> QED BY <1>5, <2>1, <2>2, <2>3 DEF Dial, Inbound
<1>6. CASE (\E what \in {"ready", "connected"} : DhtReaches(what)) \/ Announce \/ Surroundings
  BY <1>6 DEF DhtReaches, Announce, Surroundings, peerVars, pastVars
<1>7. CASE UNCHANGED startupVars
  BY <1>7 DEF startupVars, peerVars, pastVars
<1> QED BY <1>1, <1>2, <1>3, <1>4, <1>5, <1>6, <1>7 DEF StartupNext

\* The peers of the process before are dialled, unless the user had them forgotten or
\* somebody connects before the table is read.
THEOREM LostPeersStayCached == StartupSpec => LostPeersAreDialled
<1>1. StartupInit => TableInv BY DEF StartupInit, TableInv
<1>2. TableInv /\ [StartupNext]_startupVars
        => [ boot = "bootstrap" /\ boot' = "dials" /\ ~joined
               => lost \subseteq toDial' \cup Bootstrap ]_startupVars
  <2> SUFFICES ASSUME TableInv, StartupNext, boot = "bootstrap", boot' = "dials", ~joined
               PROVE  lost \subseteq toDial' \cup Bootstrap
    OBVIOUS
  <2>1. ReadCache
    BY DEF StartupNext, Boot, ModuleFails, CreateMapping, MappingSucceeds, MappingFails,
           MappingTimesOut, Library, Signal, Exit, Stops, End, LoadSettings, StartServer,
           ServerFails, EndStartup, Dial, Inbound, Depart, PageConnects, PurgePeerCache,
           DhtReaches, Announce, Surroundings
  <2> QED BY <2>1 DEF ReadCache, TableInv
<1> QED BY <1>1, <1>2, TableInvIsInductive, PTL DEF StartupSpec, LostPeersAreDialled

-----------------------------------------------------------------------------
(* The settings. *)

\* Until the settings are loaded, the process keeps a configuration that a start of
\* RuntimeConfig could have made.
LiveInv ==
  /\ address \in Address
  /\ boot \in {"ports", "settings"} =>
       \E port \in FreePort, found \in Address : live = LiveConfig(port, found)

LEMMA LiveInvIsInductive ==
  ASSUME LiveInv, [StartupNext]_startupVars
  PROVE  LiveInv'
<1> USE DEF LiveInv, configVars, LiveConfig, Locked
<1>1. CASE Boot
  BY <1>1 DEF Boot
<1>2. CASE ModuleFails \/ CreateMapping \/ MappingSucceeds \/ MappingFails \/ MappingTimesOut
  BY <1>2 DEF ModuleFails, CreateMapping, MappingSucceeds, MappingFails, MappingTimesOut, NextPort
<1>3. CASE (\E p \in Protocol : Library(p)) \/ Signal
  BY <1>3 DEF Library, Signal
<1>4. CASE Exit \/ Stops
  BY <1>4 DEF Exit, Stops, End
<1>5. CASE LoadSettings \/ StartServer \/ ServerFails \/ ReadCache \/ EndStartup
  BY <1>5 DEF LoadSettings, Load, StartServer, Serve, ServerFails, ReadCache, EndStartup
<1>6. CASE (\E h \in Host : Dial(h) \/ Inbound(h) \/ Depart(h)) \/ PageConnects \/ PurgePeerCache
  BY <1>6 DEF Dial, Inbound, Depart, PageConnects, PurgePeerCache
<1>7. CASE (\E what \in {"ready", "connected"} : DhtReaches(what)) \/ Announce
  BY <1>7 DEF DhtReaches, Announce
<1>8. CASE Surroundings
  <2>1. address' \in Address /\ UNCHANGED <<boot, live>> /\ (env' = env \/ boot = "off")
    BY <1>8 DEF Surroundings, ChangeAddress, EditEnvironment, Save, SaveFails, Apply
  <2> QED BY <2>1
<1>9. CASE UNCHANGED startupVars
  BY <1>9 DEF startupVars, vars
<1> QED BY <1>1, <1>2, <1>3, <1>4, <1>5, <1>6, <1>7, <1>8, <1>9 DEF StartupNext

\* Each step of a process is a step of RuntimeConfig or changes none of its variables.
LEMMA ConfigStep ==
  ASSUME LiveInv, [StartupNext]_startupVars
  PROVE  [Next]_vars
<1> USE DEF configVars, vars
<1>1. CASE LoadSettings
  BY <1>1 DEF LoadSettings, LiveInv, Next, Start
<1>2. CASE StartServer
  BY <1>2 DEF StartServer, Next
<1>3. CASE Exit \/ Stops
  BY <1>3 DEF Exit, Stops, End, Next, Stop
<1>4. CASE Surroundings
  BY <1>4 DEF Surroundings, Next
<1>5. CASE Boot \/ ModuleFails \/ CreateMapping \/ MappingSucceeds \/ MappingFails \/ MappingTimesOut
  BY <1>5 DEF Boot, ModuleFails, CreateMapping, MappingSucceeds, MappingFails, MappingTimesOut
<1>6. CASE (\E p \in Protocol : Library(p)) \/ Signal \/ ServerFails \/ ReadCache \/ EndStartup
  BY <1>6 DEF Library, Signal, ServerFails, ReadCache, EndStartup
<1>7. CASE (\E h \in Host : Dial(h) \/ Inbound(h) \/ Depart(h)) \/ PageConnects \/ PurgePeerCache
  BY <1>7 DEF Dial, Inbound, Depart, PageConnects, PurgePeerCache
<1>8. CASE (\E what \in {"ready", "connected"} : DhtReaches(what)) \/ Announce
  BY <1>8 DEF DhtReaches, Announce
<1>9. CASE UNCHANGED startupVars
  BY <1>9 DEF startupVars
<1> QED BY <1>1, <1>2, <1>3, <1>4, <1>5, <1>6, <1>7, <1>8, <1>9 DEF StartupNext

\* A start in all its steps, interrupted or not, implements the start of RuntimeConfig.
THEOREM StartupImplementsConfig == StartupSpec => Spec
<1>1. StartupInit => LiveInv BY DEF StartupInit, Init, LiveInv
<1>2. StartupInit => Init BY DEF StartupInit
<1> QED BY <1>1, <1>2, LiveInvIsInductive, ConfigStep, PTL DEF StartupSpec, Spec

\* What the settings page was told of a save is what the next process uses.
THEOREM PromisesSurviveStartup == StartupSpec => PromisedIsUsed
BY StartupImplementsConfig, PromisesAreUsed, PTL

-----------------------------------------------------------------------------
(* Types. *)

PeerTypes ==
  /\ live \in Config \cup {None}
  /\ toDial \subseteq Host /\ peers \subseteq Host /\ cached \subseteq Host
  /\ dht \subseteq {"connected", "ready", "announcing"}
  /\ starts \in 0..MaxStarts /\ lost \subseteq Host /\ joined \in BOOLEAN /\ purged \in BOOLEAN

LEMMA PeerTypesAreInductive ==
  ASSUME TypeOK, PeerTypes, [StartupNext]_startupVars
  PROVE  PeerTypes'
<1> USE DEF PeerTypes
<1>1. CASE Boot
  <2>1. PICK port \in FreePort : live' = LiveConfig(port, address) BY <1>1 DEF Boot
  <2>2. \A p \in Path : LiveConfig(port, address)[p] \in Value
    BY DEF TypeOK, LiveConfig, Locked, Value
  <2>3. live' \in Config BY <2>1, <2>2 DEF LiveConfig, Config
  <2>4. starts' \in 0..MaxStarts BY <1>1, StartupAssumption DEF Boot
  <2> QED BY <1>1, <2>3, <2>4 DEF Boot, peerVars
<1>2. CASE ModuleFails \/ CreateMapping \/ MappingSucceeds \/ MappingFails \/ MappingTimesOut
  BY <1>2 DEF ModuleFails, CreateMapping, MappingSucceeds, MappingFails, MappingTimesOut,
              peerVars, pastVars
<1>3. CASE (\E p \in Protocol : Library(p)) \/ Signal
  BY <1>3 DEF Library, Signal, peerVars, pastVars
<1>4. CASE Exit \/ Stops
  BY <1>4 DEF Exit, Stops, End, Fresh
<1>5. CASE LoadSettings \/ StartServer \/ ServerFails \/ ReadCache \/ EndStartup
  BY <1>5, StartupAssumption
     DEF LoadSettings, StartServer, ServerFails, ReadCache, EndStartup, peerVars, pastVars
<1>6. CASE (\E h \in Host : Dial(h) \/ Inbound(h) \/ Depart(h)) \/ PageConnects \/ PurgePeerCache
  BY <1>6 DEF Dial, Inbound, Depart, PageConnects, PurgePeerCache, Register, pastVars
<1>7. CASE (\E what \in {"ready", "connected"} : DhtReaches(what)) \/ Announce \/ Surroundings
  BY <1>7 DEF DhtReaches, Announce, Surroundings, peerVars, pastVars
<1>8. CASE UNCHANGED startupVars
  BY <1>8 DEF startupVars, peerVars, pastVars
<1> QED BY <1>1, <1>2, <1>3, <1>4, <1>5, <1>6, <1>7, <1>8 DEF StartupNext

\* The variables keep their types.
THEOREM StartupIsTyped == StartupSpec => []StartupTypeOK
<1>1. StartupInit => PeerTypes
  <2>1. 0 \in 0..MaxStarts BY StartupAssumption
  <2> QED BY <2>1 DEF StartupInit, PeerTypes
<1>2. StartupSpec => []TypeOK BY StartupImplementsConfig, ConfigIsTyped, PTL
<1>3. StartupSpec => []PeerTypes
  BY <1>1, <1>2, PeerTypesAreInductive, PTL DEF StartupSpec
<1>4. TypeOK /\ PeerTypes /\ PortInv => StartupTypeOK
  BY DEF PeerTypes, PortInv, PortTypes, StartupTypeOK
<1> QED BY <1>2, <1>3, <1>4, PortInvariant, PTL

-----------------------------------------------------------------------------
(* The supervisor. *)

USE SupervisorAssumption

\* A signalled child is explained by a shutdown or an update.
StopIsExplained ==
  Active /\ backend[child] = "stopping" => shuttingDown \/ updateRestartPending

\* The history has no entry without a crash, and room for a crash that is not entered yet.
CrashesAreEntered ==
  /\ recentRestarts =< crashes
  /\ Active => recentRestarts =< MaxCrashRestarts
  /\ Crashed => recentRestarts + 1 =< crashes

SupIInv ==
  /\ SupervisorTypeOK
  /\ child \notin detached
  /\ OneSupervisedBackend
  /\ StopIsExplained
  /\ CrashesAreEntered
  /\ GivesUpOnlyAfterCrashes

-----------------------------------------------------------------------------
LEMMA SupInitEstablishes == SupervisorInit => SupIInv
<1> SUFFICES ASSUME SupervisorInit PROVE SupIInv
  OBVIOUS
<1> USE DEF SupervisorInit
<1>1. SupervisorTypeOK
  <2>1. 0 \in 0..MaxVersion /\ 0 \in 0..(MaxCrashRestarts + 1)
    OBVIOUS
  <2>2. version \in [Process -> 0..MaxVersion]
    BY <2>1
  <2>3. backend \in [Process -> {"running", "stopping", "exited"}]
    OBVIOUS
  <2> QED
    BY <2>1, <2>2, <2>3 DEF SupervisorTypeOK
<1>2. backend[child] = "running"
  OBVIOUS
<1>3. OneSupervisedBackend /\ StopIsExplained
  BY <1>2 DEF OneSupervisedBackend, StopIsExplained
<1>4. CrashesAreEntered /\ GivesUpOnlyAfterCrashes
  BY <1>2 DEF CrashesAreEntered, GivesUpOnlyAfterCrashes, Crashed, ChildExited
<1> QED
  BY <1>1, <1>3, <1>4 DEF SupIInv

\* A step of the loop that launches a backend finds the old one exited.
LEMMA LaunchKeeps ==
  ASSUME SupIInv, NEW p \in Process, Launch(p),
         backend[child] = "exited",
         \A q \in Process : backend[q] # "exited" => q \in detached,
         supervisor' = "waiting"
  PROVE  /\ child' \in Process
         /\ backend' \in [Process -> {"running", "stopping", "exited"}]
         /\ detached' \subseteq Process
         /\ version' \in [Process -> 0..MaxVersion]
         /\ child' \notin detached'
         /\ OneSupervisedBackend'
         /\ backend'[child'] = "running"
  BY DEF SupIInv, SupervisorTypeOK, Launch, OneSupervisedBackend

LEMMA RelaunchKeeps ==
  ASSUME SupIInv, NEW p \in Process, RelaunchAfterUpdate(p)
  PROVE  SupIInv'
<1>1. /\ supervisor = "waiting" /\ supervisor' = "waiting"
      /\ backend[child] = "exited" /\ ~shuttingDown
      /\ Launch(p)
  BY DEF RelaunchAfterUpdate, ChildExited
<1>2. \A q \in Process : backend[q] # "exited" => q \in detached
  BY <1>1 DEF SupIInv, OneSupervisedBackend
<1>3. /\ child' \in Process
      /\ backend' \in [Process -> {"running", "stopping", "exited"}]
      /\ detached' \subseteq Process
      /\ version' \in [Process -> 0..MaxVersion]
      /\ child' \notin detached'
      /\ OneSupervisedBackend'
      /\ backend'[child'] = "running"
  BY <1>1, <1>2, LaunchKeeps
<1>4. SupervisorTypeOK'
  BY <1>3 DEF RelaunchAfterUpdate, SupIInv, SupervisorTypeOK
<1>5. StopIsExplained'
  BY <1>3 DEF StopIsExplained
<1>6. CrashesAreEntered' /\ GivesUpOnlyAfterCrashes'
  BY <1>1, <1>3 DEF RelaunchAfterUpdate, SupIInv, SupervisorTypeOK, CrashesAreEntered, GivesUpOnlyAfterCrashes,
                   Crashed, ChildExited, Active
<1> QED
  BY <1>3, <1>4, <1>5, <1>6 DEF SupIInv

LEMMA SleepEndsKeeps ==
  ASSUME SupIInv, NEW p \in Process, SleepEnds(p)
  PROVE  SupIInv'
<1>1. supervisor = "sleeping" /\ supervisor' = "waiting" /\ Launch(p)
  BY DEF SleepEnds
<1>2. \A q \in Process : backend[q] # "exited" => q \in detached
  BY <1>1 DEF SupIInv, OneSupervisedBackend
<1>3. backend[child] = "exited"
  BY <1>2 DEF SupIInv, SupervisorTypeOK
<1>4. /\ child' \in Process
      /\ backend' \in [Process -> {"running", "stopping", "exited"}]
      /\ detached' \subseteq Process
      /\ version' \in [Process -> 0..MaxVersion]
      /\ child' \notin detached'
      /\ OneSupervisedBackend'
      /\ backend'[child'] = "running"
  BY <1>1, <1>2, <1>3, LaunchKeeps
<1>5. SupervisorTypeOK'
  BY <1>4 DEF SleepEnds, stateVars, SupIInv, SupervisorTypeOK
<1>6. StopIsExplained'
  BY <1>4 DEF StopIsExplained
<1>7. CrashesAreEntered' /\ GivesUpOnlyAfterCrashes'
  BY <1>1, <1>4 DEF SleepEnds, stateVars, SupIInv, SupervisorTypeOK, CrashesAreEntered, GivesUpOnlyAfterCrashes,
                   Crashed, ChildExited, Active
<1> QED
  BY <1>4, <1>5, <1>6, <1>7 DEF SupIInv

\* The loop ends, or waits before a restart.
LEMMA LoopKeeps ==
  ASSUME SupIInv, LoopReturns \/ CrashIsCounted
  PROVE  SupIInv'
<1> USE DEF ChildExited, Crashed
<1>1. CASE LoopReturns
  <2> USE <1>1 DEF LoopReturns, stateVars, processVars
  <2>1. SupervisorTypeOK' /\ child' \notin detached'
    BY DEF SupIInv, SupervisorTypeOK
  <2>2. OneSupervisedBackend'
    BY DEF SupIInv, OneSupervisedBackend
  <2>3. StopIsExplained' /\ CrashesAreEntered' /\ GivesUpOnlyAfterCrashes'
    BY DEF SupIInv, StopIsExplained, CrashesAreEntered, GivesUpOnlyAfterCrashes, Active
  <2> QED
    BY <2>1, <2>2, <2>3 DEF SupIInv
<1>2. CASE CrashIsCounted
  <2> USE <1>2 DEF CrashIsCounted, processVars
  <2>1. /\ recentRestarts \in Nat /\ crashes \in Nat /\ recentRestarts =< MaxCrashRestarts
        /\ recentRestarts' = recentRestarts + 1 /\ recentRestarts' =< crashes /\ crashes' = crashes
        /\ supervisor' \in {"gaveUp", "sleeping"}
        /\ supervisor' = "gaveUp" <=> recentRestarts' > MaxCrashRestarts
    BY DEF SupIInv, SupervisorTypeOK, CrashesAreEntered, Active
  <2>2. SupervisorTypeOK' /\ child' \notin detached'
    BY <2>1 DEF SupIInv, SupervisorTypeOK
  <2>3. OneSupervisedBackend'
    BY DEF SupIInv, OneSupervisedBackend
  <2>4. StopIsExplained'
    BY DEF StopIsExplained
  <2>5. CrashesAreEntered' /\ GivesUpOnlyAfterCrashes'
    BY <2>1 DEF CrashesAreEntered, GivesUpOnlyAfterCrashes, Active
  <2> QED
    BY <2>2, <2>3, <2>4, <2>5 DEF SupIInv
<1> QED
  BY <1>1, <1>2

\* Signalling the child disturbs no backend but the child.
LEMMA StoppedKeeps ==
  ASSUME SupervisorTypeOK
  PROVE  /\ Stopped \in [Process -> {"running", "stopping", "exited"}]
         /\ \A p \in Process : Stopped[p] = "exited" <=> backend[p] = "exited"
  BY DEF SupervisorTypeOK, Stopped

\* Updates, signals, and time that passes.
LEMMA EventKeeps ==
  ASSUME SupIInv,
         \/ RestartAges \/ UpdateIsApplied \/ InstallFails \/ SupervisorIsKilled
         \/ \E s \in ShutdownSignal : ShutdownIsHandled(s)
  PROVE  SupIInv'
<1> USE DEF stateVars, processVars, Active
<1>1. SupervisorTypeOK /\ child \notin detached /\ OneSupervisedBackend /\ StopIsExplained
      /\ CrashesAreEntered /\ GivesUpOnlyAfterCrashes
  BY DEF SupIInv
<1>2. CASE RestartAges
  <2> USE <1>2 DEF RestartAges
  <2>1. SupervisorTypeOK' /\ child' \notin detached'
    BY <1>1 DEF SupervisorTypeOK
  <2>2. OneSupervisedBackend' /\ StopIsExplained' /\ GivesUpOnlyAfterCrashes'
    BY <1>1 DEF OneSupervisedBackend, StopIsExplained, GivesUpOnlyAfterCrashes
  <2>3. CrashesAreEntered'
    BY <1>1 DEF SupervisorTypeOK, CrashesAreEntered, Crashed, ChildExited
  <2> QED
    BY <2>1, <2>2, <2>3 DEF SupIInv
<1>3. CASE UpdateIsApplied
  <2> USE <1>3 DEF UpdateIsApplied, Pulls
  <2>1. SupervisorTypeOK' /\ child' \notin detached'
    BY <1>1, StoppedKeeps DEF SupervisorTypeOK
  <2>2. OneSupervisedBackend'
    BY <1>1, StoppedKeeps DEF OneSupervisedBackend
  <2>3. StopIsExplained' /\ CrashesAreEntered' /\ GivesUpOnlyAfterCrashes'
    BY <1>1 DEF StopIsExplained, CrashesAreEntered, GivesUpOnlyAfterCrashes, Crashed, ChildExited
  <2> QED
    BY <2>1, <2>2, <2>3 DEF SupIInv
<1>4. CASE InstallFails
  <2> USE <1>4 DEF InstallFails, Pulls
  <2>1. SupervisorTypeOK' /\ child' \notin detached'
    BY <1>1 DEF SupervisorTypeOK
  <2>2. OneSupervisedBackend'
    BY <1>1 DEF OneSupervisedBackend
  <2>3. StopIsExplained' /\ CrashesAreEntered' /\ GivesUpOnlyAfterCrashes'
    BY <1>1 DEF StopIsExplained, CrashesAreEntered, GivesUpOnlyAfterCrashes, Crashed, ChildExited
  <2> QED
    BY <2>1, <2>2, <2>3 DEF SupIInv
<1>5. CASE SupervisorIsKilled
  <2> USE <1>5 DEF SupervisorIsKilled
  <2>1. SupervisorTypeOK' /\ child' \notin detached'
    BY <1>1 DEF SupervisorTypeOK
  <2>2. OneSupervisedBackend'
    BY <1>1 DEF OneSupervisedBackend
  <2>3. StopIsExplained' /\ CrashesAreEntered' /\ GivesUpOnlyAfterCrashes'
    BY <1>1 DEF StopIsExplained, CrashesAreEntered, GivesUpOnlyAfterCrashes, Crashed, ChildExited
  <2> QED
    BY <2>1, <2>2, <2>3 DEF SupIInv
<1>6. ASSUME NEW s \in ShutdownSignal, ShutdownIsHandled(s) PROVE SupIInv'
  <2> USE <1>6 DEF ShutdownIsHandled
  <2>1. SupervisorTypeOK' /\ child' \notin detached'
    BY <1>1, StoppedKeeps DEF SupervisorTypeOK
  <2>2. OneSupervisedBackend'
    BY <1>1, StoppedKeeps DEF OneSupervisedBackend
  <2>3. StopIsExplained' /\ CrashesAreEntered' /\ GivesUpOnlyAfterCrashes'
    BY <1>1 DEF StopIsExplained, CrashesAreEntered, GivesUpOnlyAfterCrashes, Crashed, ChildExited
  <2> QED
    BY <2>1, <2>2, <2>3 DEF SupIInv
<1> QED
  BY <1>2, <1>3, <1>4, <1>5, <1>6

\* A backend exits: only the child's exit concerns the supervisor, and it is either noted
\* or explained.
LEMMA ExitKeeps ==
  ASSUME SupIInv, NEW p \in Process,
         BackendCrashes(p) \/ BackendStops(p) \/ \E q \in Process : RestartIsRequested(p, q)
  PROVE  SupIInv'
<1> USE DEF stateVars
<1>1. SupervisorTypeOK /\ child \notin detached /\ OneSupervisedBackend /\ StopIsExplained
      /\ CrashesAreEntered /\ GivesUpOnlyAfterCrashes
  BY DEF SupIInv
<1>2. CASE BackendCrashes(p)
  <2> USE <1>2 DEF BackendCrashes, NoteExit
  <2>1. SupervisorTypeOK' /\ child' \notin detached'
    BY <1>1 DEF SupervisorTypeOK
  <2>2. OneSupervisedBackend' /\ StopIsExplained'
    BY <1>1 DEF SupervisorTypeOK, OneSupervisedBackend, StopIsExplained, Active
  <2>3. CrashesAreEntered' /\ GivesUpOnlyAfterCrashes'
    BY <1>1 DEF SupervisorTypeOK, CrashesAreEntered, GivesUpOnlyAfterCrashes, Crashed, ChildExited, Active
  <2> QED
    BY <2>1, <2>2, <2>3 DEF SupIInv
<1>3. CASE BackendStops(p)
  <2> USE <1>3 DEF BackendStops
  <2>1. SupervisorTypeOK' /\ child' \notin detached'
    BY <1>1 DEF SupervisorTypeOK
  <2>2. OneSupervisedBackend' /\ StopIsExplained'
    BY <1>1 DEF SupervisorTypeOK, OneSupervisedBackend, StopIsExplained, Active
  <2>3. CrashesAreEntered' /\ GivesUpOnlyAfterCrashes'
    BY <1>1 DEF SupervisorTypeOK, CrashesAreEntered, GivesUpOnlyAfterCrashes, StopIsExplained, Crashed,
                ChildExited, Active
  <2> QED
    BY <2>1, <2>2, <2>3 DEF SupIInv
<1>4. ASSUME NEW q \in Process, RestartIsRequested(p, q) PROVE SupIInv'
  <2> USE <1>4 DEF RestartIsRequested, NoteExit
  <2>1. q # child /\ backend[q] = "exited" /\ q # p
    BY DEF Free
  <2>2. SupervisorTypeOK' /\ child' \notin detached'
    BY <1>1, <2>1 DEF SupervisorTypeOK
  <2>3. OneSupervisedBackend' /\ StopIsExplained'
    BY <1>1, <2>1 DEF SupervisorTypeOK, OneSupervisedBackend, StopIsExplained, Active
  <2>4. backend'[child] = IF p = child THEN "exited" ELSE backend[child]
    BY <1>1, <2>1 DEF SupervisorTypeOK
  <2>5. CrashesAreEntered' /\ GivesUpOnlyAfterCrashes'
    BY <1>1, <2>4 DEF SupervisorTypeOK, CrashesAreEntered, GivesUpOnlyAfterCrashes, StopIsExplained, Crashed,
                      ChildExited, Active
  <2> QED
    BY <2>2, <2>3, <2>5 DEF SupIInv
<1> QED
  BY <1>2, <1>3, <1>4

LEMMA SupNextKeeps == SupIInv /\ [SupervisorNext]_supervisorVars => SupIInv'
<1> SUFFICES ASSUME SupIInv, [SupervisorNext]_supervisorVars PROVE SupIInv'
  OBVIOUS
<1>1. CASE UNCHANGED supervisorVars
  <2> USE <1>1 DEF supervisorVars, stateVars, processVars
  <2>1. SupervisorTypeOK' /\ child' \notin detached'
    BY DEF SupIInv, SupervisorTypeOK
  <2>2. OneSupervisedBackend' /\ StopIsExplained'
    BY DEF SupIInv, OneSupervisedBackend, StopIsExplained, Active
  <2>3. CrashesAreEntered' /\ GivesUpOnlyAfterCrashes'
    BY DEF SupIInv, CrashesAreEntered, GivesUpOnlyAfterCrashes, Crashed, ChildExited, Active
  <2> QED
    BY <2>1, <2>2, <2>3 DEF SupIInv
<1> QED
  BY <1>1, RelaunchKeeps, SleepEndsKeeps, LoopKeeps, EventKeeps, ExitKeeps DEF SupervisorNext, LoopStep

-----------------------------------------------------------------------------
(* Theorems. *)

\* The conjunction of the invariants of the supervisor with what explains exits is inductive.
THEOREM SupervisorInvariant == SupervisorSpec => []SupIInv
  BY SupInitEstablishes, SupNextKeeps, PTL DEF SupervisorSpec

\* The variables keep their types; the restart history never outgrows the budget by more than one.
THEOREM SupervisorIsTyped == SupervisorSpec => []SupervisorTypeOK
<1>1. SupIInv => SupervisorTypeOK
  BY DEF SupIInv
<1> QED
  BY <1>1, SupervisorInvariant, PTL

\* At most one backend of the supervisor's own runs, none once it has ended by itself.
THEOREM OneBackendIsSupervised == SupervisorSpec => []OneSupervisedBackend
<1>1. SupIInv => OneSupervisedBackend
  BY DEF SupIInv
<1> QED
  BY <1>1, SupervisorInvariant, PTL

\* Restarts after updates are never charged to the crash budget.
THEOREM UpdatesAreNotCrashes == SupervisorSpec => []GivesUpOnlyAfterCrashes
<1>1. SupIInv => GivesUpOnlyAfterCrashes
  BY DEF SupIInv
<1> QED
  BY <1>1, SupervisorInvariant, PTL

\* After a signal, only a restart whose delay has begun still launches a backend.
THEOREM ShutdownStaysFinal == SupervisorSpec => ShutdownIsFinal
<1>1. [SupervisorNext]_supervisorVars => [shuttingDown /\ child' # child => supervisor = "sleeping"]_supervisorVars
  <2> SUFFICES ASSUME SupervisorNext, shuttingDown, child' # child PROVE supervisor = "sleeping"
    BY DEF supervisorVars
  <2> QED
    BY DEF SupervisorNext, LoopStep, LoopReturns, CrashIsCounted, RelaunchAfterUpdate, SleepEnds, RestartAges,
           UpdateIsApplied, InstallFails, Pulls, ShutdownIsHandled, SupervisorIsKilled, BackendCrashes,
           BackendStops, RestartIsRequested, processVars
<1> QED
  BY <1>1, PTL DEF SupervisorSpec, ShutdownIsFinal

=============================================================================
