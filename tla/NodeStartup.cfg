SPECIFICATION StartupSpec
CONSTANTS
  LivePath = {}
  RestartPath = {}
  HostPath = "hostname"
  PortPath = "port"
  Choice <- MCChoice
  Valid <- MCValid
  Default <- MCDefault
  Address = {home}
  FreePort = {4545}
  PatchSize = 1
  None = None
  ann = ann
  bob = bob
  myHost = myHost
  home = home
  Host = {ann, bob}
  Bootstrap = {ann}
  RequireReady = TRUE
  MaxStarts = 2
INVARIANTS MappingsAreAccountedFor
PROPERTIES PromisedIsUsed OrderlyExitLeavesNoMapping LostPeersAreDialled StartupAndExitEnd
CHECK_DEADLOCK FALSE
