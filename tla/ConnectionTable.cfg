SPECIFICATION Spec
CONSTANTS
  me = me
  hp = hp
  lan = lan
  alias = alias
  ui = ui
  p = p
  q = q
  self = self
  api = api
  None = None
  Host = {hp, lan, ui}
  SelfHost = {}
  DialableHost = {hp, lan}
  LocalRoute = {lan}
  ApiHost = ui
  Address = {self, api, p, q}
  SelfAddress = self
  ApiAddress = api
  Advertised <- MCAdvertised
  InboundIdentity <- MCSharedName
  Socket = {s1, s2, s3}
  MaxAttempts = 2
  MaxFailures = 1
SYMMETRY SocketSymmetry
INVARIANTS
  CacheProvesItsHostname
  TableMatchesConnections
  KnownPeersAreConnected
  ReconnectChainsAreAlive
PROPERTIES
  OnlyItsOwnCloseUnlistsAPeer
