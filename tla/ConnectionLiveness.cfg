SPECIFICATION FairSpec
CONSTANTS
  me = me
  hp = hp
  lan = lan
  alias = alias
  ui = ui
  p = p
  q = q
  self = self
  api = api
  None = None
  Host = {me, hp, alias, ui}
  SelfHost = {me}
  DialableHost = {me, hp, alias}
  LocalRoute = {}
  ApiHost = ui
  Address = {self, api, p}
  SelfAddress = self
  ApiAddress = api
  Advertised <- MCAdvertised
  InboundIdentity <- MCPeerAndTwin
  Socket = {s1}
  MaxAttempts = 2
  MaxFailures = 1
PROPERTIES
  NoDialLeadsToItself
  DialsEnd
  ReconnectChainsEnd
