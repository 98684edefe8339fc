SPECIFICATION Spec
CONSTANTS
  p1 = p1
  p2 = p2
  p3 = p3
  a1 = a1
  a2 = a2
  t1 = t1
  s1 = s1
  s2 = s2
  Peer = {p1, p2, p3}
  Artist = {a1, a2}
  Track = {t1}
  Soul = {s1, s2}
  SoulOf <- EachItsSoul
  Contested = {s1}
  Catalogue = {a1, a2}
  Confidence <- AgainstOrFor
  Full = 1
  MaxFound = 3
  MaxRows = 3
  NoId = NoId
INVARIANTS
  OwnResultsAreReturned
  EveryPeerIsAsked
  TrustedVotesWin
PROPERTIES
  SearchesEnd
CHECK_DEADLOCK FALSE
