CONSTANTS
  Host = {h1}
  Subject = {p1, p2}
  None = None
  MaxRequests = 2
  MaxMishaps = 2
  MaxAttempts = 1
  h1 = h1
  p1 = p1
  p2 = p2
SPECIFICATION Spec
INVARIANTS ShownConfigIsCurrent SpinnerIsHonest PeerStatsAreItsOwn
PROPERTY PageSettles
CHECK_DEADLOCK FALSE
