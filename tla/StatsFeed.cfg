SPECIFICATION Spec
CONSTANTS
  m2 = m2
  m1 = m1
  Msg = {m1, m2}
  Global = {m2}
  MaxChanges = 1
  MaxPackets = 2
  MaxBreaks = 1
  MaxLookups = 2
INVARIANTS
  AtMostTwoTimers
  MissesOnlyInTwoWays
CHECK_DEADLOCK FALSE
PROPERTIES
  StatsAreShown
