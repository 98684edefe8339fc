SPECIFICATION FairSpec
CONSTANTS
  Node = {n1, n2}
  Conn = {c1, c2}
  None = None
INVARIANTS QuietTablesAgree
PROPERTIES CrossedConnectionsEnd
