SPECIFICATION FairSupervisorSpec
CONSTANTS
  Process = {p1, p2, p3}
  ShutdownSignal = {"SIGINT", "SIGTERM"}
  MaxCrashRestarts = 2
  MaxVersion = 2
INVARIANTS OneSupervisedBackend
PROPERTIES ShutdownIsFinal BackendComesBack
CHECK_DEADLOCK FALSE
