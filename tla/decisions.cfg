SPECIFICATION AllSpec
CONSTANTS
  None = None
  Alias = Alias
  NodeIds = {1, 2, 3, 4}
  SecretFields = {4}
  MaxDepth = 2
  MaxFanOut = 2
  MaxActiveNodes = 4
  MaxRetries = 1
  MaxStepDepth = 2
  MaxSteps = 4
CHECK_DEADLOCK FALSE
INVARIANTS AcceptsExactlyRootedDags SnapshotIgnoresRowOrder  HostPlansAreAdmitted  DispatchIsAuthorized ContextIsReadable ReadersAreListed
