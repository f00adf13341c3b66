CONSTANTS
  Workers = {w1, w2}
  Failing = {"HcsStartComputeSystem"}
  Unresolvable = {}
  MayDisconnect = FALSE
SPECIFICATION SafeSpec
INVARIANT RollbackTerminatesSystem
