CONSTANTS
  Workers = {w1, w2}
  Failing = {}
  Unresolvable = {"HcsRegisterProcessCallback"}
  MayDisconnect = FALSE
SPECIFICATION SafeSpec
INVARIANT RollbackNeverSelfLocks
