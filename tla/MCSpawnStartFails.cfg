CONSTANTS
  Workers = {w1, w2}
  Failing = {}
  Unresolvable = {}
  MayDisconnect = FALSE
SPECIFICATION SafeSpec
INVARIANT StartedWhenWaited
