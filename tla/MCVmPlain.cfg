CONSTANTS
  Callers = {c1, c2}
  Functions = {f1, f2}
  Serialised = FALSE
SPECIFICATION SafeSpec
INVARIANT RaceLeavesNoTrace
