CONSTANTS
  Callers = {c1, c2, c3}
  Functions = {f1, f2}
  Serialised = TRUE
SPECIFICATION Spec
INVARIANT TypeOK
INVARIANT OneInitialiser
INVARIANT InvokesFound
PROPERTY KeepsTable
