CONSTANTS
  Workers = {w1, w2, w3}
  Failing <- AllCalls
  Unresolvable <- SomeExports
  MayDisconnect = TRUE
SPECIFICATION Spec
INVARIANT TypeOK
INVARIANT WaitsHaveEnded
INVARIANT LayerOutlivesSystem
INVARIANT LayerLeftIffReported
INVARIANT LateCallbackReported
INVARIANT DeathHasCause
PROPERTY EventuallyReturns
