CONSTANTS
  Awaited = {create, exit}
  Ignored = {disconnect}
  Workers = {w1, w2, w3}
SPECIFICATION Spec
INVARIANT TypeOK
INVARIANT LockHandOff
INVARIANT NoLostWakeup
INVARIANT OneNotifier
PROPERTY KeepsPromise
