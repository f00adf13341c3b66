CONSTANTS
  Workers = {w1, w2}
  Failing <- CallsButSystem
  Unresolvable <- NoCall
  MayDisconnect = FALSE
SPECIFICATION SafeSpec
PROPERTY LatchProtocol
PROPERTY KeepsHostClean
