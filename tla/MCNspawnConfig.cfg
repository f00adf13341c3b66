CONSTANTS
  Documents <- ChangedDocuments
  Max16 = 65535
  Max32 = 1000000
SPECIFICATION Spec
INVARIANT TypeOK
INVARIANT HoldsWhatWasSaid
INVARIANT PrintedReadsBack
