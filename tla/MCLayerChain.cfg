CONSTANTS
  NameToGuid <- Guids
  Lower <- Small
  Configs <- SomeConfigs
  Chains <- AllChains
  NotText = NotText
  OwnName <- Own
  VolumePath = "volume"
  HostName = "host"
  InlineMax = 3
SPECIFICATION Spec
INVARIANT TypeOK
INVARIANT DriverSeesChain
INVARIANT DocumentStacksSameLayers
INVARIANT ProcessRunsInItsDirectory
INVARIANT AffinityMaskRead
