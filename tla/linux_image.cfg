SPECIFICATION FairSpec
CONSTANTS
  PatchSeries <- SomeSeries
  Changes = 2
  Faults = 2
INVARIANTS
  TypeOK
  PatchedMeansClean
  KernelMatchesConfig
  RamDiskIsCurrent
PROPERTIES
  CurrentImageStays
  RepeatedMakeFinishes
