SPECIFICATION FairSpec
CONSTANTS
  Boards <- Attached
  MaxRetries = 2
  Wire = 2
  Losses = 1
INVARIANTS
  TypeOK
  ExecutesPlan
  CommandsOnlyWhenConfigured
  SequenceStartsOver
  CommandKept
PROPERTIES
  Terminates
CHECK_DEADLOCK FALSE
