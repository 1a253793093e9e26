SPECIFICATION Spec
CONSTANTS
  Selections <- SomeSelections
  Rules <- SomeRules
  Calls = 2
  Faults = 2
INVARIANTS
  TypeOK
  BuildsTheChosen
  BuiltAsSelected
  FailsOnlyByFault
  RootfsComplete
