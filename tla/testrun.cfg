SPECIFICATION FairSpec
CONSTANTS
  tp = "tp"
  NoProgram = ""
  Absent = Absent
  Configs <- Boards
  Screens = {TRUE, FALSE}
  Runnable = {"memtester", "wifitester", "keytester"}
  Endless = {"keytester"}
  Faults = {"launcher", "fork", "crash"}
  PipeCap = 2
  MaxTests = 4
  MaxReports = 2
INVARIANTS
  TypeOK
  TableIsSelection
  EveryItemFits
  WaitedTestsRunAlone
  NothingMissedAtTheEnd
PROPERTIES
  EveryResultIsShown
  RunCompletes
CHECK_DEADLOCK FALSE
