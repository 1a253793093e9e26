SPECIFICATION Spec
CONSTANTS
  Builds = {b1}
  Sites <- SiteAndBackup
  Methods = {"wget"}
  Cuts = {"site"}
  Kills = FALSE
INVARIANTS
  BackupIsUsed
