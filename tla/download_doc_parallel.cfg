SPECIFICATION Spec
CONSTANTS
  Builds = {b1, b2}
  Sites <- SiteAndBackup
  Methods = {"wget"}
  Cuts = {}
  Kills = FALSE
INVARIANTS
  ParallelBuildsSafe
