SPECIFICATION FairSpec
CONSTANTS
  Builds = {b1, b2}
  Sites <- AllSites
  Methods = {"wget", "git", "svn"}
  Cuts = {"primary", "site", "backup"}
  Kills = TRUE
INVARIANTS
  TypeOK
  WholeUnlessDisturbed
PROPERTIES
  WholeStaysWhole
  ArchiveArrives
