SPECIFICATION FairSpec
CONSTANTS
  lib = lib
  app = app
  NoPkg = NoPkg
  Pkgs = {lib, app}
  Deps <- DepsOfTwo
  Level <- LevelOfTwo
  TARGETS <- TargetsOfTwo
  Host = {lib}
  Staging = {}
  Target = {app}
  HasPatches = {lib}
  Goals = {"source", "extract", "patch", "configure", "build", "install",
           "uninstall", "clean", "dirclean"}
  Ops = {"wipe", "hostclean"}
PROPERTIES
  BuildSucceeds
