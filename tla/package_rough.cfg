SPECIFICATION Spec
CONSTANTS
  lib = lib
  app = app
  NoPkg = NoPkg
  Pkgs = {lib}
  Deps <- DepsOfOne
  Level <- LevelOfOne
  TARGETS <- TargetsOfOne
  Host = {}
  Staging = {lib}
  Target = {lib}
  HasPatches = {lib}
  Goals = {"install", "clean", "dirclean"}
  Ops = {"stop", "rmstamp", "wipe", "cut"}
PROPERTIES
  HonestyLostOnlyWhenInterrupted
