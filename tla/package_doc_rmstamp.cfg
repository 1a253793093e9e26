SPECIFICATION Spec
CONSTANTS
  lib = lib
  app = app
  NoPkg = NoPkg
  Pkgs = {lib, app}
  Deps <- DepsOfTwo
  Level <- LevelOfTwo
  TARGETS <- TargetsOfTwo
  Host = {}
  Staging = {lib}
  Target = {lib, app}
  HasPatches = {lib}
  Goals = {"install"}
  Ops = {"rmstamp"}
INVARIANTS
  RecompiledAfterConfigure
