SPECIFICATION Spec
CONSTANTS
  lib = lib
  app = app
  NoPkg = NoPkg
  Pkgs = {lib, app}
  Deps <- DepsOfTwo
  Level <- LevelOfTwo
  TARGETS <- TargetsOfTwo
  Host = {}
  Staging = {lib}
  Target = {lib, app}
  HasPatches = {lib}
  Goals = {"install", "uninstall", "dirclean", "clean"}
  Ops = {"stop"}
INVARIANTS
  TypeOK
  StampHonest
  DepsInstalledAtConfigure
  SuccessIsUpToDate
PROPERTIES
  DependencyOrderSpec
