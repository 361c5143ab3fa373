SPECIFICATION FairSpec
CONSTANTS
  lib = lib  app = app  tool = tool
  Packages <- MCPackages
  Dependances <- MCDependances
  Method <- AllTar
  DestInBuild = {}
  KeepCopy = FALSE
  Jobs = 1
  Breakable = {"download", "configure", "build", "publish"}
  MaxFaults = 2
INVARIANTS
  ConfiguredIsFetched
  StampIsFetched
PROPERTIES
  EventuallyPublished
  ImplementsLifeFairly
