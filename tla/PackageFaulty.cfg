SPECIFICATION Spec
CONSTANTS
  lib = lib  app = app  tool = tool
  Packages <- MCPackages
  Dependances <- MCDependances
  Method <- LibFile
  DestInBuild = {app}
  KeepCopy = TRUE
  Jobs = 2
  Breakable = {"download", "configure", "build", "publish", "install"}
  MaxFaults = 2
INVARIANTS
  MarkedIsInstalled
PROPERTIES
  UnmarkedOnlyWhenPublished
