SPECIFICATION Spec
CONSTANTS
  lib = lib  app = app  tool = tool
  Packages <- MCPackages
  Dependances <- MCDependances
  Method <- AllTar
  DestInBuild = {}
  KeepCopy = FALSE
  Jobs = 1
  Breakable = {"install"}
  MaxFaults = 1
INVARIANTS
  SuccessMeansPublished
