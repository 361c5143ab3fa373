SPECIFICATION Spec
CONSTANTS
  lib = lib  app = app  tool = tool
  Packages <- MCPackages3
  Dependances <- MCDependances3
  Method <- OneOfEach
  DestInBuild = {}
  KeepCopy = FALSE
  Jobs = 2
  Breakable = {"download", "configure", "build", "publish"}
  MaxFaults = 1
INVARIANTS
  TypeOK
  NothingLost
  NeedsArePublished
  SuccessMeansPublished
PROPERTIES
  ImplementsLife
