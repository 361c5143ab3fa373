SPECIFICATION Spec
CONSTANTS
  Bools <- MenuBools
  Tristates <- MenuTristates
  Statements <- MenuStatements
  Files = {"Config.in", "drivers/Config.in"}
  Main = "Config.in"
  Orders <- MenuOrders
  MaxEntries = 3
INVARIANTS
  TypeOK
  TreeIsKept
  DependencyIsKept
  SubmenuFollows
  CyclesAreNamed
CHECK_DEADLOCK FALSE
