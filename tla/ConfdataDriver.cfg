SPECIFICATION Spec
CONSTANTS
  mods = mods  core = core  net = net  usb = usb
  gate = gate  one = one  two = two  group = group
  None = None  Unset = Unset  MaxSets = 2
  Options <- DriverOptions
  ChoiceSymbols = {group}
  Tristate = {one, two, group}
  Members <- ChoiceMembers
  Optional = {}
  Depends <- DriverDepends
  Asks <- DriverAsks
  Defaults <- DriverDefaults
  Selects = {}
  Modules = mods
INVARIANTS
  ChoiceIsExclusive
  AnswerHolds
