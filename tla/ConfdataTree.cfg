SPECIFICATION Spec
CONSTANTS
  mods = mods  core = core  net = net  usb = usb
  gate = gate  one = one  two = two  group = group
  None = None  Unset = Unset  MaxSets = 2
  Options <- TreeOptions
  ChoiceSymbols = {}
  Tristate = {core, net, usb}
  Members <- NoMembers
  Optional = {}
  Depends <- TreeDepends
  Asks <- TreeAsks
  Defaults <- TreeDefaults
  Selects <- TreeSelects
  Modules = mods
INVARIANTS
  SelectIsLowerLimit
  KeptIsMeant
