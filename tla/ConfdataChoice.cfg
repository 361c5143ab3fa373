SPECIFICATION Spec
CONSTANTS
  mods = mods  core = core  net = net  usb = usb
  gate = gate  one = one  two = two  group = group
  None = None  Unset = Unset  MaxSets = 2
  Options <- ChoiceOptions
  ChoiceSymbols = {group}
  Tristate = {}
  Members <- ChoiceMembers
  Optional = {}
  Depends <- ChoiceDepends
  Asks <- ChoiceAsks
  Defaults <- ChoiceDefaults
  Selects = {}
  Modules = None
INVARIANTS
  TypeOK
  NoReentry
  SavedIsReread
  KeptIsMeant
