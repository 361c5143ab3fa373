SPECIFICATION Spec
CONSTANTS
  root = root  drivers = drivers  core = core  usb = usb
  one = one  two = two  extra = extra  group = group  net = net
  None = None  Unset = Unset  Absent = Absent
  Options <- TreeOptions
  ChoiceSymbols = {group}
  Tristate = {}
  Members <- TreeMembers
  Optional = {}
  Depends <- TreeDepends
  Asks <- TreeAsks
  Defaults <- TreeDefaults
  Selects <- TreeSelects
  Modules = None
  Menus = {root, drivers}
  MenuConfigs = {core}
  Root = root
  Children <- TreeChildren
  Shows <- TreeShows
  FirstFiles <- TreeFiles
INVARIANTS
  TypeOK
  AllAsked
  UnaskedIsUnchanged
  RuleIsKept
PROPERTIES
  DialogueEnds
CHECK_DEADLOCK FALSE
