SPECIFICATION Spec
CONSTANTS
  root = root  drivers = drivers  core = core  usb = usb
  one = one  two = two  extra = extra  group = group  net = net
  None = None  Unset = Unset  Absent = Absent
  Options <- AutoOptions
  ChoiceSymbols = {}
  Tristate = {}
  Members <- AutoMembers
  Optional = {}
  Depends <- AutoDepends
  Asks <- AutoAsks
  Defaults <- AutoDefaults
  Selects <- TreeSelects
  Modules = None
  Menus = {root}
  MenuConfigs = {core}
  Root = root
  Children <- AutoChildren
  Shows <- AutoShows
  FirstFiles = {Absent}
INVARIANTS
  AllAreAnsweredNo
CHECK_DEADLOCK FALSE
