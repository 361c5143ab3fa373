SPECIFICATION BothSpec
CONSTANTS
  h1 = h1  h2 = h2
  Headers <- MCHeaders
  Source = src
  None = None
  Forced = FALSE
  Suffixed = FALSE
\* A program whose flags do not change.
  Commands = {O1}
  Faults = {"cc", "interrupt"}
\* One whose .cmd file may fall behind.
  NewCommands = {O1, O2}
  AllFaults = {"cc", "fixdep", "interrupt", "kill"}
INVARIANTS
  SuccessMeansFresh
  PartedMissesOnlyNew
PROPERTIES
  NoNeedlessCompile
