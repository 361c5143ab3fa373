\* A configuration with and one without a copy beside it, and a directory
\* named to mconf; three runs of install under make -j, two of which make
\* the directory "usr".
CONSTANTS
  Targets = {"default", "named", "directory"}
  Default = "default"
  Kept = {"default", "named"}
  MaxSaves = 4
  MaxFull = 1
  Absent = Absent
  Jobs = {"lib", "bin", "conf"}
  Command <- Commands
  Before <- Etc
  Olds <- EtcConf
  Faults = {"kill", "write", "unlink"}
  MaxFaults = 2
  None = None
SPECIFICATION FilesSpec
INVARIANTS
  SavedIsSomewhere
  OneBeforeIsKept
  
  NoFalseFailure
  OldIsKept
  SuccessIsInstalled
PROPERTY InstallEnds
\* The bound on the saves is reached, or everything is installed.
CHECK_DEADLOCK FALSE
