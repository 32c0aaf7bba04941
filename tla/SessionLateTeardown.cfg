SPECIFICATION Spec

CONSTANTS
  Absent = Absent
  Corrupt = Corrupt
  a1 = a1
  a2 = a2
  cli = cli
  r1 = r1
  r2 = r2
  Procs = {a1, cli}
  FrontEnd <- OneApp
  Runs = {r1, r2}
  Ports = {}
  NoRun = NoRun
  NoProc = NoProc
  SaveFaults = 0
  Crashes = 0
  Takes = {"audio"}
  Asks = {}
  PidReuse = FALSE

PROPERTIES
  TeardownClearsItsOwn

SYMMETRY RunsAndApps
CHECK_DEADLOCK FALSE
