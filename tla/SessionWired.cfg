SPECIFICATION Spec

CONSTANTS
  Absent = Absent
  Corrupt = Corrupt
  a1 = a1
  a2 = a2
  cli = cli
  r1 = r1
  r2 = r2
  Procs = {a1, a2}
  FrontEnd <- OneApp
  Runs = {r1, r2}
  Ports = {p1, p2}
  NoRun = NoRun
  NoProc = NoProc
  SaveFaults = 1
  Crashes = 1
  Takes = {"wired", "dashboard"}
  Asks = {"reconcile", "Cancel", "quit"}
  PidReuse = TRUE

INVARIANTS
  ForwardsRecordedFirst
  

PROPERTIES
  ForwardsStayOnRecord

SYMMETRY RunsAndApps
CHECK_DEADLOCK FALSE
