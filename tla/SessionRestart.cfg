SPECIFICATION Spec

CONSTANTS
  Absent = Absent
  Corrupt = Corrupt
  a1 = a1
  a2 = a2
  cli = cli
  r1 = r1
  r2 = r2
  Procs = {a1, a2}
  FrontEnd <- OneApp
  Runs = {r1, r2}
  Ports = {}
  NoRun = NoRun
  NoProc = NoProc
  SaveFaults = 1
  Crashes = 1
  Takes = {"audio"}
  Asks = {"reconcile", "stop", "Cancel", "Detach", "quit"}
  PidReuse = FALSE

INVARIANTS
  OutputRecoverable
  RecordedDeviceIsReal

SYMMETRY RunsAndApps
CHECK_DEADLOCK FALSE
