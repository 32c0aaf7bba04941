SPECIFICATION DeskSpec

CONSTANTS
  Workloads = {"session", "quit"}
  Absent = Absent
  Corrupt = Corrupt
  a1 = a1
  a2 = a2
  cli = cli
  r1 = r1
  r2 = r2
  Procs = {a1}
  FrontEnd <- OneApp
  Runs = {r1}
  Ports = {}
  NoRun = NoRun
  NoProc = NoProc
  SaveFaults = 1
  Crashes = 0
  Takes = {"audio"}
  Asks = {"reconcile", "Cancel", "Stop", "Detach"}
  PidReuse = FALSE
  Calls = {c1, c2}
  QuitTimeout = 2
  MaxCancels = 1


  
  

PROPERTIES
  QuitGoesThrough
  StopIsAnswered
  CancelledLaunchEnds
  OperationLockReturns

CHECK_DEADLOCK FALSE
