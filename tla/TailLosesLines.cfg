SPECIFICATION WaitsSpec
CONSTANTS
  Workloads = {"tail"}
  MaxIncarnations = 3
  MaxFileLines = 2
  MaxDeletes = 1
  Cap = 2
  Budget = 2
  Preloads = {0, 1}
  Leader = leader
  Kids = {k1}
  MaxBytes = 2
  Modes = {"stream", "probe"}
  Absent = Absent
  Corrupt = Corrupt
  NoOne = NoOne
  NoState = NoState
  app = app
  cli = cli
  t1 = t1
  t3 = t3
  Procs = {app, cli}
  Runs = {r1}
  Threads = {t1, t3}
  Build <- MCBuild
  FrontEnd <- MCFrontEnd
INVARIANTS ClearedPaneStartsTheFile
CHECK_DEADLOCK FALSE
