SPECIFICATION Spec
CONSTANTS
  Absent = Absent
  Corrupt = Corrupt
  NoOne = NoOne
  NoState = NoState
  app = app
  cli = cli
  t1 = t1
  t3 = t3
  Procs = {app, cli}
  Runs = {r1, r2}
  Threads = {t1, t3}
  Build <- MCBuild
  FrontEnd <- MCFrontEnd
PROPERTIES AtomicStore ForeignRecordKept
CHECK_DEADLOCK FALSE
SYMMETRY RunSymmetry
