SPECIFICATION FairSpec

CONSTANTS
  app = app
  cli = cli
  raw = raw
  launch = launch
  build = build
  revert = revert
  relaunch = relaunch
  NoOne = NoOne
  Procs = {app, cli, raw}
  Unfiled = {raw}
  Ops = {launch, build, revert, relaunch}
  Home <- MCHome
  Kind <- MCKind

INVARIANTS
  NoEditUnderGame
  OnePerProcess
  HandedOverUnlocked

PROPERTIES
  CancelledWaitEnds

CHECK_DEADLOCK FALSE
