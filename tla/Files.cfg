SPECIFICATION FilesSpec
CONSTANTS
  Workloads = {"writer", "toml", "goldberg", "stores", "manifest", "provision", "preflight"}
  one = one
  two = two
  Callers = {one, two}
  Contents = {a, b}
  None = None
  Torn = Torn
  MaxJournal = 2
  Writers = {one, two}
  Accepted <- MCAccepted
  Numeric = {"bitrate"}
  Offered = {"alvr", "80", "9000"}
  Docs <- MCDocs
  Template <- MCTemplate
  Keep = 1
  CommitOutcomes = {"ok", "early"}
  MaxDoors = 2
  MaxUpsets = 1
  MaxSaves = 2
  MaxEdits = 1
  MaxClock = 1
  MaxPerSecond = 2
  MaxLaunches = 2
  MaxChanges = 2
  Tasks = {one, two}
  Games = {g1, g2}
  Forms = {"old", "new"}
  Sessions = {"last"}
  MaxTxns = 4
  Checkouts = {m1, m2}
  MaxInstalls = 3
  MaxHours = 1
  Files = {one, two}
  Pins = {1, 2}
  Offers <- MCOffers
  Missing = Missing
  Truncated = Truncated
  Stock = Stock
  NoBackup = NoBackup
SYMMETRY Symmetry
INVARIANTS  TrustedIsWhole FixesHold
PROPERTIES FileIsAtomic ReplacedIsBackedUp SavedValueIsRead SteamDllSurvives
            StagingOutlivesItsCopy LaunchIsVerified
CHECK_DEADLOCK FALSE
