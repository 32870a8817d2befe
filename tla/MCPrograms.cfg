CONSTANTS
  TarTexts <- MCTarTexts
  Dirs <- MCDirs
  Archives <- MCArchives
  Endings = {2}
  Existing <- MCExisting
  Refusals <- MCRefusals
  Daemons = {d1, d2}
  Codes = {0, 3}
  Writers = {w1, w2}
  Messages <- MCMessages
  Fifos = {TRUE, FALSE}
  Images <- MCImages
  Filesystems <- MCFilesystems
  Byte = 256
  Rules <- MCRules
  Bases = {0, 250}
  Tables <- MCTables
  Lists <- MCLists
  ExtTypes <- MCExtTypes
  Names = {"HOME", "TERM", "X"}
  Sizes <- MCSizes
  PartTypes <- MCPartTypes
  Start <- MCStart
  MaxVars = 8
  Listings <- MCListings
  Sums = {"1", "2"}
  Systems <- MCSystems
  Secret <- MCSecret
  Onlys <- MCOnlys
  Lockers = {l1, l2, l3}
  Left <- MCLeft
  MaxNum = 4
  Displayers = {p1, t1}
  Tees = {t1}
  Texts <- MCTexts
  MaxWait = 1
  FileNames <- MCFileNames
  Targets <- MCTargets
  Devices <- MCDevices
  LastEntry = 4
  Rounds = {1, 2, 3}
  MaxCalls = 2
  Presses = {k1, k2, k3}
  Earlier = {k1}
SPECIFICATION ProgramsSpec
INVARIANTS
  SuccessIsComplete
  StatusIsJobs
  EffectTells
  AllDevices
  BestIsLeast
  EnvKept
  ReportIsComparison
  OneHolder
  TextInOrder
  RoundTrip
  SeriesKept
  ConfirmedShutsDown
PROPERTIES
  RightPair
  RunLevelHeard
  CommandEnds
  AllEnd
CHECK_DEADLOCK FALSE
