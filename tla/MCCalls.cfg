CONSTANTS
  Threads = {t1, t2}
  NULL = NULL
  Blocks = {b1, b2}
  Natives = {n1, n2}
  LC_GLOBAL_LOCALE = LC_GLOBAL_LOCALE
  Cells = {c1, c2, c3}
  Arguments = {a1, a2}
  Infos <- SomeInfos
  Interfaces <- SomeInterfaces
  Files <- SomeFiles
  MaxLength = 3
  FirstRoom = 2
  Slots = {r1, r2}
  Zones <- SomeZones
  LastYear = 71
  OptionValues = {0, 2}
  MaxOptionsSet = 2
  Handlers = {h1, h2}
  Libraries = {l1, l2}
  Boxes = {x1, x2}
  ProgramPaths <- SomePaths
  Nodes = {0, 253, 254}
  Overrides <- SomeOverrides
SPECIFICATION Spec
INVARIANTS NativesOwned UsesWhatItSays LconvOfProcess
  OwnArgument CellsApart
  SettingsRead ObjectsAsAsked
  NothingLeft CopiesComplete
  OfOneZone
  OptionsKept HandlersInTheirLibrary  NamesTold
SYMMETRY Symmetry
CHECK_DEADLOCK FALSE
