CONSTANTS
  Debug = "debug"
  Release = "release"
  Configurations = {"debug", "release"}
  Records <- AllRecords
  Ids = {}
  Undefined = Undefined
  Missing = Missing
  InitialFiles <- NoFilesOrBoth
  FrameworkVersions = {30, 37, 40}
  StableVersions = {30, 37}
  Sdks = {80, 81}
  IntegratedPlugins <- Integrated
  InitialLists <- Lists
  Marketplace = {"m@1"}
  AvailableFor <- Available
  RenamedPlugins <- Renames
  DefaultEnabled = {"whitelist"}
  AcceleratedFrom = 40
  Platforms <- IosAndroid
  NoBackup = NoBackup
  Torn = Torn
  CanBeKilled = TRUE
SPECIFICATION Spec
INVARIANTS
  VersionsFit
  MigratedOnce
  UpgradeKeepsPlugins
  FailedKeepsProject
  JsAllOrNone
