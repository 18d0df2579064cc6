CONSTANTS
  Debug = "debug"
  Release = "release"
  Configurations = {"debug", "release"}
  Records <- TwoCoreRecords
  Ids <- TwoCoreIds
  Undefined = Undefined
  Missing = Missing
  InitialFiles <- BothFiles
  PropValues <- AllTwoCore
  PropModes = {"add", "del", "set"}
  KnownPlugins <- TwoCore
  ObsoletedBy <- NoneObsolete
  NoId = "noId"
  NoVersion = "none"
  LivePatch = "livePatch"
  PluginCommands = {}
  InitialCores <- AllTwoCore
  CanBeCutShort = FALSE
SPECIFICATION Spec
INVARIANTS
  ListedInOnePlace
PROPERTY
  ImplementsEnabledPlugins
