CONSTANTS
  Debug = "debug"
  Release = "release"
  Configurations = {"debug", "release"}
  Records <- ThreePluginsRecords
  Ids <- ThreePluginsIds
  Undefined = Undefined
  Missing = Missing
  InitialFiles <- NoFilesOrBoth
  PropValues <- CoreOnly
  PropModes = {"add"}
  KnownPlugins <- ThreePlugins
  ObsoletedBy <- ObsoleteReplacedByM
  NoId = "noId"
  NoVersion = "none"
  LivePatch = "livePatch"
  PluginCommands = {"add", "remove", "configure"}
  InitialCores <- NoPluginsOrBothCore
  CanBeCutShort = TRUE
SPECIFICATION Spec
INVARIANTS
  TypeOK
  OneVersionPerConfiguration
  OnlyAsAsked
  OldOrNew
  SavedWhenOk
  ObsoleteNotBeside
  VariablesComeWithPlugin
