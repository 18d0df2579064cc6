CONSTANTS
  Paths <- MCPaths
  DirectoryOf <- MCDirectoryOf
  NoDirectory = "none"
  Directories <- MCDirectories
  MaxCommands = 2
  PlatformNames = {"android", "ios", "wp8"}
  Resources <- MCResources
  ConfigXmls <- MCConfigXmls
  PartOf <- MCPartOf
  CorePlugins = {"plugins/core"}
  ResourceTypes = {"drawable", "mipmap"}
  ScreenSizes = {"mdpi", "hdpi"}
  XmlResourceTypes = {"layout"}
  LayoutSizes = {"small", "large"}
  Orientations = {"", "land", "port"}
  TemplateFiles <- MCTemplateFiles
  ScreenBuilderFiles = {"app.js"}
  SampleFiles = {".abproject", "index.html"}
  OldProjectFiles = {"a.proj"}
  Listing <- MCListing
  CwdHasCordovaJs = TRUE
  Pages = 2
  Solutions <- MCSolutions
  Apps <- MCApps
  Migrating <- MCMigrating
  Keys <- MCKeys
  IndexOf <- MCIndexOf
  Identities = {"whole", "Ap", "App2", "0001", "none"}
  Whole = "whole"
  Begins <- MCBegins
  WithFile <- MCWithFile
SPECIFICATION Spec
INVARIANTS
  UserFilesSafe
  FailedLeavesNothing
  NamedIsThere
  FromCloudWhole
CHECK_DEADLOCK FALSE
