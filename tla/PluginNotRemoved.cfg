CONSTANTS
  Names = {"p", "q"}
  Marketplace <- MCMarketplace
  Npm <- MCNpm
  Variable <- MCVariable
  Paths <- MCPaths
  Tarballs = {"/q.tgz", "plugins/q.tgz"}
  Outside <- MCOutside
  InProject <- MCInProject
  PluginsDir <- MCPluginsDir
  InitialContent <- MCInitialContent
  UrlPlugin = "q"
  NoPlugin = "none"
  NoPath = "nowhere"
  SupportedVersions = {1, 2}
  WithModules = {1, 2}
  TypeScript = TRUE
  Search <- MCSearch
  Typed <- MCTyped
  Counts = {1, 2}
SPECIFICATION Spec
PROPERTY RemovesInstalled
