CONSTANTS
  Processes = {p1}
  Users = {alice, bob}
  NoFile = NoFile
  Torn = Torn
  None = None
  Interactive = FALSE
  Commands <- AllCommands
  CanBeKilled = TRUE
SPECIFICATION Spec
INVARIANTS
  FilesOfOneUser
  TenantMatchesSession
  LogoutStays
PROPERTIES
  SettingsOfUser
  EveryCommandEnds
