CONSTANTS
  Processes = {p1, p2}
  Users = {alice}
  NoFile = NoFile
  Torn = Torn
  None = None
  Interactive = TRUE
  Commands = {"login", "logout", "build"}
  CanBeKilled = FALSE
SPECIFICATION Spec
INVARIANT LogoutStays
