CONSTANTS
  Processes = {p1, p2}
  Applications = {"simulator", "debugger"}
  Scaffolding = "app-scaffolding"
  Simulator = "simulator"
  MaxVersion = 2
  MaxCommands = 3
SPECIFICATION Spec
INVARIANTS
  PackagesAreFresh
  StartedIsWhole
  KendoOldOrNew
CHECK_DEADLOCK FALSE
