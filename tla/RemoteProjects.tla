--------------------------- MODULE RemoteProjects ---------------------------
(***************************************************************************)
(* cloud export: a solution of the cloud, or one project of it, downloaded *)
(* to a directory of its name (lib/services/remote-projects-service.ts,    *)
(* commands/cloud-projects.ts).  For users whose solutions are being       *)
(* migrated, apps are listed after the solutions, which are marked.        *)
(***************************************************************************)
EXTENDS ProjectDirectory

CONSTANTS
  Solutions,      \* those of the account, in order of name: [id, name, isApp, projects], projects too
  Apps,           \* what solutions have been migrated to, in the same form
  Migrating,      \* values of the migration feature to be considered
  Keys,           \* what a user types or selects for a solution: [text, mark]
  IndexOf,        \* the number a text is read as
  Identities,     \* what a user types for a project, or Whole
  Whole,
  Begins,         \* <<identity, project>>: the project's name begins with it
  WithFile        \* <<id, project>> whose export has a project file

ASSUME SolutionsAssumption ==
  /\ Solutions \in Seq(Range(Solutions)) /\ \A s \in Range(Solutions) : s.isApp = FALSE
  /\ Apps \in Seq(Range(Apps)) /\ \A s \in Range(Apps) : s.isApp = TRUE
  /\ \A s, r \in Range(Solutions) \cup Range(Apps) : s.id = r.id => s = r
  /\ \A s \in Range(Solutions) \cup Range(Apps) : s.projects \in Seq(Range(s.projects))
ASSUME KeysAssumption == \A key \in Keys : key.mark \in {"none", "marked", "colored"}
ASSUME MigratingAssumption == Migrating \subseteq BOOLEAN

VARIABLES
  migrating,      \* isMigrationEnabledForUser
  folders,        \* per name of a solution, what was exported there
  export          \* the export at work: the key typed, the solution and projects found, projects to look at

remoteVars == <<migrating, folders, export>>

Plain(text) == [text |-> text, mark |-> "none"]
NoApp == [id |-> "none", name |-> "none", isApp |-> FALSE, projects |-> <<>>]
NoExport == [key |-> Plain("none"), app |-> NoApp, single |-> FALSE, projects |-> {}, left |-> {}]
NoFolder == [there |-> FALSE, projects |-> {}, files |-> {}, warned |-> {}]
SolutionNames == {s.name : s \in Range(Solutions) \cup Range(Apps)}

RemoteInit ==
  /\ migrating \in IF Existing = {} THEN Migrating ELSE {FALSE}
  /\ folders = [name \in SolutionNames |-> NoFolder]
  /\ export = NoExport

--------------------------------------------------------------------------
(* getAvailableAppsAndSolutions *)
Available == Solutions \o (IF migrating THEN Apps ELSE <<>>)

Display(solution, mark) == [text |-> solution.name, mark |-> IF migrating /\ ~solution.isApp THEN mark ELSE "none"]

(* The ways getApp reads a key, in turn, and where each of them leads to. *)
Matching(key) ==
  <<{i \in DOMAIN Available : key = Display(Available[i], "colored")},
    {i \in DOMAIN Available : key = Display(Available[i], "marked")},
    {i \in DOMAIN Available : key = Plain(Available[i].id)},
    {i \in DOMAIN Available : key = Plain(Available[i].name)},
    {i \in DOMAIN Available : key \in DOMAIN IndexOf /\ i = IndexOf[key]}>>

(* getApp: the first by each of the names in turn, or by its number. *)
GetApp(key) ==
  LET ways == {way \in 1..5 : Matching(key)[way] # {}}
  IN IF ways = {} THEN NoApp ELSE Available[Min(Matching(key)[Min(ways)])]

(* getProjectName, findByNameOrIndex: the first that begins with it, or the *)
(* one with that number.                                                   *)
GetProjectName(app, identity) ==
  LET found == {i \in DOMAIN app.projects : <<identity, app.projects[i]>> \in Begins}
      key == Plain(identity)
  IN IF found # {} THEN app.projects[Min(found)]
     ELSE IF key \in DOMAIN IndexOf /\ IndexOf[key] \in DOMAIN app.projects THEN app.projects[IndexOf[key]]
     ELSE "none"

--------------------------------------------------------------------------
(* canExecute of CloudExportProjectsCommand: what is not found is refused,  *)
(* and so is an export in the directory of a project.                      *)
StartExport(key, identity) ==
  LET new == [NoTask EXCEPT !.command = "export"]
      app == GetApp(key)
      name == GetProjectName(app, identity)
      projects == IF identity = Whole THEN Range(app.projects) ELSE {name}
  IN /\ \/ Refuse(new) /\ UNCHANGED export
        \/ /\ app # NoApp /\ "none" \notin projects /\ projects # {}
           /\ ~Has(".abproject")
           /\ Begin(new, "export")
           /\ export' = [key |-> key, app |-> app, single |-> identity # Whole, projects |-> projects, left |-> {}]
     /\ UNCHANGED <<project, migrating, folders>>

(* getExportDir: what a failure has unpacked stays, and then another export *)
(* of that name fails.                                                     *)
Export ==
  /\ pc = "export"
  /\ LET name == export.app.name
         unpacked == [there |-> TRUE, projects |-> export.projects, files |-> {}, warned |-> {}]
     IN \/ End("failed") /\ UNCHANGED <<folders, export>>
        \/ ~folders[name].there /\ End("failed") /\ UNCHANGED export
           /\ folders' = [folders EXCEPT ![name].there = TRUE]
        \/ ~folders[name].there /\ Goto("project files")
           /\ folders' = [folders EXCEPT ![name] = unpacked]
           /\ export' = [export EXCEPT !.left = export.projects]
  /\ UNCHANGED <<project, migrating>>

(* As if it were always looked up by its name. *)
NameOfExported == Plain(export.app.name)

(* What names the solution whose properties a project file is made of: for  *)
(* a whole solution what was typed, for one project an app's id or a        *)
(* solution's name.                                                        *)
KeyOfProperties ==
  IF ~export.single THEN export.key
  ELSE Plain(IF export.app.isApp THEN export.app.id ELSE export.app.name)

(* createProjectFile, for a project that has none; an error is a warning. *)
CreateRemoteProjectFile ==
  /\ pc = "project files" /\ export.left # {}
  /\ LET name == export.app.name
         source == GetApp(KeyOfProperties)
     IN \E p \in export.left :
          LET made == [project |-> p, of |-> <<source.id, GetProjectName(source, p)>>]
          IN /\ export' = [export EXCEPT !.left = @ \ {p}]
             /\ \/ /\ <<export.app.id, p>> \in WithFile
                   /\ folders' = [folders EXCEPT ![name].files = @ \cup {[project |-> p, of |-> <<export.app.id, p>>]}]
                \/ /\ <<export.app.id, p>> \notin WithFile
                   /\ folders' = [folders EXCEPT ![name].warned = @ \cup {p}]
                \/ /\ <<export.app.id, p>> \notin WithFile /\ GetProjectName(source, p) # "none"
                   /\ folders' = [folders EXCEPT ![name].files = @ \cup {made}]
  /\ UNCHANGED <<directoryVars, migrating>>

ExportEnds ==
  /\ pc = "project files" /\ export.left = {}
  /\ End("exported")
  /\ UNCHANGED <<project, remoteVars>>

RemoteStep == Export \/ CreateRemoteProjectFile \/ ExportEnds
==========================================================================
