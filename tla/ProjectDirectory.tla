-------------------------- MODULE ProjectDirectory --------------------------
(***************************************************************************)
(* The directory in which a command of the CLI creates a project, or       *)
(* initializes one from the files that are there, and the command at work  *)
(* in it.  Each command is a sequence of steps on the files; any of them   *)
(* may fail, and the process may be killed between two of them.            *)
(***************************************************************************)
EXTENDS FiniteSets, FiniteSetsExt, Sequences, SequencesExt, Functions, Naturals

CONSTANTS
  Paths,          \* files of the directory that matter, those in Ionic_Backup apart
  DirectoryOf,    \* the directory at the top each file is in, or NoDirectory
  NoDirectory,
  Directories,    \* contents the directory may have at first: sets of Paths
  MaxCommands     \* bound: commands given

ASSUME PathsAssumption ==
  /\ {".abproject", ".abignore", "cordova.js", "index.html", "package.json", "ionic.project"} \subseteq Paths
  /\ Directories \subseteq SUBSET Paths
ASSUME MaxCommandsAssumption == MaxCommands \in Nat

VARIABLES
  project,   \* what each file is: Absent, or made by one of Makers
  pc,        \* the next step of the command
  task,      \* what it was asked, and what it found out
  outcome,   \* how the last one ended
  before,    \* history: the files at its start
  commands   \* history: how many there were

directoryVars == <<project, pc, task, outcome, before, commands>>

Absent == "absent"
User == "user"
Template == "template"
Cli == "cli"
Contents == {Absent, User, Template, Cli}

(* template: "Blank" or "screenbuilder"; backup and ionic: see init;        *)
(* silent: files the backup left out without an error, notCloned: those     *)
(* that so are missing from App_Resources; leftovers: whether something of a *)
(* failed creation could not be deleted, or was not meant to be.           *)
NoTask == [command |-> "none", framework |-> "none", template |-> "none", ionic |-> FALSE, backup |-> FALSE,
           properties |-> "none", silent |-> {}, notCloned |-> {}, leftovers |-> FALSE]

Has(path) == project[path] # Absent
Existing == {path \in Paths : Has(path)}
In(directory) == {path \in Paths : DirectoryOf[path] = directory}
HasDirectory(directory) == \E path \in In(directory) : Has(path)

Put(paths, content) == [path \in Paths |-> IF path \in paths THEN content ELSE project[path]]
(* unzip with overwriteExisitingFiles: false *)
PutMissing(paths, content) == Put({path \in paths : ~Has(path)}, content)

DirectoryTypeOK ==
  /\ project \in [Paths -> Contents]
  /\ before \in [Paths -> Contents]
  /\ commands \in 0..MaxCommands
  /\ task.silent \subseteq Paths /\ task.notCloned \subseteq Paths

DirectoryInit ==
  /\ \E files \in Directories : project = [path \in Paths |-> IF path \in files THEN User ELSE Absent]
  /\ pc = "idle"
  /\ task = NoTask
  /\ outcome = "none"
  /\ before = project
  /\ commands = 0

Begin(new, first) ==
  /\ pc = "idle" /\ commands < MaxCommands
  /\ commands' = commands + 1
  /\ task' = new
  /\ before' = project
  /\ pc' = first
  /\ outcome' = "none"

(* A command refused before its first step on the files. *)
Refuse(new) ==
  /\ pc = "idle" /\ commands < MaxCommands
  /\ commands' = commands + 1
  /\ task' = new
  /\ before' = project
  /\ outcome' = "refused"
  /\ UNCHANGED pc

Goto(next) == pc' = next /\ UNCHANGED <<task, outcome, before, commands>>
End(result) == pc' = "idle" /\ outcome' = result /\ UNCHANGED <<task, before, commands>>
==========================================================================
