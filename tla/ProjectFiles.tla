--------------------------- MODULE ProjectFiles ---------------------------
(***************************************************************************)
(* The configuration of a project (lib/project.ts): .abproject and one     *)
(* optional file .<configuration>.abproject per build configuration, the   *)
(* copy a command holds in memory, and the steps every command shares:     *)
(* reading the files, writing them back one by one, and ending - or being  *)
(* killed, or failing, between two writes.                                 *)
(*                                                                         *)
(* Of the data only what the plugin commands touch is kept: the list of    *)
(* enabled plugins (CorePlugins, whose order no command depends on) and    *)
(* the plugins that have variables (CordovaPluginVariables).               *)
(***************************************************************************)
EXTENDS Naturals, Sequences

CONSTANTS
  Configurations,  \* build configurations that may have a file
  Debug, Release,  \* the two a command can name
  Records,         \* entries of CorePlugins: [id, version]
  Ids,             \* plugin identifiers
  Undefined,       \* a property that is absent
  Missing,         \* a configuration without data (no file, or not in memory)
  InitialFiles     \* the configurations that may have a file at first

ASSUME ConfigurationsAssumption == Debug \in Configurations /\ Release \in Configurations /\ Debug # Release
ASSUME InitialFilesAssumption == InitialFiles \subseteq SUBSET Configurations
VARIABLES
  disk,     \* the files
  mem,      \* projectData and configurationSpecificData of the running command
  pc,       \* where the running command is
  options,  \* --debug and --release
  todo,     \* the plugin tasks left (see CordovaPlugins)
  toSave,   \* configuration files saveProject has still to write
  outcome,  \* how the command ended
  started,  \* the files when the command started
  command   \* the command running, and its arguments

vars == <<disk, mem, pc, options, todo, toSave, outcome, started, command>>

NoCommand == [name |-> "none"]

Data == [core : {Undefined} \cup SUBSET Records, vars : {Undefined} \cup SUBSET Ids]

ASSUME UndefinedAssumption == \A S \in (SUBSET Records) \cup (SUBSET Ids) : S # Undefined
ASSUME MissingAssumption == \A d \in Data : d # Missing

EmptyData == [core |-> Undefined, vars |-> Undefined]

Files == [project : Data, config : [Configurations -> {Missing} \cup Data]]

(* _hasBuildConfigurations: set when a configuration file was read. *)
HasBuildConfigurations(d) == \E c \in Configurations : d.config[c] # Missing

(* A lookup that does not fall back on .abproject. *)
GetPropertyNoFallback(d, property, c) ==
  IF c \in Configurations /\ d.config[c] # Missing
  THEN d.config[c][property]
  ELSE d.project[property]

(* Project.getProperty: the configuration's value, else the project's.     *)
(* Some callers name no configuration, or something that is none.          *)
GetProperty(d, property, c) ==
  IF c \in Configurations /\ d.config[c] # Missing /\ d.config[c][property] # Undefined
  THEN d.config[c][property]
  ELSE d.project[property]

(* The project's list goes to the configurations first. *)
SetPropertyMovesList(d, property, value, c) ==
  [project |-> [d.project EXCEPT !.core = Undefined],
   config |-> [k \in Configurations |->
     IF k = c THEN [(IF d.config[k] = Missing THEN EmptyData ELSE d.config[k])
                      EXCEPT ![property] = value]
     ELSE IF d.config[k] = Missing THEN Missing
     ELSE [d.config[k] EXCEPT !.core = GetProperty(d, "core", k)]]]

(* Project.setProperty: in the data of configuration c when the project    *)
(* has build configurations, in the project's data otherwise.              *)
SetProperty(d, property, value, c) ==
  IF HasBuildConfigurations(d)
  THEN [d EXCEPT !.config[c] =
         [(IF @ = Missing THEN EmptyData ELSE @) EXCEPT ![property] = value]]
  ELSE [d EXCEPT !.project[property] = value]

OrEmpty(value) == IF value = Undefined THEN {} ELSE value

(* The plugins a build of configuration c gets: adjustBuildProperties. *)
Enabled(d, c) == GetProperty(d, "core", c)

(* configurationsSpecifiedByUser, and `configurations`: both when none is. *)
SelectedConfigurations == IF options = {} THEN {Debug, Release} ELSE options

--------------------------------------------------------------------------
(* readProjectData: --debug and --release create a missing file; every     *)
(* configuration file found is read.                                       *)
ReadProject(opts) ==
  LET files == [disk EXCEPT !.config =
                 [c \in Configurations |->
                   IF c \in opts /\ disk.config[c] = Missing THEN EmptyData ELSE disk.config[c]]]
  IN /\ disk' = files
     /\ mem' = files
     /\ options' = opts
     /\ started' = disk

(* saveProject: .abproject first ... *)
SaveProjectFile ==
  /\ pc = "save"
  /\ disk' = [disk EXCEPT !.project = mem.project]
  /\ pc' = "saveConfigurations"
  /\ UNCHANGED <<mem, options, todo, toSave, outcome, started, command>>

(* ... then each configuration, if it has a file and data in memory. *)
SaveConfigurationFile(c) ==
  /\ pc = "saveConfigurations"
  /\ c \in toSave
  /\ toSave' = toSave \ {c}
  /\ disk' = IF disk.config[c] # Missing /\ mem.config[c] # Missing
             THEN [disk EXCEPT !.config[c] = mem.config[c]]
             ELSE disk
  /\ UNCHANGED <<mem, pc, options, todo, outcome, started, command>>

Saved ==
  /\ pc = "saveConfigurations"
  /\ toSave = {}
  /\ pc' = IF todo = <<>> THEN "done" ELSE "task"
  /\ outcome' = IF todo = <<>> THEN "ok" ELSE outcome
  /\ UNCHANGED <<disk, mem, options, todo, toSave, started, command>>

(* The process ends, or is killed: nothing in memory survives. *)
Quit ==
  /\ pc' = "idle"
  /\ mem' = disk
  /\ options' = {}
  /\ todo' = <<>>
  /\ toSave' = {}
  /\ outcome' = "none"
  /\ started' = disk
  /\ command' = NoCommand
  /\ UNCHANGED disk

Exit == pc = "done" /\ Quit

Kill == pc \notin {"idle", "done"} /\ Quit

(* An error is thrown out of the command: what it has not saved is lost. *)
FailAs(result) ==
  /\ pc' = "done"
  /\ outcome' = result
  /\ todo' = <<>>
  /\ toSave' = {}
  /\ UNCHANGED <<disk, mem, options, started, command>>

Fail == FailAs("failed")

(* writeJson fails, for .abproject or for a configuration file: the files   *)
(* written before it stay written, the others are left as they were.        *)
(* (Bound: that one too - a file is written as a whole or not at all.)      *)
SaveFails ==
  /\ \/ pc = "save"
     \/ pc = "saveConfigurations" /\ \E c \in toSave : disk.config[c] # Missing /\ mem.config[c] # Missing
  /\ FailAs("notSaved")

SaveStep == SaveProjectFile \/ (\E c \in toSave : SaveConfigurationFile(c)) \/ Saved

(* A project as its template or its files give it: .abproject lists its    *)
(* plugins and the configuration files, if any, say nothing of their own,  *)
(* or each of them lists its own.                                          *)
InitialProject(cores) ==
  \E present \in InitialFiles, a \in cores, b \in cores, moved \in BOOLEAN :
    disk = [project |-> [core |-> IF moved THEN Undefined ELSE a, vars |-> Undefined],
            config |-> [c \in Configurations |->
              IF c \notin present THEN Missing
              ELSE [core |-> CASE ~moved -> Undefined
                               [] moved /\ c = Debug -> a
                               [] OTHER -> b,
                    vars |-> Undefined]]]
    /\ (moved => {Debug, Release} \subseteq present /\ a # b)

InitFiles(cores) ==
  /\ InitialProject(cores)
  /\ mem = disk
  /\ pc = "idle"
  /\ options = {}
  /\ todo = <<>>
  /\ toSave = {}
  /\ outcome = "none"
  /\ started = disk
  /\ command = NoCommand

==========================================================================
