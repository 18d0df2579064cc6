----------------------- MODULE CorePluginsProperty -----------------------
(***************************************************************************)
(* `appbuilder prop add|rm|set CorePlugins ...` with --debug and --release *)
(* (Project.updateProjectPropertyAndSave, ProjectPropertiesService).       *)
(*                                                                         *)
(* CorePlugins live in .abproject or in the configuration files.  An       *)
(* update moves them to the configurations in memory, changes the selected *)
(* ones, moves them back to the project if they came out the same, and     *)
(* saves .abproject and every configuration file.                          *)
(***************************************************************************)
EXTENDS ProjectFiles, FiniteSets

CONSTANTS
  PropValues,  \* the sets of plugins given on the command line
  PropModes    \* "add", "del" and "set"

ASSUME PropValuesAssumption == PropValues \subseteq SUBSET Records
ASSUME PropModesAssumption == PropModes \subseteq {"add", "del", "set"}

(* moveCorePluginsToConfigurationSpecificData finds CorePlugins both in    *)
(* the project and, with other members, in a configuration, and fails.     *)
DefinedInBoth(d) ==
  \E c \in Configurations :
    /\ d.project.core # Undefined /\ d.project.core # {}
    /\ d.config[c] # Missing /\ d.config[c].core # Undefined
    /\ ~(d.config[c].core \subseteq d.project.core)

MoveToConfigurationsKeepsList(d) ==
  [d EXCEPT !.config = [c \in Configurations |->
     IF d.config[c] = Missing \/ d.project.core = Undefined \/ d.project.core = {}
     THEN d.config[c]
     ELSE [d.config[c] EXCEPT !.core = d.project.core]]]

(* Otherwise every configuration gets the project's list, if it has one    *)
(* that is not empty, and the project loses it.                            *)
MoveToConfigurations(d) ==
  [project |-> [d.project EXCEPT !.core = Undefined],
   config |-> [c \in Configurations |->
     IF d.config[c] = Missing \/ d.project.core = Undefined \/ d.project.core = {}
     THEN d.config[c]
     ELSE [d.config[c] EXCEPT !.core = d.project.core]]]

(* updateProjectProperty on the list of one configuration. *)
Updated(list) ==
  CASE command.mode = "set" -> command.values
    [] command.mode = "add" -> list \cup command.values
    [] command.mode = "del" -> list \ command.values

InMemory(d) == {c \in Configurations : d.config[c] # Missing}

(* The configurations an update is made in: those of the command line, or  *)
(* all those in memory.                                                    *)
Targets(d) == IF options = {} THEN InMemory(d) ELSE options

(* `set` needs no list to start from; `add` and `del` fail without one. *)
Updatable(d) ==
  command.mode = "set" \/ \A c \in Targets(d) : d.config[c].core # Undefined

UpdateConfigurations(d) ==
  [d EXCEPT !.config =
    [c \in Configurations |->
      IF c \in Targets(d) THEN [d.config[c] EXCEPT !.core = Updated(@)] ELSE d.config[c]]]

ShouldMoveToProjectByLength(d, first) ==
  Cardinality({Cardinality(d.config[c].core) : c \in InMemory(d)}) = 1

(* shouldMoveCorePluginsToProjectData: the lists have one length, and the  *)
(* first has nothing that all the others lack.                             *)
ShouldMoveToProject(d, first) ==
  /\ Cardinality({Cardinality(d.config[c].core) : c \in InMemory(d)}) = 1
  /\ d.config[first].core \ UNION {d.config[c].core : c \in InMemory(d) \ {first}} = {}

(* tryMovingCorePluginsToProjectData. *)
MoveToProject(d, first) ==
  IF ~ShouldMoveToProject(d, first) THEN d
  ELSE [project |-> [d.project EXCEPT !.core = d.config[first].core],
        config |-> [c \in Configurations |->
          IF d.config[c] = Missing THEN Missing ELSE [d.config[c] EXCEPT !.core = Undefined]]]

(* Which configuration is the first depends on the order of the files.     *)
(* Without any there is nothing to compare, and nothing moves back.        *)
MovedBack(d) ==
  IF InMemory(d) = {} THEN {d} ELSE {MoveToProject(d, first) : first \in InMemory(d)}

(* A list is Undefined where its length is asked for: a TypeError. *)
SomeListUndefined(d) == \E c \in InMemory(d) : d.config[c].core = Undefined

--------------------------------------------------------------------------
PropStart(mode, values, opts) ==
  /\ pc = "idle"
  /\ mode # "set" => values # {}
  /\ ReadProject(opts)
  /\ command' = [name |-> "prop", mode |-> mode, values |-> values]
  /\ pc' = "prop"
  /\ UNCHANGED <<todo, toSave, outcome>>

(* A slip: only the configurations named on the command line are saved. *)
PropUpdateSavesSelected ==
  LET moved == MoveToConfigurations(mem)
      updated == UpdateConfigurations(moved)
  IN /\ pc = "prop"
     /\ ~DefinedInBoth(mem)
     /\ Updatable(moved)
     /\ ~SomeListUndefined(updated)
     /\ mem' \in MovedBack(updated)
     /\ toSave' = SelectedConfigurations
     /\ pc' = "save"
     /\ UNCHANGED <<disk, options, todo, outcome, started, command>>

(* updateCorePlugins succeeds: everything in memory is to be saved. *)
PropUpdate ==
  LET moved == MoveToConfigurations(mem)
      updated == UpdateConfigurations(moved)
  IN /\ pc = "prop"
     /\ ~DefinedInBoth(mem)
     /\ Updatable(moved)
     /\ ~SomeListUndefined(updated)
     /\ mem' \in MovedBack(updated)
     /\ toSave' = InMemory(mem)
     /\ pc' = "save"
     /\ UNCHANGED <<disk, options, todo, outcome, started, command>>

(* It throws, as one of the conditions above does not hold or the JSON      *)
(* schema rejects the new values: nothing has been written.                 *)
PropFails ==
  /\ pc = "prop"
  /\ Fail

PropStep ==
  \/ \E mode \in PropModes, values \in PropValues, opts \in SUBSET {Debug, Release} :
       PropStart(mode, values, opts)
  \/ PropUpdate
  \/ PropFails

==========================================================================
