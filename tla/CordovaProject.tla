-------------------------- MODULE CordovaProject --------------------------
(***************************************************************************)
(* A Cordova project's plugins, under any sequence of `plugin` and `prop`  *)
(* commands, each run to its end, failing, or killed on the way.  One      *)
(* command runs at a time.                                                 *)
(***************************************************************************)
EXTENDS CorePluginsProperty, CordovaPlugins

CONSTANTS
  InitialCores,  \* the lists of plugins a project may have at first
  CanBeCutShort  \* whether a command may be killed, or fail while it saves

ASSUME InitialCoresAssumption == InitialCores \subseteq SUBSET Records
ASSUME CanBeCutShortAssumption == CanBeCutShort \in BOOLEAN

Init == InitFiles(InitialCores)

Killed == CanBeCutShort /\ Kill

NotSaved == CanBeCutShort /\ SaveFails

Next == PropStep \/ PluginStep \/ SaveStep \/ Exit \/ Killed \/ NotSaved

Spec == Init /\ [][Next]_vars

--------------------------------------------------------------------------
Arguments ==
  {NoCommand}
    \cup [name : {"prop"}, mode : PropModes, values : PropValues]
    \cup [name : {"plugin"}, do : PluginCommands, id : Ids, version : Versions]

(* Types: the lists hold only records that name a plugin and, for one of    *)
(* the marketplace, its version (toProjectDataRecord).                      *)
TypeOK ==
  /\ disk \in Files /\ mem \in Files /\ started \in Files
  /\ pc \in {"idle", "command", "task", "prop", "save", "saveConfigurations", "done"}
  /\ options \subseteq BothConfigurations
  /\ toSave \subseteq Configurations
  /\ outcome \in {"none", "ok", "failed", "notSaved"}
  /\ todo \in Seq(Tasks)
  /\ command \in Arguments

VersionsEnabled(d, c, id) == {r.version : r \in {q \in OrEmpty(Enabled(d, c)) : q.id = id}}

(* However commands follow each other, fail or are killed, no configuration *)
(* ever has two versions of one plugin: configurePluginCore takes out every *)
(* instance before it adds one.                                             *)
OneVersionPerConfiguration ==
  \A c \in Configurations, id \in Ids : Cardinality(VersionsEnabled(disk, c, id)) <= 1

(* The plugins a command on `id` may change: the plugin itself, the one that *)
(* replaces it and the one it replaces.                                      *)
Family(id) == {id, ObsoletedBy[id], Obsoleting(id)} \ {NoId}

(* A plugin command, wherever it is stopped, leaves the files such that     *)
(* every other plugin is enabled exactly where it was, whether the list was *)
(* the project's or the configuration's own.                                *)
OthersUntouched ==
  command.name = "plugin" =>
    \A c \in Configurations, id \in Ids \ Family(command.id) :
      VersionsEnabled(disk, c, id) = VersionsEnabled(started, c, id)

(* `plugin configure` and `plugin remove` with --debug or --release do not  *)
(* change what is enabled in the other configuration.                       *)
SelectedOnly ==
  command.name = "plugin" /\ command.do \in {"configure", "remove"} /\ options # {} =>
    \A c \in Configurations \ options : Enabled(disk, c) = Enabled(started, c)

(* A plugin command changes what it was asked to change only: no other      *)
(* plugin, and no configuration that was not selected.                     *)
OnlyAsAsked == OthersUntouched /\ SelectedOnly

(* A plugin command killed, or failing to write, between two files leaves   *)
(* each configuration with the plugins it had, or with those the command    *)
(* gave it.                                                                 *)
OldOrNew ==
  command.name = "plugin" =>
    \A c \in Configurations : Enabled(disk, c) \in {Enabled(started, c), Enabled(mem, c)}

(* A command that succeeds has written every list it changed in memory,     *)
(* for each configuration that has a file.                                  *)
SavedWhenOk ==
  outcome = "ok" =>
    \A c \in Configurations :
      disk.config[c] # Missing => Enabled(disk, c) = Enabled(mem, c)

HasVariables(r) ==
  \E p \in Elements(KnownPlugins) : p.hasVars /\ Record(p, NoVersion) = r

(* Wherever a command is stopped, a plugin it enabled in a configuration    *)
(* has its variables there: the two are written together.                   *)
VariablesComeWithPlugin ==
  command.name = "plugin" =>
    \A c \in Configurations :
      \A r \in OrEmpty(Enabled(disk, c)) \ OrEmpty(Enabled(started, c)) :
        HasVariables(r) => r.id \in OrEmpty(GetProperty(disk, "vars", c))

--------------------------------------------------------------------------
(* `prop` commands change the plugins of a configuration only when they end, *)
(* and then as EnabledPlugins says, wherever the lists are kept.             *)
Promise == INSTANCE EnabledPlugins WITH
  Named <- BothConfigurations, Values <- PropValues, Modes <- PropModes,
  enabled <- [c \in Configurations |-> OrEmpty(Enabled(started, c))],
  request <- IF command = NoCommand THEN [mode |-> "none", values |-> {}, configs |-> {}]
             ELSE [mode |-> command.mode, values |-> command.values, configs |-> options]

ImplementsEnabledPlugins == Promise!Spec

(* Between `prop` commands a list is in one place: in .abproject, or in the *)
(* configuration files.                                                     *)
ListedInOnePlace ==
  pc = "idle" /\ OrEmpty(disk.project.core) # {} =>
    \A c \in Configurations : disk.config[c] # Missing => disk.config[c].core = Undefined

(* A plugin and the one that replaces it are never enabled together: the    *)
(* command that enables one takes the other out.                            *)
ObsoleteNotBeside ==
  \A c \in Configurations, id \in Ids :
    ObsoletedBy[id] # NoId =>
      VersionsEnabled(disk, c, id) = {} \/ VersionsEnabled(disk, c, ObsoletedBy[id]) = {}

==========================================================================
