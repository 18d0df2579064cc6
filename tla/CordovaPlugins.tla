-------------------------- MODULE CordovaPlugins --------------------------
(***************************************************************************)
(* `appbuilder plugin add|remove|configure` of a Cordova project           *)
(* (CordovaProjectPluginsService).                                         *)
(*                                                                         *)
(* A command decides which plugin to enable or disable in which build      *)
(* configurations and does so one configuration after the other: it        *)
(* changes the plugins and the variables in memory, saves the project, and *)
(* goes on to the next.  Everything it asks of the user, of the server and *)
(* of the disk may fail, and ends it.                                      *)
(***************************************************************************)
EXTENDS ProjectFiles, FiniteSets

CONSTANTS
  KnownPlugins,    \* identifierToPlugin, as a sequence: core plugins, then
                   \* marketplace ones, the latest version first; each is
                   \* [id, version, market, supported, hasVars]
  ObsoletedBy,     \* obsoletedIntegratedPlugins: the plugin that replaces one
  NoId, NoVersion, \* no plugin, no version given
  LivePatch,       \* the plugin that Debug must not have
  PluginCommands   \* the commands run: "add", "remove" and "configure"

ASSUME PluginCommandsAssumption == PluginCommands \subseteq {"add", "remove", "configure"}
ASSUME ObsoletedByAssumption == ObsoletedBy \in [Ids -> Ids \cup {NoId}] /\ NoId \notin Ids
(* Bound: an integrated plugin is replaced by one of the marketplace that    *)
(* nothing replaces, and that replaces no other.                           *)
ASSUME ReplacingAssumption ==
  \A id \in Ids : ObsoletedBy[id] # NoId =>
    /\ ObsoletedBy[ObsoletedBy[id]] = NoId
    /\ \A other \in Ids : ObsoletedBy[other] = ObsoletedBy[id] => other = id
ASSUME NoConfigAssumption == "project" \notin Configurations

(* The project itself instead of one of its configurations. *)
NoConfig == "project"

Elements(s) == {s[i] : i \in DOMAIN s}

BothConfigurations == {Debug, Release}

(* toProjectDataRecord: a marketplace plugin is recorded with its version. *)
Record(plugin, version) ==
  [id |-> plugin.id,
   version |-> IF ~plugin.market THEN NoVersion
               ELSE IF version = NoVersion THEN plugin.version ELSE version]

ASSUME KnownPluginsAssumption ==
  /\ DOMAIN KnownPlugins \subseteq Nat
  /\ \A p \in Elements(KnownPlugins) : p.id \in Ids /\ Record(p, NoVersion) \in Records

(* identifierToPlugin has its plugins under their records. *)
ASSUME IdentifierAssumption ==
  \A p \in Elements(KnownPlugins), q \in Elements(KnownPlugins) :
    Record(p, NoVersion) = Record(q, NoVersion) => p = q

(* getAvailablePlugins, of which those called id: filterAction. *)
Available(id, version) ==
  {p \in Elements(KnownPlugins) :
     p.supported /\ p.id = id /\ (version = NoVersion \/ p.version = version)}

(* getPluginInstancesByName, which fails when there are none. *)
Instances(id, version) ==
  Available(id, version) \cup
    (IF ObsoletedBy[id] = NoId THEN {} ELSE Available(ObsoletedBy[id], version))

(* The one that comes first in identifierToPlugin. *)
First(plugins) ==
  KnownPlugins[CHOOSE i \in DOMAIN KnownPlugins :
    /\ KnownPlugins[i] \in plugins
    /\ \A j \in DOMAIN KnownPlugins : KnownPlugins[j] \in plugins => i <= j]

Market(plugins) == {p \in plugins : p.market}

(* getBestMatchingPlugin: one of the marketplace before others, and of its  *)
(* own name before one that replaces it.                                    *)
BestMatching(id, version) ==
  LET own == Available(id, version)
      all == Instances(id, version)
  IN First(IF Market(own) # {} THEN Market(own)
           ELSE IF Market(all) # {} THEN Market(all)
           ELSE IF own # {} THEN own
           ELSE all)

(* getPluginVersions: every version known, of this framework or another. *)
VersionsOf(id) == {p.version : p \in {q \in Elements(KnownPlugins) : q.market /\ q.id = id}}

(* selectPluginVersion: the one given, if there is such a one, else that   *)
(* of --latest or --default, or the user's choice.                         *)
SelectableVersions(version, plugin) ==
  IF version = NoVersion THEN VersionsOf(plugin.id) ELSE {version} \cap VersionsOf(plugin.id)

Supported(plugin, version) == Available(plugin.id, version) # {}

(* getObsoletingPluginIdentifier. *)
Obsoleting(id) ==
  IF \E other \in Ids : ObsoletedBy[other] = id
  THEN CHOOSE other \in Ids : ObsoletedBy[other] = id
  ELSE NoId

(* identifierToPlugin[record]. *)
PluginOfRecord(record) ==
  LET plugins == {p \in Elements(KnownPlugins) : Record(p, NoVersion) = record}
  IN IF plugins = {} THEN Undefined ELSE CHOOSE p \in plugins : TRUE

EnabledRecords(c) == OrEmpty(Enabled(mem, c))

(* getInstalledPluginsForConfiguration fails on a record no plugin matches. *)
AllValid(configs) ==
  \A c \in configs : \A r \in EnabledRecords(c) : Instances(r.id, r.version) # {}

InstalledRecords(configs, id) ==
  {r \in UNION {EnabledRecords(c) : c \in configs} : BestMatching(r.id, r.version).id = id}

(* The plugins called id that come first: those of Debug before Release's. *)
FirstInstalled(configs, id) ==
  LET first == IF InstalledRecords(configs \cap {Debug}, id) # {} THEN {Debug} ELSE {Release}
  IN {BestMatching(r.id, r.version) : r \in InstalledRecords(configs \cap first, id)}

(* getInstalledPluginByName: under its own name, or as what replaced it. *)
InstalledId(configs, id) ==
  IF InstalledRecords(configs, id) = {} THEN ObsoletedBy[id] ELSE id

InstalledByName(configs, id) ==
  IF InstalledId(configs, id) = NoId THEN {} ELSE FirstInstalled(configs, InstalledId(configs, id))

(* IPlugin.configurations: where createPluginsData found the plugin in the *)
(* configuration's own list.                                               *)
ConfigurationsOf(plugin) ==
  {c \in Configurations :
    /\ mem.config[c] # Missing
    /\ OrEmpty(mem.config[c].core) \cap {Record(plugin, NoVersion), [id |-> plugin.id, version |-> NoVersion]} # {}}

--------------------------------------------------------------------------
Versions == {p.version : p \in Elements(KnownPlugins)} \cup {NoVersion}

PluginOrUndefined == {Undefined} \cup Elements(KnownPlugins)

(* What is left to do of a command: configurePluginCore or removePluginCore *)
(* of one plugin in one configuration.                                      *)
Tasks ==
  [do : {"configure"}, id : Ids, version : Versions, config : Configurations \cup {NoConfig}]
    \cup [do : {"remove"}, plugin : PluginOrUndefined, config : Configurations \cup {NoConfig}]

(* Debug before Release. *)
InOrder(configs, OnDebug, OnRelease) ==
  (IF Debug \in configs THEN OnDebug ELSE <<>>) \o (IF Release \in configs THEN OnRelease ELSE <<>>)

Configure(id, version, c) == [do |-> "configure", id |-> id, version |-> version, config |-> c]

Remove(plugin, c) == [do |-> "remove", plugin |-> plugin, config |-> c]

(* configurePlugin.  Without build configurations the version goes where   *)
(* configurePluginCore expects a configuration, and is lost.               *)
ConfigureTasks(id, version, configs) ==
  IF HasBuildConfigurations(mem)
  THEN InOrder(configs, <<Configure(id, version, Debug)>>, <<Configure(id, version, Release)>>)
  ELSE <<Configure(id, NoVersion, NoConfig)>>

(* One configuration's part of removePlugin. *)
RemoveTasks(plugin, c) ==
  LET by == ObsoletedBy[plugin.id]
      old == Obsoleting(plugin.id)
  IN <<Remove(plugin, c)>>
     \o (IF by = NoId THEN <<>>
         ELSE <<Remove(PluginOfRecord([id |-> by, version |-> plugin.version]), c)>>)
     \o (IF old = NoId THEN <<>>
         ELSE <<Remove(PluginOfRecord([id |-> old, version |-> NoVersion]), c)>>)

PluginStart(do, id, version, opts) ==
  /\ pc = "idle"
  /\ ReadProject(opts)
  /\ command' = [name |-> "plugin", do |-> do, id |-> id, version |-> version]
  /\ pc' = "command"
  /\ UNCHANGED <<todo, toSave, outcome>>

Decide(tasks) ==
  /\ todo' = tasks
  /\ pc' = IF tasks = <<>> THEN "done" ELSE "task"
  /\ outcome' = IF tasks = <<>> THEN "ok" ELSE outcome
  /\ UNCHANGED <<disk, mem, options, toSave, started, command>>

(* addPlugin and modifyInstalledMarketplacePlugin, of a plugin that is     *)
(* enabled already.                                                        *)
InstalledAnywhere == InstalledRecords(BothConfigurations, command.id)

Adding ==
  /\ pc = "command" /\ command.do = "add"
  /\ Instances(command.id, NoVersion) # {}
  /\ AllValid(BothConfigurations)

Modifying(plugin) ==
  /\ Adding
  /\ \E r \in InstalledAnywhere : BestMatching(r.id, r.version).market
  /\ plugin \in FirstInstalled(BothConfigurations, command.id)
  /\ plugin.market

AddOfInstalledCorePlugin ==
  /\ Adding
  /\ InstalledAnywhere # {}
  /\ \A r \in InstalledAnywhere : ~BestMatching(r.id, r.version).market
  /\ Decide(<<>>)

(* addPlugin, of a plugin that is not enabled in either configuration. *)
AllowedConfigurations(plugin) ==
  IF plugin.id = LivePatch THEN SelectedConfigurations \ {Debug} ELSE SelectedConfigurations

AddNewPlugin ==
  /\ Adding
  /\ InstalledAnywhere = {}
  /\ Instances(command.id, command.version) # {}
  /\ LET plugin == BestMatching(command.id, command.version) IN
     /\ AllowedConfigurations(plugin) # {}
     /\ \E version \in IF plugin.market THEN SelectableVersions(command.version, plugin)
                       ELSE {command.version} :
          /\ plugin.market => Supported(plugin, version)
          /\ Decide(ConfigureTasks(command.id, version, AllowedConfigurations(plugin)))

(* Both configurations are selected: both get the selected version. *)
ModifyBoth ==
  \E plugin \in Elements(KnownPlugins) :
    /\ Modifying(plugin)
    /\ SelectedConfigurations = BothConfigurations
    /\ \E version \in SelectableVersions(command.version, plugin) :
         Decide(ConfigureTasks(plugin.id, version, BothConfigurations))

(* One is, and the plugin is enabled there only: its version changes. *)
ModifyVersion ==
  \E plugin \in Elements(KnownPlugins), c \in options :
    /\ Modifying(plugin)
    /\ options = {c}
    /\ Cardinality(InstalledAnywhere) = 1
    /\ ConfigurationsOf(plugin) = {c}
    /\ \E version \in SelectableVersions(command.version, plugin) :
         Decide(<<Configure(plugin.id, version, c)>>)

(* One is, and the plugin is enabled elsewhere too: the user chooses to    *)
(* enable it in both, or to move it (or cancels, which fails).             *)
ModifyAsAsked ==
  \E plugin \in Elements(KnownPlugins), c \in options :
    /\ Modifying(plugin)
    /\ options = {c}
    /\ ~(Cardinality(InstalledAnywhere) = 1 /\ ConfigurationsOf(plugin) = {c})
    /\ \E version \in SelectableVersions(command.version, plugin) :
         \/ Decide(ConfigureTasks(plugin.id, version, BothConfigurations))
         \/ \E other \in BothConfigurations \ {c} :
              Decide(<<Remove(plugin, other), Configure(plugin.id, version, c)>>)

(* PluginConfigureCommandParameter wants the plugin enabled somewhere among *)
(* the selected configurations; configurePlugin gets no version.            *)
ConfigurePlugin ==
  /\ pc = "command" /\ command.do = "configure"
  /\ AllValid(SelectedConfigurations)
  /\ InstalledByName(SelectedConfigurations, command.id) # {}
  /\ Decide(ConfigureTasks(command.id, NoVersion, SelectedConfigurations))

(* removePlugin: the first instance, in every selected configuration. *)
RemovePlugin ==
  /\ pc = "command" /\ command.do = "remove"
  /\ AllValid(SelectedConfigurations)
  /\ \E plugin \in InstalledByName(SelectedConfigurations, command.id) :
       Decide(IF ~HasBuildConfigurations(mem) THEN RemoveTasks(plugin, NoConfig)
              ELSE InOrder(SelectedConfigurations, RemoveTasks(plugin, Debug), RemoveTasks(plugin, Release)))

--------------------------------------------------------------------------
ReplacedRecordsSameVersion(plugin) == {Record(plugin, NoVersion)}

ReplacedRecordsOwn(plugin) == {Record(p, NoVersion) : p \in Available(plugin.id, NoVersion)}

(* The records configurePluginCore replaces: every version of the plugin,  *)
(* of the one that replaces it and of the one it replaces.                 *)
ReplacedRecords(plugin) ==
  LET by == ObsoletedBy[plugin.id]
      old == Obsoleting(plugin.id)
      instances == Instances(plugin.id, NoVersion)
        \cup (IF by = NoId THEN {} ELSE Instances(by, NoVersion))
        \cup (IF old = NoId THEN {} ELSE Instances(old, NoVersion))
  IN {Record(p, NoVersion) : p \in instances}

ToSaveEvenNone(c) == {c}

(* The configuration that saveProject is asked to save; without one it     *)
(* takes those selected, which then have no file.                          *)
ToSave(c) == IF c = NoConfig THEN SelectedConfigurations ELSE {c}

WithVariablesIfNone(d, plugin, c) ==
  IF plugin.hasVars /\ GetProperty(d, "vars", c) = Undefined
  THEN SetProperty(d, "vars", {plugin.id}, c)
  ELSE d

(* The variables asked for, beside those of other plugins. *)
WithVariables(d, plugin, c) ==
  IF plugin.hasVars
  THEN SetProperty(d, "vars", OrEmpty(GetProperty(d, "vars", c)) \cup {plugin.id}, c)
  ELSE d

(* getPluginInstancesByName fails on a plugin that is not available. *)
InstancesOfReplacing(plugin) ==
  ObsoletedBy[plugin.id] # NoId => Instances(ObsoletedBy[plugin.id], NoVersion) # {}

(* configurePluginCore. *)
ConfigureTask ==
  /\ pc = "task" /\ Head(todo).do = "configure"
  /\ LET task == Head(todo) IN
     /\ Instances(task.id, task.version) # {}
     /\ LET plugin == BestMatching(task.id, task.version)
            core == (OrEmpty(GetProperty(mem, "core", task.config)) \ ReplacedRecords(plugin))
                      \cup {Record(plugin, task.version)}
        IN /\ InstancesOfReplacing(plugin)
           /\ mem' = SetProperty(WithVariables(mem, plugin, task.config), "core", core, task.config)
     /\ toSave' = ToSave(task.config)
  /\ todo' = Tail(todo)
  /\ pc' = "save"
  /\ UNCHANGED <<disk, options, outcome, started, command>>

(* removePluginCore deletes the variables in the object that holds them,   *)
(* the configuration's or the project's ...                                *)
WithoutVariables(d, id, c) ==
  IF c \in Configurations /\ d.config[c] # Missing /\ d.config[c].vars # Undefined
  THEN [d EXCEPT !.config[c].vars = @ \ {id}]
  ELSE [d EXCEPT !.project.vars = IF @ = Undefined THEN Undefined ELSE @ \ {id}]

(* ... and the record of the plugin, if there is a list, and saves if the  *)
(* record was in it.                                                       *)
RemoveTask ==
  /\ pc = "task" /\ Head(todo).do = "remove"
  /\ LET task == Head(todo)
         core == GetProperty(mem, "core", task.config)
         record == Record(task.plugin, NoVersion)
         withoutVars == WithoutVariables(mem, task.plugin.id, task.config)
     IN /\ task.plugin # Undefined
        /\ core # Undefined
        /\ IF record \in core
           THEN /\ mem' = SetProperty(withoutVars, "core", core \ {record}, task.config)
                /\ toSave' = ToSave(task.config)
                /\ pc' = "save"
                /\ UNCHANGED outcome
           ELSE /\ mem' = withoutVars
                /\ pc' = IF Tail(todo) = <<>> THEN "done" ELSE "task"
                /\ outcome' = IF Tail(todo) = <<>> THEN "ok" ELSE outcome
                /\ UNCHANGED toSave
  /\ todo' = Tail(todo)
  /\ UNCHANGED <<disk, options, started, command>>

(* The network, a prompt or the disk fails; the code finds no plugin, no   *)
(* version, or no list and throws; the user cancels.                       *)
PluginFails ==
  /\ pc \in {"command", "task"}
  /\ Fail

PluginStep ==
  \/ \E do \in PluginCommands, id \in Ids, opts \in SUBSET {Debug, Release} :
       \E version \in IF do = "add" THEN VersionsOf(id) \cup {NoVersion} ELSE {NoVersion} :
         PluginStart(do, id, version, opts)
  \/ AddOfInstalledCorePlugin \/ AddNewPlugin
  \/ ModifyBoth \/ ModifyVersion \/ ModifyAsAsked
  \/ ConfigurePlugin \/ RemovePlugin
  \/ ConfigureTask \/ RemoveTask
  \/ PluginFails

==========================================================================
