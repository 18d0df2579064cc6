------------------------- MODULE CordovaMigration -------------------------
(***************************************************************************)
(* Another framework version or Windows Phone SDK for a Cordova project    *)
(* (lib/services/cordova-migration-service.ts), by `prop set` and           *)
(* `mobileframework set`.  A change of the version may ask for a change of *)
(* the SDK and the other way round; it migrates the lists of plugins in    *)
(* memory, replaces the cordova.<platform>.js files one by one, with a     *)
(* backup of each, and the command saves the project at its end.           *)
(*                                                                         *)
(* A command is a sequence `todo` of steps; every step may fail.  Versions *)
(* are numbers: what the code does with them is compare them.              *)
(***************************************************************************)
EXTENDS ProjectFiles, FiniteSets, SequencesExt

CONSTANTS
  FrameworkVersions,  \* those of the migration data
  StableVersions,     \* those that are not experimental
  Sdks,               \* Windows Phone SDKs: 80 is 8.0
  IntegratedPlugins,  \* the records of core plugins of each version
  InitialLists,       \* lists a new project of each version may have
  Marketplace,        \* the records with a version: those with '@'
  AvailableFor,       \* the marketplace plugins each version supports
  RenamedPlugins,     \* [version, old, new], by version
  DefaultEnabled,     \* core plugins a version that brings them enables
  AcceleratedFrom,    \* forceHardwareAccelerationAfter
  Platforms,          \* in the order in which their files are replaced
  NoBackup, Torn,     \* a backup file that does not exist, a file half written
  CanBeKilled         \* whether a command may be killed

ASSUME VersionsAssumption ==
  /\ FrameworkVersions \subseteq Nat /\ IsFiniteSet(FrameworkVersions)
  /\ StableVersions \subseteq FrameworkVersions /\ StableVersions # {}
  /\ AcceleratedFrom \in Nat
ASSUME SdksAssumption == Sdks \subseteq Nat /\ 80 \in Sdks
ASSUME PluginsAssumption ==
  /\ IntegratedPlugins \in [FrameworkVersions -> SUBSET (Records \ Marketplace)]
  /\ AvailableFor \in [FrameworkVersions -> SUBSET Marketplace]
  /\ Marketplace \subseteq Records
  /\ \A v \in FrameworkVersions : InitialLists[v] \subseteq SUBSET (IntegratedPlugins[v] \cup Marketplace)
ASSUME RenamesAssumption ==  \* in the order of their versions
  \A i, j \in DOMAIN RenamedPlugins : i < j => RenamedPlugins[i].version < RenamedPlugins[j].version
ASSUME VersionForSdk81Assumption == \E v \in FrameworkVersions : v >= 37
ASSUME PlatformsAssumption == Platforms \in Seq(Range(Platforms)) /\ IsInjective(Platforms)
ASSUME JsFilesAssumption == {NoBackup, Torn} \cap FrameworkVersions = {} /\ NoBackup # Torn

VARIABLES
  properties,      \* FrameworkVersion, WPSdk and AndroidHardwareAcceleration in memory
  saved,           \* the same, in .abproject
  js,              \* the version each cordova.<platform>.js is of
  backup,          \* the version its backup is of
  before           \* the properties and the files when the command started

migrationVars == <<properties, saved, js, backup, before>>

allVars == <<vars, migrationVars>>

--------------------------------------------------------------------------
(* The first version the 8.1 SDK builds with. *)
CordovaForSdk81 == 37

(* The renames between two versions, both included, in the order in which   *)
(* they are undone or made.                                                 *)
RenamesBetween(from, to) ==
  LET within(r) == IF from < to THEN from <= r.version /\ r.version <= to
                   ELSE to <= r.version /\ r.version <= from
  IN IF from < to THEN SelectSeq(RenamedPlugins, within)
     ELSE Reverse(SelectSeq(RenamedPlugins, within))

(* applyTransitions, to one plugin. *)
Renamed(plugin, from, to) ==
  LET rename(p, r) == IF from < to THEN (IF p = r.old THEN r.new ELSE p)
                      ELSE (IF p = r.new THEN r.old ELSE p)
  IN FoldLeft(rename, plugin, RenamesBetween(from, to))

(* migratePlugins: renamed, without those the version does not have, and    *)
(* with those it brings that are enabled by default.                        *)
MigratePlugins(plugins, from, to) ==
  LET renamed == {Renamed(p, from, to) : p \in plugins}
      kept == renamed \cap (IntegratedPlugins[to] \cup Marketplace)
      known == {Renamed(p, from, to) : p \in IntegratedPlugins[from]}
  IN kept \cup ((IntegratedPlugins[to] \cap DefaultEnabled) \ known)

(* invalidMarketplacePlugins: enabled, and not available - for the version  *)
(* the project has, which is the one that is still in its data.             *)
InvalidPlugins ==
  UNION {OrEmpty(Enabled(mem, c)) \cap Marketplace : c \in SelectedConfigurations}
    \ AvailableFor[properties.framework]

(* The latest version that is not experimental, or the latest one that is.  *)
VersionForSdk81 ==
  LET Latest(versions) == CHOOSE v \in versions : \A w \in versions : w <= v
      experimental == {v \in FrameworkVersions \ StableVersions : CordovaForSdk81 <= v}
  IN IF Latest(StableVersions) >= CordovaForSdk81 THEN Latest(StableVersions)
     ELSE Latest(experimental)

--------------------------------------------------------------------------
JsFiles == Range(Platforms)

Step(do, value) == [do |-> do, value |-> value]

JsSteps(version) ==
  [i \in 1..2 * Len(Platforms) |-> IF i % 2 = 1 THEN Step("backup", Platforms[(i + 1) \div 2])
                                   ELSE Step("copy", <<Platforms[i \div 2], version>>)]

(* onFrameworkVersionChanging. *)
FrameworkVersionChanging(version) ==
  IF version = properties.framework THEN <<>>
  ELSE <<Step("sdk", version), Step("ask", version), Step("accelerate", version), Step("lists", version)>>
       \o JsSteps(version) \o <<Step("deleteBackups", version)>>

(* onWPSdkVersionChanging, when the user lets it change the version.        *)
SdkChanging(sdk) ==
  IF sdk = properties.sdk \/ sdk <= 80 \/ properties.framework >= CordovaForSdk81 THEN <<>>
  ELSE FrameworkVersionChanging(VersionForSdk81) \o <<Step("framework", VersionForSdk81)>>

At(do) == pc = "task" /\ Head(todo).do = do

Value == Head(todo).value

(* Bound: no command starts while a file is torn or a backup left behind.   *)
(* (A command writes a backup before it reads it.)                          *)
Intact == Torn \notin Range(js) /\ Range(backup) = {NoBackup}

(* The steps of updateProjectPropertyAndSave: what the property's onChanging *)
(* does, the property, and the files.                                        *)
SetFrameworkStart(version, opts) ==
  /\ pc = "idle" /\ Intact
  /\ ReadProject(opts)
  /\ command' = [name |-> "prop", property |-> "FrameworkVersion", value |-> version]
  /\ todo' = FrameworkVersionChanging(version) \o <<Step("framework", version), Step("save", version)>>
  /\ pc' = "task"
  /\ before' = [properties |-> saved, js |-> js]
  /\ UNCHANGED <<toSave, outcome, properties, saved, js, backup>>

SetSdkStart(sdk, opts) ==
  /\ pc = "idle" /\ Intact
  /\ ReadProject(opts)
  /\ command' = [name |-> "prop", property |-> "WPSdk", value |-> sdk]
  /\ todo' = SdkChanging(sdk) \o <<Step("wpsdk", sdk), Step("save", sdk)>>
  /\ pc' = "task"
  /\ before' = [properties |-> saved, js |-> js]
  /\ UNCHANGED <<toSave, outcome, properties, saved, js, backup>>

Continue ==
  /\ todo' = Tail(todo)
  /\ UNCHANGED <<disk, pc, options, toSave, outcome, started, command, before>>

(* As if the user were only asked. *)
ChangeSdkAsksOnly ==
  /\ At("sdk")
  /\ Continue
  /\ UNCHANGED <<mem, properties, saved, js, backup>>

(* An SDK the new version does not build with is changed too, if the user   *)
(* agrees.                                                                  *)
ChangeSdk ==
  /\ At("sdk")
  /\ properties' = IF properties.sdk > 80 /\ Value < CordovaForSdk81
                   THEN [properties EXCEPT !.sdk = 80] ELSE properties
  /\ Continue
  /\ UNCHANGED <<mem, saved, js, backup>>

(* The user agrees to remove the plugins that are invalid. *)
AskAboutPlugins ==
  /\ At("ask")
  /\ Continue
  /\ UNCHANGED <<mem, properties, saved, js, backup>>

(* AndroidHardwareAcceleration is set, and saved at once. *)
Accelerate ==
  /\ At("accelerate")
  /\ IF Value >= AcceleratedFrom
     THEN /\ properties' = [properties EXCEPT !.accelerated = TRUE]
          /\ toSave' = SelectedConfigurations
          /\ pc' = "save"
     ELSE UNCHANGED <<properties, toSave, pc>>
  /\ todo' = Tail(todo)
  /\ UNCHANGED <<mem, disk, options, outcome, started, command, before, saved, js, backup>>

(* As if the lists were migrated once the version is set. *)
MigrateInAfterwards(d, c, version) ==
  IF c \in SelectedConfigurations
  THEN SetProperty(d, "core", MigratePlugins(OrEmpty(Enabled(d, c)), version, version), c)
  ELSE d

MigrateIn(d, c, version) ==
  IF c \in SelectedConfigurations
  THEN SetProperty(d, "core", MigratePlugins(OrEmpty(Enabled(d, c)), properties.framework, version), c)
  ELSE d

(* As if the lists were read before the first was written. *)
MigrateListsOfDebug ==
  /\ At("lists") /\ InvalidPlugins = {}
  /\ LET plugins == MigratePlugins(OrEmpty(Enabled(mem, Debug)), properties.framework, Value)
     IN mem' = SetProperty(SetProperty(mem, "core", plugins, Debug), "core", plugins, Release)
  /\ Continue
  /\ UNCHANGED <<properties, saved, js, backup>>

(* As if each list were saved. *)
MigrateListsSaving ==
  /\ At("lists") /\ InvalidPlugins = {}
  /\ mem' = MigrateIn(MigrateIn(mem, Debug, Value), Release, Value)
  /\ toSave' = SelectedConfigurations
  /\ pc' = "save"
  /\ todo' = Tail(todo)
  /\ UNCHANGED <<disk, options, outcome, started, command, migrationVars>>

(* The lists of the selected configurations, one after the other.  Invalid  *)
(* plugins would be removed first; removePlugin, though, fails when an      *)
(* enabled plugin is not available.                                         *)
MigrateLists ==
  /\ At("lists") /\ InvalidPlugins = {}
  /\ mem' = MigrateIn(MigrateIn(mem, Debug, Value), Release, Value)
  /\ Continue
  /\ UNCHANGED <<properties, saved, js, backup>>

--------------------------------------------------------------------------
(* migrateCordovaJsFiles. *)
BackUpJs ==
  /\ At("backup")
  /\ backup' = [backup EXCEPT ![Value] = js[Value]]
  /\ Continue
  /\ UNCHANGED <<mem, properties, saved, js>>

CopyJs ==
  /\ At("copy")
  /\ js' = [js EXCEPT ![Value[1]] = Value[2]]
  /\ Continue
  /\ UNCHANGED <<mem, properties, saved, backup>>

(* As if a file were noted once it is replaced. *)
BackedUpWhenCopied ==
  {p \in JsFiles : \A i \in DOMAIN todo : todo[i].do = "copy" => todo[i].value[1] # p}

(* backedUpFiles: what this command has made a backup of. *)
BackedUp == {p \in JsFiles : Step("backup", p) \notin Range(todo)}

WithoutBackup(files) == [p \in JsFiles |-> IF p \in files THEN NoBackup ELSE backup[p]]

DeleteBackups ==
  /\ At("deleteBackups")
  /\ backup' = WithoutBackup(JsFiles)
  /\ Continue
  /\ UNCHANGED <<mem, properties, saved, js>>

(* A copy fails, and may leave a torn file: those backed up so far are to   *)
(* be copied back.                                                          *)
JsFails ==
  /\ At("backup") \/ At("copy")
  /\ \/ UNCHANGED <<js, backup>>
     \/ At("backup") /\ backup' = [backup EXCEPT ![Value] = Torn] /\ UNCHANGED js
     \/ At("copy") /\ js' = [js EXCEPT ![Value[1]] = Torn] /\ UNCHANGED backup
  /\ pc' = "revert"
  /\ todo' = SetToSeq({Step("revert", p) : p \in BackedUp}) \o <<Step("delete", BackedUp)>>
  /\ UNCHANGED <<disk, mem, options, toSave, outcome, started, command, properties, saved, before>>

Reverting == pc = "revert" /\ Head(todo).do = "revert"

RevertJs ==
  /\ Reverting
  /\ js' = [js EXCEPT ![Value] = backup[Value]]
  /\ todo' = Tail(todo)
  /\ UNCHANGED <<pc, disk, mem, options, toSave, outcome, started, command, before, properties, saved, backup>>

Reverted ==
  /\ pc = "revert" /\ Head(todo).do = "delete"
  /\ Fail
  /\ backup' = WithoutBackup(Value)
  /\ UNCHANGED <<properties, saved, js, before>>

(* It fails too: the others are not copied back, and the backups deleted.   *)
RevertFails ==
  /\ Reverting
  /\ js' \in {js, [js EXCEPT ![Value] = Torn]}
  /\ backup' = WithoutBackup(Last(todo).value)
  /\ FailAs("notReverted")
  /\ UNCHANGED <<properties, saved, before>>

--------------------------------------------------------------------------
SetFramework ==
  /\ At("framework")
  /\ properties' = [properties EXCEPT !.framework = Value]
  /\ Continue
  /\ UNCHANGED <<mem, saved, js, backup>>

SetSdk ==
  /\ At("wpsdk")
  /\ properties' = [properties EXCEPT !.sdk = Value]
  /\ Continue
  /\ UNCHANGED <<mem, saved, js, backup>>

(* saveProject, of the configurations that were in memory at the start. *)
SaveAll ==
  /\ At("save")
  /\ LET read == {c \in Configurations : disk.config[c] # Missing}
     IN toSave' = IF read = {} THEN SelectedConfigurations ELSE read
  /\ pc' = "save"
  /\ todo' = Tail(todo)
  /\ UNCHANGED <<disk, mem, options, outcome, started, command, migrationVars>>

(* A prompt, the disk or the server fails, the user refuses, or the new     *)
(* values do not validate.                                                  *)
StepFails ==
  /\ pc = "task" /\ ~At("backup") /\ ~At("copy")
  /\ Fail
  /\ UNCHANGED migrationVars

Save ==
  \/ SaveProjectFile /\ saved' = properties /\ UNCHANGED <<properties, js, backup, before>>
  \/ (\E c \in toSave : SaveConfigurationFile(c)) /\ UNCHANGED migrationVars
  \/ Saved /\ UNCHANGED migrationVars
  \/ SaveFails /\ UNCHANGED migrationVars

End ==
  /\ Exit \/ (CanBeKilled /\ Kill)
  /\ properties' = saved
  /\ UNCHANGED <<saved, js, backup, before>>

(* The user puts the files of the version the project names back. *)
RestoreJs ==
  /\ pc = "idle" /\ ~Intact
  /\ js' = [p \in JsFiles |-> saved.framework]
  /\ backup' = WithoutBackup(JsFiles)
  /\ UNCHANGED <<vars, properties, saved, before>>

Init ==
  /\ \E version \in FrameworkVersions, sdk \in Sdks :
       /\ sdk > 80 => version >= CordovaForSdk81
       /\ properties = [framework |-> version, sdk |-> sdk, accelerated |-> FALSE]
       /\ js = [p \in JsFiles |-> version]
       /\ InitFiles(InitialLists[version])
  /\ saved = properties
  /\ backup = [p \in JsFiles |-> NoBackup]
  /\ before = [properties |-> properties, js |-> js]

Next ==
  \/ \E version \in FrameworkVersions, opts \in SUBSET {Debug, Release} : SetFrameworkStart(version, opts)
  \/ \E sdk \in Sdks, opts \in SUBSET {Debug, Release} : SetSdkStart(sdk, opts)
  \/ ChangeSdk \/ AskAboutPlugins \/ Accelerate \/ MigrateLists
  \/ BackUpJs \/ CopyJs \/ DeleteBackups
  \/ JsFails \/ RevertJs \/ Reverted \/ RevertFails
  \/ SetFramework \/ SetSdk \/ SaveAll
  \/ StepFails
  \/ Save \/ End \/ RestoreJs

Spec == Init /\ [][Next]_allVars
--------------------------------------------------------------------------
Properties == [framework : FrameworkVersions, sdk : Sdks, accelerated : BOOLEAN]

(* Types: the project always names a version and an SDK there are, and a    *)
(* cordova.<platform>.js is of a version, or was torn by a failed copy.     *)
TypeOK ==
  /\ disk \in Files /\ mem \in Files /\ started \in Files
  /\ pc \in {"idle", "task", "revert", "save", "saveConfigurations", "done"}
  /\ outcome \in {"none", "ok", "failed", "notReverted", "notSaved"}
  /\ toSave \subseteq Configurations
  /\ properties \in Properties /\ saved \in Properties
  /\ js \in [JsFiles -> FrameworkVersions \cup {Torn}]
  /\ backup \in [JsFiles -> FrameworkVersions \cup {NoBackup, Torn}]

(* The project that is saved can be built for Windows Phone: whichever of   *)
(* the two properties is changed, in whatever order, refused, failing or    *)
(* killed, the 8.1 SDK comes with a version of Cordova it builds with.      *)
SdkFitsFramework == saved.sdk > 80 => saved.framework >= CordovaForSdk81

(* The state is of its type, with properties that fit each other.           *)
VersionsFit == TypeOK /\ SdkFitsFramework

Changed == saved.framework # before.properties.framework

(* A configuration without a file of its own is migrated in memory, and not *)
(* saved while the other one has a file.                                    *)
ListsAreSaved ==
  \/ \A c \in SelectedConfigurations : started.config[c] # Missing
  \/ \A c \in Configurations : started.config[c] = Missing

(* Migration data that settles: a list that is migrated again, to the same  *)
(* version, stays as it is.                                                *)
MigrationSettles ==
  \A from, to \in FrameworkVersions : \A plugins \in SUBSET Records :
    from # to => MigratePlugins(MigratePlugins(plugins, from, to), from, to) = MigratePlugins(plugins, from, to)

(* A change of the version that succeeds leaves each selected configuration *)
(* the plugins it had, migrated once - though without configuration files   *)
(* the one list there is goes through migratePlugins twice.                 *)
MigratedOnce ==
  outcome = "ok" /\ Changed /\ ListsAreSaved =>
    \A c \in SelectedConfigurations :
      OrEmpty(Enabled(disk, c)) =
        MigratePlugins(OrEmpty(Enabled(started, c)), before.properties.framework, saved.framework)

(* Plugins that are one plugin under the names of different versions. *)
Lineage(plugin) ==
  FoldLeft(LAMBDA names, r : IF {r.old, r.new} \cap names # {} THEN names \cup {r.old, r.new} ELSE names,
           {plugin}, Reverse(RenamedPlugins) \o RenamedPlugins)

KeepsPlugins(c) ==
  \A plugin \in OrEmpty(Enabled(started, c)) \cap IntegratedPlugins[before.properties.framework] :
    Lineage(plugin) \cap IntegratedPlugins[saved.framework] \subseteq OrEmpty(Enabled(disk, c))

(* Migration data whose renames, followed upwards, lead to the one name the *)
(* newer version has for a plugin.                                         *)
UpgradesFollowNames ==
  \A from, to \in FrameworkVersions : \A plugin \in IntegratedPlugins[from] :
    from < to => Lineage(plugin) \cap IntegratedPlugins[to] \subseteq {Renamed(plugin, from, to)}

(* An upgrade takes no core plugin away that the new version has, under     *)
(* whatever name, also over several renames.                                *)
UpgradeKeepsPlugins ==
  outcome = "ok" /\ before.properties.framework < saved.framework /\ ListsAreSaved =>
    \A c \in SelectedConfigurations : KeepsPlugins(c)

Kept ==
  /\ saved.framework = before.properties.framework /\ saved.sdk = before.properties.sdk
  /\ \A c \in Configurations : Enabled(disk, c) = Enabled(started, c)

(* What a command asked for, and what it reads on the way, it saves as one: *)
(* the version and the SDK it sets, and of each configuration the plugins   *)
(* it had or, if the version is another, those migrated to it.              *)
PartlySaved ==
  /\ command.property = "FrameworkVersion" => saved.framework = command.value
  /\ command.property = "WPSdk" => saved.sdk = command.value
  /\ \A c \in Configurations :
       \/ Enabled(disk, c) = Enabled(started, c)
       \/ /\ Changed
          /\ OrEmpty(Enabled(disk, c)) =
               MigratePlugins(OrEmpty(Enabled(started, c)), before.properties.framework, saved.framework)

(* A command that fails has changed neither the version, nor the SDK, nor   *)
(* what is enabled in any configuration, though some of it is saved on the  *)
(* way.  Only when writing the files at its end fails has it perhaps: then  *)
(* .abproject is all of the change, and each configuration has the plugins  *)
(* of before, perhaps those of another version, or those migrated to it.    *)
FailedKeepsProject ==
  /\ outcome \in {"failed", "notReverted"} => Kept
  /\ outcome = "notSaved" => Kept \/ PartlySaved

(* When the command ends, the cordova.<platform>.js files are all as they   *)
(* were or all replaced, and replaced if it succeeded - unless copying back *)
(* failed as well.                                                          *)
JsAllOrNone ==
  pc = "done" /\ outcome # "notReverted" =>
    \/ js = before.js /\ (outcome = "ok" => ~Changed)
    \/ \E version \in FrameworkVersions :
         js = [p \in JsFiles |-> version] /\ (outcome = "ok" => version = saved.framework)

(* "updates the enabled core or integrated plugins to match it": no change  *)
(* of the version, up or down, loses a plugin that the new version has.     *)
MigrationKeepsPlugins ==
  outcome = "ok" /\ Changed /\ ListsAreSaved => \A c \in SelectedConfigurations : KeepsPlugins(c)

==========================================================================
