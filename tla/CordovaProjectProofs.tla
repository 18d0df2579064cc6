----------------------- MODULE CordovaProjectProofs -----------------------
(***************************************************************************)
(* Proofs about CordovaProject, for all plugins, configurations and        *)
(* initial projects, and however commands fail or are killed: its types;   *)
(* that a command that succeeds has written what it changed, and changes   *)
(* only what it was asked to; that the lists of plugins stay coherent, with *)
(* their variables, old or new; and that `prop` implements EnabledPlugins. *)
(***************************************************************************)
EXTENDS CordovaProject, FiniteSetTheorems, SequenceTheorems, WellFoundedInduction, TLAPS

(* What the types rest on: a file, and a configuration named on the command *)
(* line, is in memory; and each step finds the command it belongs to.       *)
InMemoryInv ==
  /\ \A c \in Configurations : disk.config[c] # Missing => mem.config[c] # Missing
  /\ \A c \in options : mem.config[c] # Missing

CommandInv ==
  /\ pc = "prop" => command.name = "prop"
  /\ pc = "command" => command.name = "plugin"
  /\ pc = "task" => todo # <<>>

TypeInv == TypeOK /\ InMemoryInv /\ CommandInv

--------------------------------------------------------------------------
LEMMA LeastNatural ==
  ASSUME NEW S \in SUBSET Nat, S # {}
  PROVE  \E i \in S : \A j \in S : i <= j
<1> DEFINE less == {ss \in Nat \X Nat : ss[1] < ss[2]}
<1>1. IsWellFoundedOn(less, Nat)
  BY NatLessThanWellFounded, Zenon DEF OpToRel
<1> HIDE DEF less
<1>2. PICK i \in S : \A j \in S : ~ (<<j, i>> \in less)
  BY <1>1, WFMin
<1>3. \A j \in S : ~ (j < i)
  BY <1>2 DEF less
<1> QED
  BY <1>2, <1>3

(* The first of some known plugins is one of them. *)
LEMMA FirstIsOne ==
  ASSUME NEW plugins \in SUBSET Elements(KnownPlugins), plugins # {}
  PROVE  First(plugins) \in plugins
<1> DEFINE indices == {i \in DOMAIN KnownPlugins : KnownPlugins[i] \in plugins}
<1>1. indices # {} /\ indices \in SUBSET Nat
  BY KnownPluginsAssumption DEF Elements
<1>2. \E i \in indices : \A j \in indices : i <= j
  BY <1>1, LeastNatural
<1> QED
  BY <1>2 DEF First

LEMMA InstancesKnown ==
  ASSUME NEW id, NEW version
  PROVE  Instances(id, version) \subseteq Elements(KnownPlugins)
BY DEF Instances, Available

(* getBestMatchingPlugin finds one of the instances, if there are any. *)
LEMMA BestMatchingIsInstance ==
  ASSUME NEW id, NEW version, Instances(id, version) # {}
  PROVE  BestMatching(id, version) \in Instances(id, version)
<1> DEFINE own == Available(id, version)
           all == Instances(id, version)
           candidates == IF Market(own) # {} THEN Market(own)
                         ELSE IF Market(all) # {} THEN Market(all)
                         ELSE IF own # {} THEN own
                         ELSE all
<1>1. candidates # {} /\ candidates \subseteq all
  BY DEF Market, Instances
<1>2. candidates \in SUBSET Elements(KnownPlugins)
  BY <1>1, InstancesKnown
<1>3. First(candidates) \in candidates
  BY <1>1, <1>2, FirstIsOne
<1> QED
  BY <1>1, <1>3 DEF BestMatching

(* What configurePluginCore records of a plugin it found for a version is   *)
(* what it records without one.                                             *)
LEMMA RecordOfInstance ==
  ASSUME NEW id, NEW version, NEW plugin \in Instances(id, version)
  PROVE  /\ Record(plugin, version) = Record(plugin, NoVersion)
         /\ Record(plugin, version) \in Records
         /\ plugin.id \in Ids
<1>1. version = NoVersion \/ plugin.version = version
  BY DEF Instances, Available
<1>2. plugin \in Elements(KnownPlugins)
  BY InstancesKnown
<1> QED
  BY <1>1, <1>2, KnownPluginsAssumption DEF Record

--------------------------------------------------------------------------
(* Reading and writing a property of the files in memory. *)
LEMMA DataTypes ==
  /\ Undefined \notin SUBSET Records /\ Undefined \notin SUBSET Ids
  /\ Missing \notin Data
  /\ EmptyData \in Data
BY UndefinedAssumption, MissingAssumption DEF EmptyData, Data

LEMMA GetPropertyType ==
  ASSUME NEW d \in Files, NEW c
  PROVE  /\ OrEmpty(GetProperty(d, "core", c)) \in SUBSET Records
         /\ OrEmpty(GetProperty(d, "vars", c)) \in SUBSET Ids
         /\ GetProperty(d, "core", c) \in {Undefined} \cup SUBSET Records
BY DEF Files, Data, GetProperty, OrEmpty

(* setProperty keeps the types, and no data in memory gets lost. *)
LEMMA SetPropertyType ==
  ASSUME NEW d \in Files, NEW c,
         NEW property, NEW value,
         \/ property = "core" /\ value \in SUBSET Records
         \/ property = "vars" /\ value \in SUBSET Ids
  PROVE  /\ SetProperty(d, property, value, c) \in Files
         /\ \A k \in Configurations :
              d.config[k] # Missing => SetProperty(d, property, value, c).config[k] # Missing
<1> DEFINE old == d.config[c]
           new == [(IF old = Missing THEN EmptyData ELSE old) EXCEPT ![property] = value]
<1>1. c \in Configurations => new \in Data
  BY DataTypes DEF Files, Data
<1>2. CASE HasBuildConfigurations(d)
  <2>1. SetProperty(d, property, value, c) = [d EXCEPT !.config[c] = new]
    BY <1>2 DEF SetProperty
  <2> QED
    BY <1>1, <2>1, DataTypes DEF Files
<1>3. CASE ~ HasBuildConfigurations(d)
  <2>1. SetProperty(d, property, value, c) = [d EXCEPT !.project[property] = value]
    BY <1>3 DEF SetProperty
  <2> QED
    BY <2>1 DEF Files, Data
<1> QED
  BY <1>2, <1>3

--------------------------------------------------------------------------
(* The types hold, step by step. *)
LEMMA TypeInit == Init => TypeInv
<1> SUFFICES ASSUME Init PROVE TypeInv
  OBVIOUS
<1> USE DEF Init, InitFiles, InitialProject
<1>1. disk \in Files
  BY InitialCoresAssumption, DataTypes DEF Files, Data
<1>2. todo \in Seq(Tasks)
  BY EmptySeq
<1> QED
  BY <1>1, <1>2 DEF TypeInv, TypeOK, InMemoryInv, CommandInv, Arguments, BothConfigurations

(* A command starts: what it reads are files, with one for each             *)
(* configuration it names.                                                  *)
LEMMA TypeRead ==
  ASSUME TypeInv, NEW opts \in SUBSET BothConfigurations, ReadProject(opts)
  PROVE  /\ disk' \in Files /\ mem' \in Files /\ started' \in Files
         /\ options' \subseteq BothConfigurations
         /\ InMemoryInv'
<1> DEFINE files == [disk EXCEPT !.config =
                      [c \in Configurations |->
                        IF c \in opts /\ disk.config[c] = Missing THEN EmptyData ELSE disk.config[c]]]
<1>1. disk \in Files
  BY DEF TypeInv, TypeOK
<1>2. files \in Files /\ \A c \in opts : files.config[c] # Missing
  BY <1>1, DataTypes, ConfigurationsAssumption DEF Files, BothConfigurations
<1>3. disk' = files /\ mem' = files /\ options' = opts /\ started' = disk
  BY DEF ReadProject
<1> QED
  BY <1>1, <1>2, <1>3 DEF InMemoryInv

LEMMA TypePluginStart ==
  ASSUME TypeInv, NEW do \in PluginCommands, NEW id \in Ids, NEW opts \in SUBSET {Debug, Release},
         NEW version \in VersionsOf(id) \cup {NoVersion},
         PluginStart(do, id, version, opts)
  PROVE  TypeInv'
<1>1. version \in Versions
  BY DEF VersionsOf, Versions
<1>2. command' \in Arguments /\ command'.name = "plugin" /\ pc' = "command"
  BY <1>1 DEF PluginStart, Arguments
<1>3. UNCHANGED <<todo, toSave, outcome>> /\ ReadProject(opts)
  BY DEF PluginStart
<1>4. opts \in SUBSET BothConfigurations
  BY DEF BothConfigurations
<1> QED
  BY <1>2, <1>3, <1>4, TypeRead DEF TypeInv, TypeOK, CommandInv

LEMMA TypePropStart ==
  ASSUME TypeInv, NEW mode \in PropModes, NEW values \in PropValues,
         NEW opts \in SUBSET {Debug, Release},
         PropStart(mode, values, opts)
  PROVE  TypeInv'
<1>1. command' \in Arguments /\ command'.name = "prop" /\ pc' = "prop"
  BY DEF PropStart, Arguments
<1>2. UNCHANGED <<todo, toSave, outcome>> /\ ReadProject(opts)
  BY DEF PropStart
<1>3. opts \in SUBSET BothConfigurations
  BY DEF BothConfigurations
<1> QED
  BY <1>1, <1>2, <1>3, TypeRead DEF TypeInv, TypeOK, CommandInv

(* A command decides what to do. *)
LEMMA TypeDecide ==
  ASSUME TypeInv, NEW tasks \in Seq(Tasks), Decide(tasks)
  PROVE  TypeInv'
BY DEF Decide, TypeInv, TypeOK, InMemoryInv, CommandInv

LEMMA InOrderType ==
  ASSUME NEW configs, NEW OnDebug \in Seq(Tasks), NEW OnRelease \in Seq(Tasks)
  PROVE  InOrder(configs, OnDebug, OnRelease) \in Seq(Tasks)
BY EmptySeq, ConcatProperties DEF InOrder

LEMMA ConfigureTasksType ==
  ASSUME NEW id \in Ids, NEW version \in Versions, NEW configs
  PROVE  ConfigureTasks(id, version, configs) \in Seq(Tasks)
<1>1. \A c \in Configurations \cup {NoConfig}, v \in Versions : Configure(id, v, c) \in Tasks
  BY DEF Configure, Tasks
<1>2. /\ <<Configure(id, version, Debug)>> \in Seq(Tasks)
      /\ <<Configure(id, version, Release)>> \in Seq(Tasks)
      /\ <<Configure(id, NoVersion, NoConfig)>> \in Seq(Tasks)
  BY <1>1, ConfigurationsAssumption DEF Versions
<1> QED
  BY <1>2, InOrderType DEF ConfigureTasks

LEMMA PluginOfRecordType ==
  ASSUME NEW record
  PROVE  PluginOfRecord(record) \in PluginOrUndefined
BY DEF PluginOfRecord, PluginOrUndefined

LEMMA RemoveTasksType ==
  ASSUME NEW plugin \in Elements(KnownPlugins), NEW c \in Configurations \cup {NoConfig}
  PROVE  RemoveTasks(plugin, c) \in Seq(Tasks)
<1>1. \A q \in PluginOrUndefined : <<Remove(q, c)>> \in Seq(Tasks)
  BY DEF Remove, Tasks
<1>2. plugin \in PluginOrUndefined
  BY DEF PluginOrUndefined
<1> QED
  BY <1>1, <1>2, PluginOfRecordType, EmptySeq, ConcatProperties DEF RemoveTasks

LEMMA InstalledKnown ==
  ASSUME NEW configs, NEW id, AllValid(configs)
  PROVE  /\ FirstInstalled(configs, id) \subseteq Elements(KnownPlugins)
         /\ InstalledByName(configs, id) \subseteq Elements(KnownPlugins)
<1>1. ASSUME NEW otherId
      PROVE  FirstInstalled(configs, otherId) \subseteq Elements(KnownPlugins)
  <2> SUFFICES ASSUME NEW subset \in SUBSET configs, NEW r \in InstalledRecords(subset, otherId)
               PROVE  BestMatching(r.id, r.version) \in Elements(KnownPlugins)
    BY DEF FirstInstalled
  <2>1. Instances(r.id, r.version) # {}
    BY DEF AllValid, InstalledRecords
  <2> QED
    BY <2>1, BestMatchingIsInstance, InstancesKnown
<1> QED
  BY <1>1 DEF InstalledByName

LEMMA TypeAddNewPlugin ==
  ASSUME TypeInv, AddNewPlugin
  PROVE  TypeInv'
<1> DEFINE plugin == BestMatching(command.id, command.version)
<1>1. command \in [name : {"plugin"}, do : PluginCommands, id : Ids, version : Versions]
  BY DEF AddNewPlugin, Adding, TypeInv, TypeOK, CommandInv, Arguments, NoCommand
<1>2. PICK version \in IF plugin.market THEN SelectableVersions(command.version, plugin)
                       ELSE {command.version} :
        Decide(ConfigureTasks(command.id, version, AllowedConfigurations(plugin)))
  BY DEF AddNewPlugin
<1>3. version \in Versions
  BY <1>1, <1>2 DEF SelectableVersions, VersionsOf, Versions
<1> QED
  BY <1>1, <1>2, <1>3, ConfigureTasksType, TypeDecide

LEMMA TypeModify ==
  ASSUME TypeInv, ModifyBoth \/ ModifyVersion \/ ModifyAsAsked
  PROVE  TypeInv'
<1>1. \A plugin \in Elements(KnownPlugins) :
        /\ plugin.id \in Ids
        /\ SelectableVersions(command.version, plugin) \subseteq Versions
  BY KnownPluginsAssumption DEF SelectableVersions, VersionsOf, Versions
<1>2. BothConfigurations \subseteq Configurations /\ options \subseteq Configurations
  BY ConfigurationsAssumption DEF BothConfigurations, TypeInv, TypeOK
<1>3. CASE ModifyBoth
  <2>0. PICK plugin \in Elements(KnownPlugins) :
          \E version \in SelectableVersions(command.version, plugin) :
            Decide(ConfigureTasks(plugin.id, version, BothConfigurations))
    BY <1>3 DEF ModifyBoth
  <2>1. PICK version \in SelectableVersions(command.version, plugin) :
          Decide(ConfigureTasks(plugin.id, version, BothConfigurations))
    BY <2>0
  <2> QED
    BY <1>1, <2>1, ConfigureTasksType, TypeDecide
<1>4. CASE ModifyVersion
  <2>0. PICK plugin \in Elements(KnownPlugins), c \in options :
          \E version \in SelectableVersions(command.version, plugin) :
            Decide(<<Configure(plugin.id, version, c)>>)
    BY <1>4 DEF ModifyVersion
  <2>1. PICK version \in SelectableVersions(command.version, plugin) :
          Decide(<<Configure(plugin.id, version, c)>>)
    BY <2>0
  <2>2. Configure(plugin.id, version, c) \in Tasks
    BY <1>1, <1>2 DEF Configure, Tasks
  <2>3. <<Configure(plugin.id, version, c)>> \in Seq(Tasks)
    BY <2>2
  <2> QED
    BY <2>1, <2>3, TypeDecide
<1>5. CASE ModifyAsAsked
  <2>0. PICK plugin \in Elements(KnownPlugins), c \in options :
          \E version \in SelectableVersions(command.version, plugin) :
            \/ Decide(ConfigureTasks(plugin.id, version, BothConfigurations))
            \/ \E other \in BothConfigurations \ {c} :
                 Decide(<<Remove(plugin, other), Configure(plugin.id, version, c)>>)
    BY <1>5 DEF ModifyAsAsked
  <2>1. PICK version \in SelectableVersions(command.version, plugin) :
          \/ Decide(ConfigureTasks(plugin.id, version, BothConfigurations))
          \/ \E other \in BothConfigurations \ {c} :
               Decide(<<Remove(plugin, other), Configure(plugin.id, version, c)>>)
    BY <2>0
  <2>2. ASSUME NEW other \in BothConfigurations
        PROVE  <<Remove(plugin, other), Configure(plugin.id, version, c)>> \in Seq(Tasks)
    <3>1. Remove(plugin, other) \in Tasks /\ Configure(plugin.id, version, c) \in Tasks
      BY <1>1, <1>2 DEF Remove, Configure, Tasks, PluginOrUndefined
    <3> QED
      BY <3>1
  <2>3. CASE Decide(ConfigureTasks(plugin.id, version, BothConfigurations))
    BY <1>1, <2>3, ConfigureTasksType, TypeDecide
  <2>4. CASE \E other \in BothConfigurations \ {c} :
               Decide(<<Remove(plugin, other), Configure(plugin.id, version, c)>>)
    BY <2>2, <2>4, TypeDecide
  <2> QED
    BY <2>1, <2>3, <2>4
<1> QED
  BY <1>3, <1>4, <1>5

LEMMA TypeConfigureOrRemove ==
  ASSUME TypeInv, ConfigurePlugin \/ RemovePlugin
  PROVE  TypeInv'
<1>1. command \in [name : {"plugin"}, do : PluginCommands, id : Ids, version : Versions]
  BY DEF ConfigurePlugin, RemovePlugin, TypeInv, TypeOK, CommandInv, Arguments, NoCommand
<1>2. CASE ConfigurePlugin
  <2>1. Decide(ConfigureTasks(command.id, NoVersion, SelectedConfigurations))
    BY <1>2 DEF ConfigurePlugin
  <2>2. NoVersion \in Versions
    BY DEF Versions
  <2> QED
    BY <1>1, <2>1, <2>2, ConfigureTasksType, TypeDecide
<1>3. CASE RemovePlugin
  <2>1. PICK plugin \in InstalledByName(SelectedConfigurations, command.id) :
          Decide(IF ~HasBuildConfigurations(mem) THEN RemoveTasks(plugin, NoConfig)
                 ELSE InOrder(SelectedConfigurations, RemoveTasks(plugin, Debug),
                              RemoveTasks(plugin, Release)))
    BY <1>3 DEF RemovePlugin
  <2>2. plugin \in Elements(KnownPlugins)
    BY <1>3, <2>1, InstalledKnown DEF RemovePlugin
  <2>3. \A c \in Configurations \cup {NoConfig} : RemoveTasks(plugin, c) \in Seq(Tasks)
    BY <2>2, RemoveTasksType
  <2> DEFINE tasks == IF ~HasBuildConfigurations(mem) THEN RemoveTasks(plugin, NoConfig)
                      ELSE InOrder(SelectedConfigurations, RemoveTasks(plugin, Debug),
                                   RemoveTasks(plugin, Release))
  <2>4. tasks \in Seq(Tasks)
    BY <2>3, InOrderType, ConfigurationsAssumption
  <2> QED
    BY <2>1, <2>4, TypeDecide
<1> QED
  BY <1>2, <1>3


LEMMA WithoutVariablesType ==
  ASSUME NEW d \in Files, NEW id, NEW c
  PROVE  /\ WithoutVariables(d, id, c) \in Files
         /\ WithoutVariables(d, id, c).project.core = d.project.core
         /\ \A k \in Configurations :
              d.config[k] # Missing =>
                /\ WithoutVariables(d, id, c).config[k] # Missing
                /\ WithoutVariables(d, id, c).config[k].core = d.config[k].core
<1>1. CASE c \in Configurations /\ d.config[c] # Missing /\ d.config[c].vars # Undefined
  <2> DEFINE new == [d.config[c] EXCEPT !.vars = @ \ {id}]
  <2>1. new \in Data /\ new.core = d.config[c].core
    BY <1>1 DEF Files, Data
  <2>2. WithoutVariables(d, id, c) = [d EXCEPT !.config[c] = new]
    BY <1>1 DEF WithoutVariables, Files
  <2> QED
    BY <1>1, <2>1, <2>2, DataTypes DEF Files
<1>2. CASE ~ (c \in Configurations /\ d.config[c] # Missing /\ d.config[c].vars # Undefined)
  <2> DEFINE new == [d.project EXCEPT !.vars = IF @ = Undefined THEN Undefined ELSE @ \ {id}]
  <2>1. new \in Data /\ new.core = d.project.core
    BY DEF Files, Data
  <2>2. WithoutVariables(d, id, c) = [d EXCEPT !.project = new]
    BY <1>2 DEF WithoutVariables, Files
  <2> QED
    BY <2>1, <2>2 DEF Files
<1> QED
  BY <1>1, <1>2

LEMMA WithVariablesType ==
  ASSUME NEW d \in Files, NEW plugin, plugin.id \in Ids, NEW c
  PROVE  /\ WithVariables(d, plugin, c) \in Files
         /\ \A k \in Configurations :
              d.config[k] # Missing => WithVariables(d, plugin, c).config[k] # Missing
<1>1. OrEmpty(GetProperty(d, "vars", c)) \cup {plugin.id} \in SUBSET Ids
  BY GetPropertyType
<1> QED
  BY <1>1, SetPropertyType DEF WithVariables

LEMMA ToSaveType ==
  ASSUME TypeInv, NEW c \in Configurations \cup {NoConfig}
  PROVE  ToSave(c) \in SUBSET Configurations
BY ConfigurationsAssumption DEF ToSave, SelectedConfigurations, TypeInv, TypeOK, BothConfigurations

(* What is in memory stays there when a step only adds to it. *)
LEMMA InMemoryKept ==
  ASSUME TypeInv, UNCHANGED <<disk, options>>,
         \A k \in Configurations : mem.config[k] # Missing => mem'.config[k] # Missing
  PROVE  InMemoryInv'
BY ConfigurationsAssumption DEF InMemoryInv, TypeInv, TypeOK, BothConfigurations

LEMMA TypeConfigureTask ==
  ASSUME TypeInv, ConfigureTask
  PROVE  TypeInv'
<1> DEFINE task == Head(todo)
           plugin == BestMatching(task.id, task.version)
           core == (OrEmpty(GetProperty(mem, "core", task.config)) \ ReplacedRecords(plugin))
                     \cup {Record(plugin, task.version)}
           withVars == WithVariables(mem, plugin, task.config)
<1>1. todo \in Seq(Tasks) /\ todo # <<>>
  BY DEF ConfigureTask, TypeInv, TypeOK, CommandInv
<1>2. task \in Tasks /\ Tail(todo) \in Seq(Tasks)
  BY <1>1, HeadTailProperties
<1>3. task.config \in Configurations \cup {NoConfig}
  BY <1>2 DEF Tasks
<1>4. plugin \in Instances(task.id, task.version)
  BY BestMatchingIsInstance DEF ConfigureTask
<1>5. Record(plugin, task.version) \in Records /\ plugin.id \in Ids
  BY <1>4, RecordOfInstance
<1>6. mem \in Files
  BY DEF TypeInv, TypeOK
<1>7. core \in SUBSET Records
  BY <1>5, <1>6, GetPropertyType
<1>8. /\ withVars \in Files
      /\ \A k \in Configurations : mem.config[k] # Missing => withVars.config[k] # Missing
  BY <1>5, <1>6, WithVariablesType
<1>9. mem' = SetProperty(withVars, "core", core, task.config)
  BY DEF ConfigureTask
<1>10. /\ mem' \in Files
       /\ \A k \in Configurations : mem.config[k] # Missing => mem'.config[k] # Missing
  <2> HIDE DEF core, withVars
  <2> QED
    BY <1>7, <1>8, <1>9, SetPropertyType
<1>11. /\ todo' = Tail(todo) /\ pc' = "save" /\ toSave' = ToSave(task.config)
       /\ UNCHANGED <<disk, options, outcome, started, command>>
  BY DEF ConfigureTask
<1>12. InMemoryInv'
  BY <1>10, <1>11, InMemoryKept
<1>13. toSave' \subseteq Configurations
  BY <1>3, <1>11, ToSaveType
<1> QED
  BY <1>2, <1>10, <1>11, <1>12, <1>13 DEF TypeInv, TypeOK, CommandInv, Arguments

LEMMA TypeRemoveTask ==
  ASSUME TypeInv, RemoveTask
  PROVE  TypeInv'
<1> DEFINE task == Head(todo)
           core == GetProperty(mem, "core", task.config)
           record == Record(task.plugin, NoVersion)
           withoutVars == WithoutVariables(mem, task.plugin.id, task.config)
<1>1. todo \in Seq(Tasks) /\ todo # <<>>
  BY DEF RemoveTask, TypeInv, TypeOK, CommandInv
<1>2. task \in Tasks /\ Tail(todo) \in Seq(Tasks)
  BY <1>1, HeadTailProperties
<1>3. task.config \in Configurations \cup {NoConfig}
  BY <1>2 DEF Tasks
<1>4. mem \in Files
  BY DEF TypeInv, TypeOK
<1>5. core \ {record} \in SUBSET Records
  <2>1. core # Undefined
    BY DEF RemoveTask
  <2>2. core \in SUBSET Records
    BY <1>4, <2>1, GetPropertyType
  <2> QED
    BY <2>2
<1>6. /\ withoutVars \in Files
      /\ \A k \in Configurations : mem.config[k] # Missing => withoutVars.config[k] # Missing
  BY <1>4, WithoutVariablesType
<1>7. /\ todo' = Tail(todo)
      /\ UNCHANGED <<disk, options, started, command>>
  BY DEF RemoveTask
<1>8. CASE record \in core
  <2>1. /\ mem' = SetProperty(withoutVars, "core", core \ {record}, task.config)
        /\ toSave' = ToSave(task.config) /\ pc' = "save" /\ UNCHANGED outcome
    BY <1>8 DEF RemoveTask
  <2>2. /\ mem' \in Files
        /\ \A k \in Configurations : mem.config[k] # Missing => mem'.config[k] # Missing
    <3> HIDE DEF core, withoutVars
    <3> QED
      BY <1>5, <1>6, <2>1, SetPropertyType
  <2>3. InMemoryInv' /\ toSave' \subseteq Configurations
    BY <1>3, <1>7, <2>1, <2>2, InMemoryKept, ToSaveType
  <2> QED
    BY <1>2, <1>7, <2>1, <2>2, <2>3 DEF TypeInv, TypeOK, CommandInv, Arguments
<1>9. CASE record \notin core
  <2>1. /\ mem' = withoutVars /\ UNCHANGED toSave
        /\ pc' = IF Tail(todo) = <<>> THEN "done" ELSE "task"
        /\ outcome' = IF Tail(todo) = <<>> THEN "ok" ELSE outcome
    BY <1>9 DEF RemoveTask
  <2>2. InMemoryInv'
    BY <1>6, <1>7, <2>1, InMemoryKept
  <2> QED
    BY <1>2, <1>6, <1>7, <2>1, <2>2 DEF TypeInv, TypeOK, CommandInv, Arguments
<1> QED
  BY <1>8, <1>9

(* The steps of a prop command: the list goes to the configurations, is     *)
(* changed there, and goes back.                                            *)
LEMMA MoveToConfigurationsType ==
  ASSUME NEW d \in Files
  PROVE  /\ MoveToConfigurations(d) \in Files
         /\ \A k \in Configurations :
              d.config[k] # Missing => MoveToConfigurations(d).config[k] # Missing
<1> DEFINE stays(k) == d.config[k] = Missing \/ d.project.core = Undefined \/ d.project.core = {}
           new(k) == [d.config[k] EXCEPT !.core = d.project.core]
           project == [d.project EXCEPT !.core = Undefined]
<1>1. \A k \in Configurations : ~ stays(k) => new(k) \in Data
  BY DEF Files, Data
<1>2. project \in Data
  BY DEF Files, Data
<1>3. MoveToConfigurations(d) =
        [project |-> project, config |-> [k \in Configurations |-> IF stays(k) THEN d.config[k] ELSE new(k)]]
  BY DEF MoveToConfigurations
<1> HIDE DEF new, project
<1> QED
  BY <1>1, <1>2, <1>3, DataTypes DEF Files

LEMMA UpdateConfigurationsType ==
  ASSUME NEW d \in Files,
         command.mode \in {"add", "del", "set"}, command.values \in SUBSET Records,
         Updatable(d),
         \A k \in Configurations : k \in Targets(d) => d.config[k] # Missing
  PROVE  /\ UpdateConfigurations(d) \in Files
         /\ \A k \in Configurations :
              d.config[k] # Missing => UpdateConfigurations(d).config[k] # Missing
<1> DEFINE new(k) == [d.config[k] EXCEPT !.core = Updated(@)]
<1>1. ASSUME NEW k \in Configurations, k \in Targets(d)
      PROVE  new(k) \in Data
  <2>1. d.config[k] \in Data
    BY <1>1 DEF Files
  <2>2. command.mode = "set" \/ d.config[k].core \in SUBSET Records
    BY <1>1, <2>1 DEF Updatable, Data
  <2>3. Updated(d.config[k].core) \in SUBSET Records
    BY <2>2 DEF Updated
  <2> QED
    BY <2>1, <2>3 DEF Data
<1>2. UpdateConfigurations(d) =
        [d EXCEPT !.config = [k \in Configurations |-> IF k \in Targets(d) THEN new(k) ELSE d.config[k]]]
  BY DEF UpdateConfigurations
<1> HIDE DEF new
<1>3. [k \in Configurations |-> IF k \in Targets(d) THEN new(k) ELSE d.config[k]]
        \in [Configurations -> {Missing} \cup Data]
  BY <1>1 DEF Files
<1>4. \A k \in Configurations :
        d.config[k] # Missing => (IF k \in Targets(d) THEN new(k) ELSE d.config[k]) # Missing
  BY <1>1, DataTypes
<1> QED
  BY <1>2, <1>3, <1>4, ZenonT(40) DEF Files

LEMMA MovedBackType ==
  ASSUME NEW d \in Files, NEW result \in MovedBack(d)
  PROVE  /\ result \in Files
         /\ \A k \in Configurations : d.config[k] # Missing => result.config[k] # Missing
<1>1. CASE result = d
  BY <1>1
<1>2. CASE result # d
  <2>1. PICK first \in InMemory(d) : result = MoveToProject(d, first)
    BY <1>2 DEF MovedBack
  <2> DEFINE project == [d.project EXCEPT !.core = d.config[first].core]
             new(k) == [d.config[k] EXCEPT !.core = Undefined]
  <2>2. project \in Data
    BY DEF InMemory, Files, Data
  <2>3. \A k \in Configurations : d.config[k] # Missing => new(k) \in Data
    BY DEF Files, Data
  <2>4. result = [project |-> project,
                  config |-> [k \in Configurations |-> IF d.config[k] = Missing THEN Missing ELSE new(k)]]
    BY <1>2, <2>1 DEF MoveToProject
  <2> HIDE DEF project, new
  <2> QED
    BY <2>2, <2>3, <2>4, DataTypes DEF Files
<1> QED
  BY <1>1, <1>2

LEMMA TypePropUpdate ==
  ASSUME TypeInv, PropUpdate
  PROVE  TypeInv'
<1> DEFINE moved == MoveToConfigurations(mem)
           updated == UpdateConfigurations(moved)
<1>1. mem \in Files /\ options \subseteq Configurations
  BY ConfigurationsAssumption DEF TypeInv, TypeOK, BothConfigurations
<1>2. command.mode \in {"add", "del", "set"} /\ command.values \in SUBSET Records
  <2>1. command \in [name : {"prop"}, mode : PropModes, values : PropValues]
    BY DEF PropUpdate, TypeInv, TypeOK, CommandInv, Arguments, NoCommand
  <2> QED
    BY <2>1, PropModesAssumption, PropValuesAssumption
<1>3. /\ moved \in Files
      /\ \A k \in Configurations : mem.config[k] # Missing => moved.config[k] # Missing
  BY <1>1, MoveToConfigurationsType
<1>4. \A k \in Configurations : k \in Targets(moved) => moved.config[k] # Missing
  BY <1>1, <1>3 DEF Targets, InMemory, TypeInv, InMemoryInv
<1>5. /\ updated \in Files
      /\ \A k \in Configurations : moved.config[k] # Missing => updated.config[k] # Missing
  <2>1. Updatable(moved)
    BY DEF PropUpdate
  <2> HIDE DEF moved
  <2> QED
    BY <1>2, <1>3, <1>4, <2>1, UpdateConfigurationsType
<1>6. /\ mem' \in Files
      /\ \A k \in Configurations : mem.config[k] # Missing => mem'.config[k] # Missing
  <2>1. mem' \in MovedBack(updated)
    BY DEF PropUpdate
  <2> HIDE DEF moved, updated
  <2> QED
    BY <1>3, <1>5, <2>1, MovedBackType
<1>7. /\ toSave' = InMemory(mem) /\ pc' = "save"
      /\ UNCHANGED <<disk, options, todo, outcome, started, command>>
  BY DEF PropUpdate
<1>8. InMemoryInv' /\ toSave' \subseteq Configurations
  BY <1>6, <1>7, InMemoryKept DEF InMemory
<1> QED
  BY <1>6, <1>7, <1>8 DEF TypeInv, TypeOK, CommandInv, Arguments

(* A command saves, fails, ends or is killed. *)
LEMMA TypeFail ==
  ASSUME TypeInv, NEW result \in {"failed", "notSaved"}, FailAs(result)
  PROVE  TypeInv'
<1>1. todo' \in Seq(Tasks)
  BY EmptySeq DEF FailAs
<1> QED
  BY <1>1 DEF FailAs, TypeInv, TypeOK, InMemoryInv, CommandInv, Arguments

LEMMA TypeSave ==
  ASSUME TypeInv, SaveStep
  PROVE  TypeInv'
<1> USE DEF TypeInv, TypeOK, InMemoryInv, CommandInv
<1>1. CASE SaveProjectFile
  <2>1. disk' \in Files /\ disk'.config = disk.config
    BY <1>1 DEF SaveProjectFile, Files
  <2> QED
    BY <1>1, <2>1 DEF SaveProjectFile, Arguments
<1>2. ASSUME NEW c \in toSave, SaveConfigurationFile(c)
      PROVE  TypeInv'
  <2>1. /\ disk' \in Files
        /\ \A k \in Configurations : disk'.config[k] # Missing => disk.config[k] # Missing
    BY <1>2 DEF SaveConfigurationFile, Files
  <2> QED
    BY <1>2, <2>1 DEF SaveConfigurationFile, Arguments
<1>3. CASE Saved
  BY <1>3 DEF Saved, Arguments
<1> QED
  BY <1>1, <1>2, <1>3 DEF SaveStep

LEMMA TypeQuit ==
  ASSUME TypeInv, Quit
  PROVE  TypeInv'
<1>1. todo' \in Seq(Tasks)
  BY EmptySeq DEF Quit
<1> QED
  BY <1>1 DEF Quit, TypeInv, TypeOK, InMemoryInv, CommandInv, Arguments, BothConfigurations

LEMMA TypeNext ==
  ASSUME TypeInv, [Next]_vars
  PROVE  TypeInv'
<1>1. CASE PropStep
  <2>1. CASE \E mode \in PropModes, values \in PropValues, opts \in SUBSET {Debug, Release} :
               PropStart(mode, values, opts)
    BY <2>1, TypePropStart
  <2>2. CASE PropUpdate
    BY <2>2, TypePropUpdate
  <2>3. CASE PropFails
    BY <2>3, TypeFail DEF PropFails, Fail
  <2> QED
    BY <1>1, <2>1, <2>2, <2>3 DEF PropStep
<1>2. CASE PluginStep
  <2>1. ASSUME NEW do \in PluginCommands, NEW id \in Ids, NEW opts \in SUBSET {Debug, Release},
               NEW version \in IF do = "add" THEN VersionsOf(id) \cup {NoVersion} ELSE {NoVersion},
               PluginStart(do, id, version, opts)
        PROVE  TypeInv'
    BY <2>1, TypePluginStart
  <2>2. CASE AddOfInstalledCorePlugin
    <3>1. <<>> \in Seq(Tasks) /\ Decide(<<>>)
      BY <2>2, EmptySeq DEF AddOfInstalledCorePlugin
    <3> QED
      BY <3>1, TypeDecide
  <2>3. CASE AddNewPlugin
    BY <2>3, TypeAddNewPlugin
  <2>4. CASE ModifyBoth \/ ModifyVersion \/ ModifyAsAsked
    BY <2>4, TypeModify
  <2>5. CASE ConfigurePlugin \/ RemovePlugin
    BY <2>5, TypeConfigureOrRemove
  <2>6. CASE ConfigureTask
    BY <2>6, TypeConfigureTask
  <2>7. CASE RemoveTask
    BY <2>7, TypeRemoveTask
  <2>8. CASE PluginFails
    BY <2>8, TypeFail DEF PluginFails, Fail
  <2> QED
    BY <1>2, <2>1, <2>2, <2>3, <2>4, <2>5, <2>6, <2>7, <2>8 DEF PluginStep
<1>3. CASE SaveStep
  BY <1>3, TypeSave
<1>4. CASE Exit \/ Killed
  BY <1>4, TypeQuit DEF Exit, Killed, Kill
<1>5. CASE NotSaved
  BY <1>5, TypeFail DEF NotSaved, SaveFails
<1>6. CASE UNCHANGED vars
  BY <1>6 DEF vars, TypeInv, TypeOK, InMemoryInv, CommandInv, Arguments
<1> QED
  BY <1>1, <1>2, <1>3, <1>4, <1>5, <1>6 DEF Next

(* The variables have their types in every state, whatever plugins there    *)
(* are and wherever a command fails or is killed: in particular the lists   *)
(* of the files only hold records of plugins the CLI knows (configurePlugin *)
(* Core and removePluginCore, updateCorePlugins, saveProject).              *)
THEOREM TypeCorrect == Spec => []TypeOK
<1>1. TypeInv => TypeOK
  BY DEF TypeInv
<1> QED
  BY <1>1, TypeInit, TypeNext, PTL DEF Spec

--------------------------------------------------------------------------
(* That a command which ended well has saved its lists: between saves they  *)
(* are the same in memory and on disk, and during one they are but for what *)
(* is left to save.                                                         *)
Synced(c) == disk.config[c] # Missing => mem.config[c].core = disk.config[c].core

ProjectSynced == mem.project.core = disk.project.core

SavedInv ==
  /\ pc \in {"idle", "command", "prop", "task"} \/ outcome = "ok" =>
       ProjectSynced /\ \A c \in Configurations : Synced(c)
  /\ pc = "save" => \A c \in Configurations \ toSave : Synced(c)
  /\ pc = "saveConfigurations" => ProjectSynced /\ \A c \in Configurations \ toSave : Synced(c)
  /\ outcome = "ok" => pc = "done"

(* setProperty touches one configuration. *)
LEMMA SetPropertyElsewhere ==
  ASSUME NEW d \in Files, NEW c, NEW property, NEW value,
         NEW k \in Configurations, k # c
  PROVE  SetProperty(d, property, value, c).config[k] = d.config[k]
BY DEF SetProperty, Files

LEMMA WithVariablesElsewhere ==
  ASSUME NEW d \in Files, NEW plugin, NEW c, NEW k \in Configurations, k # c
  PROVE  WithVariables(d, plugin, c).config[k] = d.config[k]
BY SetPropertyElsewhere DEF WithVariables

LEMMA ToSaveOthers ==
  ASSUME NEW c \in Configurations \cup {NoConfig}, NEW k \in Configurations, k \notin ToSave(c)
  PROVE  k # c
BY NoConfigAssumption DEF ToSave, NoConfig

LEMMA SavedInit == Init => SavedInv
BY DEF Init, InitFiles, SavedInv, Synced, ProjectSynced

LEMMA SavedStart ==
  ASSUME TypeInv, SavedInv, NEW opts, ReadProject(opts),
         pc' \in {"command", "prop"}, UNCHANGED outcome, pc = "idle"
  PROVE  SavedInv'
<1>1. mem' = disk' /\ outcome' # "ok"
  BY DEF ReadProject, SavedInv
<1> QED
  BY <1>1 DEF SavedInv, Synced, ProjectSynced

LEMMA SavedDecide ==
  ASSUME SavedInv, NEW tasks, Decide(tasks), pc = "command"
  PROVE  SavedInv'
BY DEF Decide, SavedInv, Synced, ProjectSynced

LEMMA SavedConfigureTask ==
  ASSUME TypeInv, SavedInv, ConfigureTask
  PROVE  SavedInv'
<1> DEFINE task == Head(todo)
           plugin == BestMatching(task.id, task.version)
           core == (OrEmpty(GetProperty(mem, "core", task.config)) \ ReplacedRecords(plugin))
                     \cup {Record(plugin, task.version)}
           withVars == WithVariables(mem, plugin, task.config)
<1>1. task \in Tasks
  BY HeadTailProperties DEF ConfigureTask, TypeInv, TypeOK, CommandInv
<1>2. task.config \in Configurations \cup {NoConfig}
  BY <1>1 DEF Tasks
<1>3. withVars \in Files
  <2>1. plugin \in Instances(task.id, task.version)
    BY BestMatchingIsInstance DEF ConfigureTask
  <2>2. plugin.id \in Ids /\ mem \in Files
    BY <2>1, RecordOfInstance DEF TypeInv, TypeOK
  <2> QED
    BY <2>2, WithVariablesType
<1>4. \A k \in Configurations : k # task.config => withVars.config[k] = mem.config[k]
  BY WithVariablesElsewhere DEF TypeInv, TypeOK
<1>5. mem' = SetProperty(withVars, "core", core, task.config)
  BY DEF ConfigureTask
<1>6. ASSUME NEW k \in Configurations, k # task.config
      PROVE  mem'.config[k] = mem.config[k]
  <2> HIDE DEF core, withVars
  <2> QED
    BY <1>3, <1>4, <1>5, <1>6, SetPropertyElsewhere
<1>7. /\ pc = "task" /\ pc' = "save" /\ toSave' = ToSave(task.config)
      /\ UNCHANGED <<disk, outcome>>
  BY DEF ConfigureTask
<1>8. \A k \in Configurations \ toSave' : mem'.config[k] = mem.config[k]
  BY <1>2, <1>6, <1>7, ToSaveOthers
<1> QED
  BY <1>7, <1>8 DEF SavedInv, Synced, ProjectSynced

LEMMA SavedRemoveTask ==
  ASSUME TypeInv, SavedInv, RemoveTask
  PROVE  SavedInv'
<1> DEFINE task == Head(todo)
           core == GetProperty(mem, "core", task.config)
           record == Record(task.plugin, NoVersion)
           withoutVars == WithoutVariables(mem, task.plugin.id, task.config)
<1>1. task \in Tasks
  BY HeadTailProperties DEF RemoveTask, TypeInv, TypeOK, CommandInv
<1>2. task.config \in Configurations \cup {NoConfig}
  BY <1>1 DEF Tasks
<1>3. /\ withoutVars \in Files
      /\ withoutVars.project.core = mem.project.core
      /\ \A k \in Configurations :
           mem.config[k] # Missing => withoutVars.config[k].core = mem.config[k].core
  BY WithoutVariablesType DEF TypeInv, TypeOK
<1>4. \A k \in Configurations : disk.config[k] # Missing => mem.config[k] # Missing
  BY DEF TypeInv, InMemoryInv
<1>5. pc = "task" /\ UNCHANGED disk /\ outcome # "ok"
  BY DEF RemoveTask, SavedInv
<1>6. CASE record \in core
  <2>1. /\ mem' = SetProperty(withoutVars, "core", core \ {record}, task.config)
        /\ toSave' = ToSave(task.config) /\ pc' = "save" /\ UNCHANGED outcome
    BY <1>6 DEF RemoveTask
  <2>2. ASSUME NEW k \in Configurations, k # task.config
        PROVE  mem'.config[k] = withoutVars.config[k]
    <3> HIDE DEF core, withoutVars
    <3> QED
      BY <1>3, <2>1, <2>2, SetPropertyElsewhere
  <2>3. \A k \in Configurations \ toSave' : mem'.config[k] = withoutVars.config[k]
    BY <1>2, <2>1, <2>2, ToSaveOthers
  <2> HIDE DEF withoutVars
  <2> QED
    BY <1>3, <1>4, <1>5, <2>1, <2>3 DEF SavedInv, Synced
<1>7. CASE record \notin core
  <2>1. /\ mem' = withoutVars
        /\ \/ pc' = "task" /\ UNCHANGED outcome
           \/ pc' = "done"
    BY <1>7 DEF RemoveTask
  <2> HIDE DEF withoutVars
  <2> QED
    BY <1>3, <1>4, <1>5, <2>1 DEF SavedInv, Synced, ProjectSynced
<1> QED
  BY <1>6, <1>7

LEMMA SavedPropUpdate ==
  ASSUME TypeInv, SavedInv, PropUpdate
  PROVE  SavedInv'
<1>1. /\ pc = "prop" /\ pc' = "save" /\ toSave' = InMemory(mem)
      /\ UNCHANGED <<disk, outcome>>
  BY DEF PropUpdate
<1>2. \A k \in Configurations \ toSave' : disk'.config[k] = Missing
  BY <1>1 DEF InMemory, TypeInv, InMemoryInv
<1> QED
  BY <1>1, <1>2 DEF SavedInv, Synced

LEMMA SavedSave ==
  ASSUME TypeInv, SavedInv, SaveStep
  PROVE  SavedInv'
<1> USE DEF SavedInv, Synced, ProjectSynced
<1>1. disk \in Files
  BY DEF TypeInv, TypeOK
<1>2. CASE SaveProjectFile
  <2>1. disk'.config = disk.config /\ disk'.project = mem.project
    BY <1>1, <1>2 DEF SaveProjectFile, Files
  <2> QED
    BY <1>2, <2>1 DEF SaveProjectFile
<1>3. ASSUME NEW c \in toSave, SaveConfigurationFile(c)
      PROVE  SavedInv'
  <2>1. /\ disk'.project = disk.project
        /\ \A k \in Configurations \ {c} : disk'.config[k] = disk.config[k]
        /\ c \in Configurations /\ disk'.config[c] # Missing => disk'.config[c] = mem.config[c]
    BY <1>1, <1>3 DEF SaveConfigurationFile, Files, TypeInv, InMemoryInv
  <2> QED
    BY <1>3, <2>1 DEF SaveConfigurationFile
<1>4. CASE Saved
  BY <1>4 DEF Saved
<1> QED
  BY <1>2, <1>3, <1>4 DEF SaveStep

(* Each plugin command decides what to do, and only that. *)
LEMMA CommandsDecide ==
  ASSUME \/ AddOfInstalledCorePlugin \/ AddNewPlugin
         \/ ModifyBoth \/ ModifyVersion \/ ModifyAsAsked
         \/ ConfigurePlugin \/ RemovePlugin
  PROVE  pc = "command" /\ \E tasks : Decide(tasks)
<1>1. CASE AddOfInstalledCorePlugin
  BY <1>1 DEF AddOfInstalledCorePlugin, Adding
<1>2. CASE AddNewPlugin
  BY <1>2 DEF AddNewPlugin, Adding
<1>3. CASE ModifyBoth
  BY <1>3 DEF ModifyBoth, Modifying, Adding
<1>4. CASE ModifyVersion
  BY <1>4 DEF ModifyVersion, Modifying, Adding
<1>5. CASE ModifyAsAsked
  BY <1>5 DEF ModifyAsAsked, Modifying, Adding
<1>6. CASE ConfigurePlugin
  BY <1>6 DEF ConfigurePlugin
<1>7. CASE RemovePlugin
  BY <1>7 DEF RemovePlugin
<1> QED
  BY <1>1, <1>2, <1>3, <1>4, <1>5, <1>6, <1>7

LEMMA SavedNext ==
  ASSUME TypeInv, SavedInv, [Next]_vars
  PROVE  SavedInv'
<1>1. CASE PropStep
  <2>1. ASSUME NEW mode \in PropModes, NEW values \in PropValues, NEW opts \in SUBSET {Debug, Release},
               PropStart(mode, values, opts)
        PROVE  SavedInv'
    <3>1. pc = "idle" /\ ReadProject(opts) /\ pc' = "prop" /\ UNCHANGED outcome
      BY <2>1 DEF PropStart
    <3> QED
      BY <3>1, SavedStart
  <2>2. CASE PropUpdate
    BY <2>2, SavedPropUpdate
  <2>3. CASE PropFails
    BY <2>3 DEF PropFails, Fail, FailAs, SavedInv
  <2> QED
    BY <1>1, <2>1, <2>2, <2>3 DEF PropStep
<1>2. CASE PluginStep
  <2>1. ASSUME NEW do \in PluginCommands, NEW id \in Ids, NEW opts \in SUBSET {Debug, Release},
               NEW version \in IF do = "add" THEN VersionsOf(id) \cup {NoVersion} ELSE {NoVersion},
               PluginStart(do, id, version, opts)
        PROVE  SavedInv'
    <3>1. pc = "idle" /\ ReadProject(opts) /\ pc' = "command" /\ UNCHANGED outcome
      BY <2>1 DEF PluginStart
    <3> QED
      BY <3>1, SavedStart
  <2>2. CASE \/ AddOfInstalledCorePlugin \/ AddNewPlugin
             \/ ModifyBoth \/ ModifyVersion \/ ModifyAsAsked
             \/ ConfigurePlugin \/ RemovePlugin
    <3>1. pc = "command" /\ \E tasks : Decide(tasks)
      BY <2>2, CommandsDecide
    <3> QED
      BY <3>1, SavedDecide
  <2>3. CASE ConfigureTask
    BY <2>3, SavedConfigureTask
  <2>4. CASE RemoveTask
    BY <2>4, SavedRemoveTask
  <2>5. CASE PluginFails
    BY <2>5 DEF PluginFails, Fail, FailAs, SavedInv
  <2> QED
    BY <1>2, <2>1, <2>2, <2>3, <2>4, <2>5 DEF PluginStep
<1>3. CASE SaveStep
  BY <1>3, SavedSave
<1>4. CASE Exit \/ Killed
  <2>1. Quit
    BY <1>4 DEF Exit, Killed, Kill
  <2> QED
    BY <2>1 DEF Quit, SavedInv, Synced, ProjectSynced
<1>5. CASE UNCHANGED vars
  BY <1>5 DEF vars, SavedInv, Synced, ProjectSynced
<1>6. CASE NotSaved
  BY <1>6 DEF NotSaved, SaveFails, FailAs, SavedInv
<1> QED
  BY <1>1, <1>2, <1>3, <1>4, <1>5, <1>6 DEF Next

(* A command that ends without an error has written every list of plugins   *)
(* it changed, though it saves one configuration at a time and saveProject   *)
(* skips a configuration without a file: what a build of a configuration     *)
(* that has one gets is what the command computed.                           *)
THEOREM SavedWhenDone == Spec => []SavedWhenOk
<1>1. TypeInv /\ SavedInv => SavedWhenOk
  BY DEF SavedInv, Synced, ProjectSynced, SavedWhenOk, Enabled, GetProperty, TypeInv, InMemoryInv
<1>2. Init => TypeInv /\ SavedInv
  BY TypeInit, SavedInit
<1>3. TypeInv /\ SavedInv /\ [Next]_vars => (TypeInv /\ SavedInv)'
  BY TypeNext, SavedNext
<1> QED
  BY <1>1, <1>2, <1>3, PTL DEF Spec

--------------------------------------------------------------------------
(* That a plugin command changes what it was asked to change only.  What is *)
(* left to do is of the plugin it was given, the one that replaces it and   *)
(* the one it replaces, and with --debug or --release of those              *)
(* configurations; the other records of every list are those of the files   *)
(* it found, in memory and on disk.                                         *)
OthersOf(list) == {r \in OrEmpty(list) : r.id \notin Family(command.id)}

Narrow == command.do \in {"configure", "remove"} /\ options # {}

AskedTask(task) ==
  /\ task.do = "configure" => task.id = command.id
  /\ task.do = "remove" /\ task.plugin # Undefined => task.plugin.id \in Family(command.id)
  /\ Narrow => task.config \in options

AskedTasks(tasks) == tasks \in Seq({task \in Tasks : AskedTask(task)})

(* d: the files, or what is in memory. *)
OthersKeptIn(d) ==
  /\ \A c \in Configurations : OthersOf(Enabled(d, c)) = OthersOf(Enabled(started, c))
  /\ HasBuildConfigurations(mem) => d.project.core = started.project.core
  /\ Narrow => \A c \in Configurations \ options : Enabled(d, c) = Enabled(started, c)

NothingLeftInv == pc \in {"idle", "command", "prop", "done"} => todo = <<>>

AskedInv ==
  /\ NothingLeftInv
  /\ command.name = "plugin" => AskedTasks(todo) /\ OthersKeptIn(mem) /\ OthersKeptIn(disk)

(* What the plugins that a command finds have to do with the one given. *)
LEMMA InstanceIds ==
  ASSUME NEW id, NEW version, NEW plugin \in Instances(id, version)
  PROVE  plugin.id = id \/ (ObsoletedBy[id] # NoId /\ plugin.id = ObsoletedBy[id])
BY DEF Instances, Available

LEMMA ObsoletingIds ==
  ASSUME NEW id, Obsoleting(id) # NoId
  PROVE  Obsoleting(id) \in Ids /\ ObsoletedBy[Obsoleting(id)] = id
BY DEF Obsoleting

LEMMA FamilyOfReplacing ==
  ASSUME NEW id \in Ids, ObsoletedBy[id] # NoId
  PROVE  Family(ObsoletedBy[id]) \subseteq Family(id)
<1> DEFINE by == ObsoletedBy[id]
<1>1. ObsoletedBy[by] = NoId
  BY ReplacingAssumption
<1>2. Obsoleting(by) # NoId => Obsoleting(by) = id
  BY ObsoletingIds, ReplacingAssumption
<1> QED
  BY <1>1, <1>2 DEF Family

LEMMA FamilyOfInstance ==
  ASSUME NEW id \in Ids, NEW version, NEW plugin \in Instances(id, version)
  PROVE  Family(plugin.id) \subseteq Family(id)
BY InstanceIds, FamilyOfReplacing

LEMMA ReplacedInFamily ==
  ASSUME NEW plugin, plugin.id \in Ids, NEW r \in ReplacedRecords(plugin)
  PROVE  r.id \in Family(plugin.id)
<1> DEFINE by == ObsoletedBy[plugin.id]
           old == Obsoleting(plugin.id)
<1>1. PICK p : /\ r = Record(p, NoVersion)
               /\ \/ p \in Instances(plugin.id, NoVersion)
                  \/ by # NoId /\ p \in Instances(by, NoVersion)
                  \/ old # NoId /\ p \in Instances(old, NoVersion)
  BY DEF ReplacedRecords
<1>2. r.id = p.id /\ p.id # NoId
  BY <1>1, InstancesKnown, KnownPluginsAssumption, ObsoletedByAssumption DEF Record
<1>3. p \in Instances(plugin.id, NoVersion) => p.id = plugin.id \/ (by # NoId /\ p.id = by)
  BY InstanceIds
<1>4. by # NoId /\ p \in Instances(by, NoVersion) => p.id = by
  BY InstanceIds, ReplacingAssumption
<1>5. old # NoId /\ p \in Instances(old, NoVersion) => p.id = old \/ p.id = plugin.id
  BY InstanceIds, ObsoletingIds
<1> QED
  BY <1>1, <1>2, <1>3, <1>4, <1>5 DEF Family

LEMMA ReplacedOrAdded ==
  ASSUME NEW id \in Ids, NEW version, NEW plugin \in Instances(id, version)
  PROVE  \A r \in ReplacedRecords(plugin) \cup {Record(plugin, version)} : r.id \in Family(id)
<1>1. plugin.id \in Ids
  BY RecordOfInstance
<1>2. plugin.id \in Family(plugin.id)
  BY <1>1, ObsoletedByAssumption DEF Family
<1>3. Record(plugin, version).id = plugin.id
  BY DEF Record
<1> QED
  BY <1>1, <1>2, <1>3, ReplacedInFamily, FamilyOfInstance

(* setProperty of a list: with configuration files the project's list and   *)
(* those of other configurations stay, without any the project's is it.    *)
LEMMA ListSet ==
  ASSUME NEW d \in Files, NEW c, NEW list \in SUBSET Records
  PROVE  LET result == SetProperty(d, "core", list, c)
         IN /\ HasBuildConfigurations(d) <=> HasBuildConfigurations(result)
            /\ HasBuildConfigurations(d) =>
                 /\ result.project.core = d.project.core
                 /\ \A k \in Configurations : Enabled(result, k) = IF k = c THEN list ELSE Enabled(d, k)
            /\ ~HasBuildConfigurations(d) =>
                 \A k \in Configurations : Enabled(result, k) = list /\ Enabled(d, k) = GetProperty(d, "core", c)
<1> DEFINE result == SetProperty(d, "core", list, c)
           old == d.config[c]
           new == [(IF old = Missing THEN EmptyData ELSE old) EXCEPT !["core"] = list]
<1>1. list # Undefined
  BY DataTypes
<1>2. CASE HasBuildConfigurations(d)
  <2>1. result = [d EXCEPT !.config[c] = new]
    BY <1>2 DEF SetProperty
  <2>2. c \in Configurations => new \in Data /\ new.core = list /\ new # Missing
    BY DataTypes DEF Files, Data
  <2> HIDE DEF new
  <2>3. /\ result.project = d.project
        /\ \A k \in Configurations : result.config[k] = IF k = c THEN new ELSE d.config[k]
    BY <2>1 DEF Files
  <2> HIDE DEF result
  <2>4. HasBuildConfigurations(result)
    BY <1>2, <2>2, <2>3 DEF HasBuildConfigurations
  <2>5. ASSUME NEW k \in Configurations
        PROVE  Enabled(result, k) = IF k = c THEN list ELSE Enabled(d, k)
    BY <1>1, <2>2, <2>3 DEF Enabled, GetProperty
  <2> QED
    BY <1>2, <2>3, <2>4, <2>5 DEF result
<1>3. CASE ~HasBuildConfigurations(d)
  <2>1. result = [d EXCEPT !.project["core"] = list]
    BY <1>3 DEF SetProperty
  <2>2. result.config = d.config /\ result.project.core = list
    BY <2>1 DEF Files, Data
  <2> HIDE DEF result
  <2>3. ~HasBuildConfigurations(result) /\ \A k \in Configurations : d.config[k] = Missing
    BY <1>3, <2>2 DEF HasBuildConfigurations
  <2>4. ASSUME NEW k \in Configurations
        PROVE  Enabled(result, k) = list /\ Enabled(d, k) = GetProperty(d, "core", c)
    BY <2>2, <2>3 DEF Enabled, GetProperty
  <2> QED
    BY <1>3, <2>3, <2>4 DEF result
<1> QED
  BY <1>2, <1>3

(* Two data with the same lists. *)
SameLists(d, e) ==
  /\ e.project.core = d.project.core
  /\ HasBuildConfigurations(d) <=> HasBuildConfigurations(e)
  /\ \A k \in Configurations : Enabled(e, k) = Enabled(d, k)

(* Variables that are set, or deleted, change no list. *)
LEMMA VariablesSet ==
  ASSUME NEW d \in Files, NEW c, NEW value \in SUBSET Ids
  PROVE  SameLists(d, SetProperty(d, "vars", value, c))
<1> DEFINE result == SetProperty(d, "vars", value, c)
           old == d.config[c]
           new == [(IF old = Missing THEN EmptyData ELSE old) EXCEPT !["vars"] = value]
<1>2. CASE HasBuildConfigurations(d)
  <2>1. result = [d EXCEPT !.config[c] = new]
    BY <1>2 DEF SetProperty
  <2>2. c \in Configurations => /\ new \in Data /\ new # Missing
                                /\ old = Missing => new.core = Undefined
                                /\ old # Missing => new.core = old.core
    BY DataTypes DEF Files, Data, EmptyData
  <2> HIDE DEF new
  <2>3. /\ result.project = d.project
        /\ \A k \in Configurations : result.config[k] = IF k = c THEN new ELSE d.config[k]
    BY <2>1 DEF Files
  <2> HIDE DEF result
  <2>4. HasBuildConfigurations(result)
    BY <1>2, <2>2, <2>3 DEF HasBuildConfigurations
  <2>5. ASSUME NEW k \in Configurations
        PROVE  Enabled(result, k) = Enabled(d, k)
    BY <2>2, <2>3 DEF Enabled, GetProperty
  <2> QED
    BY <1>2, <2>3, <2>4, <2>5 DEF result, SameLists
<1>3. CASE ~HasBuildConfigurations(d)
  <2>1. result = [d EXCEPT !.project["vars"] = value]
    BY <1>3 DEF SetProperty
  <2>2. result.config = d.config /\ result.project.core = d.project.core
    BY <2>1 DEF Files, Data
  <2> HIDE DEF result
  <2> QED
    BY <2>2 DEF SameLists, HasBuildConfigurations, Enabled, GetProperty, result
<1> QED
  BY <1>2, <1>3

LEMMA ListsWithVariables ==
  ASSUME NEW d \in Files, NEW plugin, plugin.id \in Ids, NEW c
  PROVE  SameLists(d, WithVariables(d, plugin, c))
<1>1. OrEmpty(GetProperty(d, "vars", c)) \cup {plugin.id} \in SUBSET Ids
  BY GetPropertyType
<1>2. SameLists(d, d)
  BY DEF SameLists
<1> QED
  BY <1>1, <1>2, VariablesSet DEF WithVariables

LEMMA ListsWithoutVariables ==
  ASSUME NEW d \in Files, NEW id, NEW c
  PROVE  SameLists(d, WithoutVariables(d, id, c))
<1> DEFINE result == WithoutVariables(d, id, c)
<1>1. CASE c \in Configurations /\ d.config[c] # Missing /\ d.config[c].vars # Undefined
  <2> DEFINE new == [d.config[c] EXCEPT !.vars = @ \ {id}]
  <2>1. new \in Data /\ new.core = d.config[c].core /\ new # Missing
    BY <1>1, DataTypes DEF Files, Data
  <2>2. result = [d EXCEPT !.config[c] = new]
    BY <1>1 DEF WithoutVariables, Files
  <2> HIDE DEF new
  <2>3. /\ result.project = d.project
        /\ \A k \in Configurations : result.config[k] = IF k = c THEN new ELSE d.config[k]
    BY <2>2 DEF Files
  <2> HIDE DEF result
  <2>4. \A k \in Configurations : Enabled(result, k) = Enabled(d, k)
    BY <1>1, <2>1, <2>3 DEF Enabled, GetProperty
  <2> QED
    BY <1>1, <2>1, <2>3, <2>4 DEF SameLists, HasBuildConfigurations, result
<1>2. CASE ~ (c \in Configurations /\ d.config[c] # Missing /\ d.config[c].vars # Undefined)
  <2> DEFINE new == [d.project EXCEPT !.vars = IF @ = Undefined THEN Undefined ELSE @ \ {id}]
  <2>1. new.core = d.project.core
    BY DEF Files, Data
  <2>2. result = [d EXCEPT !.project = new]
    BY <1>2 DEF WithoutVariables, Files
  <2> HIDE DEF new
  <2>3. result.project = new /\ result.config = d.config
    BY <2>2 DEF Files
  <2> HIDE DEF result
  <2> QED
    BY <2>1, <2>3 DEF SameLists, HasBuildConfigurations, Enabled, GetProperty, result
<1> QED
  BY <1>1, <1>2

--------------------------------------------------------------------------
(* What a plugin command decides to do is what it was asked to. *)
LEMMA PluginCommandType ==
  ASSUME TypeInv, command.name = "plugin"
  PROVE  command.id \in Ids
BY DEF TypeInv, TypeOK, Arguments, NoCommand

(* With --debug or --release there are configuration files in memory. *)
LEMMA NarrowHasConfigurations ==
  ASSUME TypeInv, Narrow
  PROVE  HasBuildConfigurations(mem) /\ SelectedConfigurations = options
BY ConfigurationsAssumption DEF Narrow, SelectedConfigurations, HasBuildConfigurations, TypeInv, TypeOK, InMemoryInv, BothConfigurations

LEMMA InOrderAsked ==
  ASSUME NEW configs, NEW OnDebug, NEW OnRelease,
         Debug \in configs => AskedTasks(OnDebug), Release \in configs => AskedTasks(OnRelease)
  PROVE  AskedTasks(InOrder(configs, OnDebug, OnRelease))
BY EmptySeq, ConcatProperties DEF InOrder, AskedTasks

LEMMA ConfigureTasksAsked ==
  ASSUME TypeInv, command.id \in Ids, NEW version \in Versions, NEW configs, Narrow => configs \subseteq options
  PROVE  AskedTasks(ConfigureTasks(command.id, version, configs))
<1>1. ASSUME NEW c \in Configurations \cup {NoConfig}, NEW v \in Versions, Narrow => c \in options
      PROVE  AskedTasks(<<Configure(command.id, v, c)>>)
  <2>1. Configure(command.id, v, c) \in Tasks /\ AskedTask(Configure(command.id, v, c))
    BY <1>1 DEF Configure, Tasks, AskedTask
  <2> QED
    BY <2>1 DEF AskedTasks
<1>2. NoVersion \in Versions
  BY DEF Versions
<1>3. CASE HasBuildConfigurations(mem)
  <2>1. /\ Debug \in configs => AskedTasks(<<Configure(command.id, version, Debug)>>)
        /\ Release \in configs => AskedTasks(<<Configure(command.id, version, Release)>>)
    BY <1>1, ConfigurationsAssumption
  <2> QED
    BY <1>3, <2>1, InOrderAsked DEF ConfigureTasks
<1>4. CASE ~HasBuildConfigurations(mem)
  <2>1. ~Narrow
    BY <1>4, NarrowHasConfigurations
  <2> QED
    BY <1>1, <1>2, <1>4, <2>1 DEF ConfigureTasks
<1> QED
  BY <1>3, <1>4

LEMMA PluginOfRecordId ==
  ASSUME NEW id, NEW version, PluginOfRecord([id |-> id, version |-> version]) # Undefined
  PROVE  PluginOfRecord([id |-> id, version |-> version]).id = id
<1> DEFINE record == [id |-> id, version |-> version]
           plugins == {p \in Elements(KnownPlugins) : Record(p, NoVersion) = record}
<1>1. plugins # {} /\ PluginOfRecord(record) \in plugins
  BY DEF PluginOfRecord
<1>2. \A p \in plugins : p.id = id
  BY DEF Record
<1> QED
  BY <1>1, <1>2

LEMMA RemoveTasksAsked ==
  ASSUME command.id \in Ids, NEW plugin \in Elements(KnownPlugins),
         plugin.id = command.id \/ (ObsoletedBy[command.id] # NoId /\ plugin.id = ObsoletedBy[command.id]),
         NEW c \in Configurations \cup {NoConfig}, Narrow => c \in options
  PROVE  AskedTasks(RemoveTasks(plugin, c))
<1> DEFINE by == ObsoletedBy[plugin.id]
           old == Obsoleting(plugin.id)
<1>1. plugin.id \in Ids /\ Family(plugin.id) \subseteq Family(command.id)
  BY KnownPluginsAssumption, FamilyOfReplacing
<1>2. plugin.id \in Family(command.id)
  BY <1>1, ObsoletedByAssumption DEF Family
<1>3. (by # NoId => by \in Family(command.id)) /\ (old # NoId => old \in Family(command.id))
  BY <1>1 DEF Family
<1>4. ASSUME NEW q \in PluginOrUndefined, q # Undefined => q.id \in Family(command.id)
      PROVE  AskedTasks(<<Remove(q, c)>>)
  <2>1. Remove(q, c) \in Tasks /\ AskedTask(Remove(q, c))
    BY <1>4 DEF Remove, Tasks, AskedTask
  <2> QED
    BY <2>1 DEF AskedTasks
<1>5. AskedTasks(<<Remove(plugin, c)>>)
  BY <1>2, <1>4 DEF PluginOrUndefined
<1>6. by # NoId => AskedTasks(<<Remove(PluginOfRecord([id |-> by, version |-> plugin.version]), c)>>)
  BY <1>3, <1>4, PluginOfRecordType, PluginOfRecordId
<1>7. old # NoId => AskedTasks(<<Remove(PluginOfRecord([id |-> old, version |-> NoVersion]), c)>>)
  BY <1>3, <1>4, PluginOfRecordType, PluginOfRecordId
<1> QED
  BY <1>5, <1>6, <1>7, EmptySeq, ConcatProperties DEF RemoveTasks, AskedTasks

(* What is installed under a name is called so. *)
LEMMA InstalledIds ==
  ASSUME NEW configs, NEW id, NEW plugin \in FirstInstalled(configs, id)
  PROVE  plugin.id = id
BY DEF FirstInstalled, InstalledRecords

LEMMA AskedDecide ==
  ASSUME AskedInv, pc = "command", NEW tasks, Decide(tasks), command.name = "plugin" => AskedTasks(tasks)
  PROVE  AskedInv'
BY DEF AskedInv, NothingLeftInv, Decide, AskedTasks, AskedTask, Narrow, OthersKeptIn, OthersOf

LEMMA AskedCommand ==
  ASSUME TypeInv, AskedInv,
         \/ AddOfInstalledCorePlugin \/ AddNewPlugin
         \/ ModifyBoth \/ ModifyVersion \/ ModifyAsAsked
         \/ ConfigurePlugin \/ RemovePlugin
  PROVE  AskedInv'
<1>1. pc = "command" /\ command.name = "plugin" /\ command.id \in Ids
  <2>1. pc = "command"
    BY DEF AddOfInstalledCorePlugin, AddNewPlugin, ModifyBoth, ModifyVersion, ModifyAsAsked, Modifying, Adding,
           ConfigurePlugin, RemovePlugin
  <2> QED
    BY <2>1, PluginCommandType DEF TypeInv, CommandInv
<1>2. CASE AddOfInstalledCorePlugin
  <2>1. AskedTasks(<<>>)
    BY EmptySeq DEF AskedTasks
  <2> QED
    BY <1>1, <1>2, <2>1, AskedDecide DEF AddOfInstalledCorePlugin
<1>3. CASE AddNewPlugin
  <2> DEFINE plugin == BestMatching(command.id, command.version)
  <2>1. ~Narrow
    BY <1>3 DEF AddNewPlugin, Adding, Narrow
  <2>2. PICK version \in IF plugin.market THEN SelectableVersions(command.version, plugin) ELSE {command.version} :
          Decide(ConfigureTasks(command.id, version, AllowedConfigurations(plugin)))
    BY <1>3 DEF AddNewPlugin
  <2>3. version \in Versions
    BY <1>1, <2>2 DEF SelectableVersions, VersionsOf, Versions, TypeInv, TypeOK, Arguments, NoCommand
  <2> QED
    BY <1>1, <2>1, <2>2, <2>3, ConfigureTasksAsked, AskedDecide
<1>4. CASE ModifyBoth \/ ModifyVersion \/ ModifyAsAsked
  <2>1. ~Narrow
    BY <1>4 DEF ModifyBoth, ModifyVersion, ModifyAsAsked, Modifying, Adding, Narrow
  <2>2. PICK plugin \in Elements(KnownPlugins), version \in Versions :
          /\ plugin.id = command.id
          /\ \/ Decide(ConfigureTasks(plugin.id, version, BothConfigurations))
             \/ \E c \in options : Decide(<<Configure(plugin.id, version, c)>>)
             \/ \E c \in options, other \in BothConfigurations : Decide(<<Remove(plugin, other), Configure(plugin.id, version, c)>>)
    <3>1. \A plugin : SelectableVersions(command.version, plugin) \subseteq Versions
      BY DEF SelectableVersions, VersionsOf, Versions
    <3>2. \A plugin : Modifying(plugin) => plugin.id = command.id
      BY InstalledIds DEF Modifying
    <3>3. CASE ModifyBoth
      BY <3>1, <3>2, <3>3 DEF ModifyBoth
    <3>4. CASE ModifyVersion
      BY <3>1, <3>2, <3>4 DEF ModifyVersion
    <3>5. CASE ModifyAsAsked
      BY <3>1, <3>2, <3>5 DEF ModifyAsAsked
    <3> QED
      BY <1>4, <3>3, <3>4, <3>5
  <2>3. \A c \in BothConfigurations : c \in Configurations
    BY ConfigurationsAssumption DEF BothConfigurations
  <2>4. ASSUME NEW c \in BothConfigurations
        PROVE  Configure(plugin.id, version, c) \in Tasks /\ AskedTask(Configure(plugin.id, version, c))
    BY <1>1, <2>1, <2>2, <2>3 DEF Configure, Tasks, AskedTask
  <2>5. ASSUME NEW c \in BothConfigurations
        PROVE  Remove(plugin, c) \in Tasks /\ AskedTask(Remove(plugin, c))
    <3>1. plugin.id \in Family(command.id)
      BY <1>1, <2>2, ObsoletedByAssumption DEF Family
    <3> QED
      BY <2>1, <2>3, <3>1 DEF Remove, Tasks, AskedTask, PluginOrUndefined
  <2>6. options \subseteq BothConfigurations
    BY DEF TypeInv, TypeOK
  <2>7. CASE Decide(ConfigureTasks(plugin.id, version, BothConfigurations))
    BY <1>1, <2>1, <2>2, <2>7, ConfigureTasksAsked, AskedDecide
  <2>8. ASSUME NEW c \in options, Decide(<<Configure(plugin.id, version, c)>>)
        PROVE  AskedInv'
    <3>1. AskedTasks(<<Configure(plugin.id, version, c)>>)
      BY <2>4, <2>6 DEF AskedTasks
    <3> QED
      BY <1>1, <2>8, <3>1, AskedDecide
  <2>9. ASSUME NEW c \in options, NEW other \in BothConfigurations,
               Decide(<<Remove(plugin, other), Configure(plugin.id, version, c)>>)
        PROVE  AskedInv'
    <3>1. AskedTasks(<<Remove(plugin, other), Configure(plugin.id, version, c)>>)
      BY <2>4, <2>5, <2>6 DEF AskedTasks
    <3> QED
      BY <1>1, <2>9, <3>1, AskedDecide
  <2> QED
    BY <2>2, <2>7, <2>8, <2>9
<1>5. CASE ConfigurePlugin
  <2>1. Decide(ConfigureTasks(command.id, NoVersion, SelectedConfigurations)) /\ NoVersion \in Versions
    BY <1>5 DEF ConfigurePlugin, Versions
  <2> QED
    BY <1>1, <2>1, NarrowHasConfigurations, ConfigureTasksAsked, AskedDecide
<1>6. CASE RemovePlugin
  <2>1. PICK plugin \in InstalledByName(SelectedConfigurations, command.id) :
          Decide(IF ~HasBuildConfigurations(mem) THEN RemoveTasks(plugin, NoConfig)
                 ELSE InOrder(SelectedConfigurations, RemoveTasks(plugin, Debug), RemoveTasks(plugin, Release)))
    BY <1>6 DEF RemovePlugin
  <2>2. plugin \in Elements(KnownPlugins)
    BY <1>6, <2>1, InstalledKnown DEF RemovePlugin
  <2>3. plugin.id = command.id \/ (ObsoletedBy[command.id] # NoId /\ plugin.id = ObsoletedBy[command.id])
    BY <2>1, InstalledIds DEF InstalledByName, InstalledId
  <2>4. CASE ~HasBuildConfigurations(mem)
    <3>1. AskedTasks(RemoveTasks(plugin, NoConfig))
      BY <1>1, <2>2, <2>3, <2>4, NarrowHasConfigurations, RemoveTasksAsked
    <3> QED
      BY <1>1, <2>1, <2>4, <3>1, AskedDecide
  <2>5. CASE HasBuildConfigurations(mem)
    <3>1. /\ Debug \in SelectedConfigurations => AskedTasks(RemoveTasks(plugin, Debug))
          /\ Release \in SelectedConfigurations => AskedTasks(RemoveTasks(plugin, Release))
      BY <1>1, <2>2, <2>3, NarrowHasConfigurations, RemoveTasksAsked, ConfigurationsAssumption
    <3>2. AskedTasks(InOrder(SelectedConfigurations, RemoveTasks(plugin, Debug), RemoveTasks(plugin, Release)))
      BY <3>1, InOrderAsked
    <3> QED
      BY <1>1, <2>1, <2>5, <3>2, AskedDecide
  <2> QED
    BY <2>4, <2>5
<1> QED
  BY <1>2, <1>3, <1>4, <1>5, <1>6

--------------------------------------------------------------------------
(* The files a command finds are those of started, but for the empty ones   *)
(* that --debug and --release add.                                         *)
LEMMA AskedStart ==
  ASSUME TypeInv, AskedInv, NEW opts \in SUBSET BothConfigurations, ReadProject(opts), pc = "idle", UNCHANGED todo
  PROVE  AskedInv'
<1> DEFINE files == [disk EXCEPT !.config =
                      [c \in Configurations |->
                        IF c \in opts /\ disk.config[c] = Missing THEN EmptyData ELSE disk.config[c]]]
<1>1. disk \in Files
  BY DEF TypeInv, TypeOK
<1>2. disk' = files /\ mem' = files /\ started' = disk
  BY DEF ReadProject
<1>3. /\ files.project = disk.project
      /\ \A c \in Configurations :
           files.config[c] = IF c \in opts /\ disk.config[c] = Missing THEN EmptyData ELSE disk.config[c]
  BY <1>1 DEF Files
<1> HIDE DEF files
<1>4. ASSUME NEW c \in Configurations
      PROVE  Enabled(files, c) = Enabled(disk, c)
  BY <1>3 DEF Enabled, GetProperty, EmptyData
<1>5. OthersKeptIn(mem)' /\ OthersKeptIn(disk)'
  BY <1>2, <1>3, <1>4 DEF OthersKeptIn, OthersOf
<1>6. todo' = <<>>
  BY DEF AskedInv, NothingLeftInv
<1>7. AskedTasks(todo)'
  BY <1>6, EmptySeq DEF AskedTasks
<1> QED
  BY <1>5, <1>6, <1>7 DEF AskedInv, NothingLeftInv

(* A list is set that has the same others. *)
LEMMA OthersSet ==
  ASSUME NEW d \in Files, NEW c \in Configurations \cup {NoConfig}, NEW list \in SUBSET Records,
         SameLists(mem, d), OthersKeptIn(mem),
         OthersOf(list) = OthersOf(GetProperty(mem, "core", c)), Narrow => c \in options /\ HasBuildConfigurations(mem),
         mem' = SetProperty(d, "core", list, c), UNCHANGED <<options, started, command>>
  PROVE  /\ OthersKeptIn(mem)'
         /\ HasBuildConfigurations(mem)' <=> HasBuildConfigurations(mem)
<1>1. HasBuildConfigurations(mem)' <=> HasBuildConfigurations(mem)
  BY ListSet DEF SameLists, HasBuildConfigurations
<1>2. CASE HasBuildConfigurations(mem)
  <2>1. /\ mem'.project.core = mem.project.core
        /\ \A k \in Configurations : Enabled(mem', k) = IF k = c THEN list ELSE Enabled(mem, k)
    BY <1>2, ListSet DEF SameLists
  <2>2. c \in Configurations => GetProperty(mem, "core", c) = Enabled(mem, c)
    BY DEF Enabled
  <2> QED
    BY <1>1, <1>2, <2>1, <2>2 DEF OthersKeptIn, OthersOf, Narrow
<1>3. CASE ~HasBuildConfigurations(mem)
  <2>1. \A k \in Configurations : Enabled(mem', k) = list /\ Enabled(d, k) = GetProperty(d, "core", c)
    BY <1>3, ListSet DEF SameLists
  <2>2. \A k \in Configurations : Enabled(mem, k) = GetProperty(mem, "core", c)
    BY <1>3 DEF HasBuildConfigurations, Enabled, GetProperty
  <2> QED
    BY <1>1, <1>3, <2>1, <2>2 DEF OthersKeptIn, OthersOf, Narrow
<1> QED
  BY <1>1, <1>2, <1>3

(* The tasks left are of the same command. *)
LEMMA AskedTail ==
  ASSUME TypeInv, AskedInv, command.name = "plugin", pc = "task"
  PROVE  AskedTask(Head(todo)) /\ AskedTasks(Tail(todo)) /\ Head(todo) \in Tasks
BY HeadTailProperties DEF TypeInv, TypeOK, CommandInv, AskedInv, AskedTasks

LEMMA AskedConfigureTask ==
  ASSUME TypeInv, AskedInv, ConfigureTask
  PROVE  AskedInv'
<1> DEFINE task == Head(todo)
           plugin == BestMatching(task.id, task.version)
           list == GetProperty(mem, "core", task.config)
           core == (OrEmpty(list) \ ReplacedRecords(plugin)) \cup {Record(plugin, task.version)}
           withVars == WithVariables(mem, plugin, task.config)
<1>1. /\ pc = "task" /\ pc' = "save" /\ todo' = Tail(todo) /\ UNCHANGED <<disk, options, outcome, started, command>>
      /\ task.do = "configure" /\ mem' = SetProperty(withVars, "core", core, task.config)
      /\ plugin \in Instances(task.id, task.version)
  BY BestMatchingIsInstance DEF ConfigureTask
<1>2. CASE command.name # "plugin"
  BY <1>1, <1>2 DEF AskedInv, NothingLeftInv
<1>3. CASE command.name = "plugin"
  <2>1. AskedTask(task) /\ AskedTasks(Tail(todo)) /\ task \in Tasks /\ mem \in Files
    BY <1>1, <1>3, AskedTail DEF TypeInv, TypeOK
  <2>2. command.id \in Ids /\ task.id = command.id /\ task.config \in Configurations \cup {NoConfig}
    BY <1>1, <1>3, <2>1, PluginCommandType DEF AskedTask, Tasks
  <2>3. plugin.id \in Ids /\ Record(plugin, task.version) \in Records
    BY <1>1, RecordOfInstance
  <2>4. core \in SUBSET Records
    BY <2>1, <2>3, GetPropertyType
  <2>5. OthersOf(core) = OthersOf(list)
    <3>1. \A r \in ReplacedRecords(plugin) \cup {Record(plugin, task.version)} : r.id \in Family(command.id)
      BY <1>1, <2>2, ReplacedOrAdded
    <3>2. core # Undefined
      BY <2>4, DataTypes
    <3>3. OrEmpty(core) = core
      BY <3>2 DEF OrEmpty
    <3> QED
      BY <3>1, <3>3 DEF OthersOf
  <2>6. SameLists(mem, withVars) /\ withVars \in Files
    BY <2>1, <2>3, ListsWithVariables, WithVariablesType
  <2>7. OthersKeptIn(mem) /\ OthersKeptIn(disk)
    BY <1>3 DEF AskedInv
  <2>8. Narrow => task.config \in options /\ HasBuildConfigurations(mem)
    BY <2>1, NarrowHasConfigurations DEF AskedTask
  <2> HIDE DEF core, withVars
  <2>9. OthersKeptIn(mem)' /\ (HasBuildConfigurations(mem)' <=> HasBuildConfigurations(mem))
    BY <1>1, <2>2, <2>4, <2>5, <2>6, <2>7, <2>8, OthersSet
  <2>10. OthersKeptIn(disk)'
    BY <1>1, <2>7, <2>9 DEF OthersKeptIn, OthersOf, Narrow
  <2>11. AskedTasks(todo)'
    BY <1>1, <2>1 DEF AskedTasks, AskedTask, Narrow
  <2> QED
    BY <1>1, <2>9, <2>10, <2>11 DEF AskedInv, NothingLeftInv
<1> QED
  BY <1>2, <1>3

LEMMA AskedRemoveTask ==
  ASSUME TypeInv, AskedInv, RemoveTask
  PROVE  AskedInv'
<1> DEFINE task == Head(todo)
           core == GetProperty(mem, "core", task.config)
           record == Record(task.plugin, NoVersion)
           withoutVars == WithoutVariables(mem, task.plugin.id, task.config)
<1>1. /\ pc = "task" /\ todo' = Tail(todo) /\ UNCHANGED <<disk, options, started, command>>
      /\ task.do = "remove" /\ task.plugin # Undefined /\ core # Undefined
      /\ pc' \in {"save", "task"} \/ (pc' = "done" /\ Tail(todo) = <<>>)
      /\ mem' = withoutVars \/ mem' = SetProperty(withoutVars, "core", core \ {record}, task.config)
  BY DEF RemoveTask
<1>4. NothingLeftInv'
  BY <1>1 DEF NothingLeftInv
<1>2. CASE command.name # "plugin"
  BY <1>1, <1>2, <1>4 DEF AskedInv
<1>3. CASE command.name = "plugin"
  <2>1. AskedTask(task) /\ AskedTasks(Tail(todo)) /\ task \in Tasks /\ mem \in Files
    BY <1>1, <1>3, AskedTail DEF TypeInv, TypeOK
  <2>2. record.id \in Family(command.id) /\ task.config \in Configurations \cup {NoConfig}
    BY <1>1, <2>1 DEF AskedTask, Tasks, Record
  <2>4. core \in SUBSET Records
    BY <1>1, <2>1, GetPropertyType
  <2>5. OthersOf(core \ {record}) = OthersOf(core)
    <3>1. core \ {record} # Undefined
      BY <2>4, DataTypes
    <3>2. OrEmpty(core) = core /\ OrEmpty(core \ {record}) = core \ {record}
      BY <1>1, <3>1 DEF OrEmpty
    <3> QED
      BY <2>2, <3>2 DEF OthersOf
  <2>6. SameLists(mem, withoutVars) /\ withoutVars \in Files
    BY <2>1, ListsWithoutVariables, WithoutVariablesType
  <2>7. OthersKeptIn(mem) /\ OthersKeptIn(disk)
    BY <1>3 DEF AskedInv
  <2>8. Narrow => task.config \in options /\ HasBuildConfigurations(mem)
    BY <2>1, NarrowHasConfigurations DEF AskedTask
  <2> HIDE DEF core, withoutVars, record
  <2>9. OthersKeptIn(mem)' /\ (HasBuildConfigurations(mem)' <=> HasBuildConfigurations(mem))
    <3>1. CASE mem' = withoutVars
      BY <1>1, <2>6, <2>7, <3>1 DEF SameLists, OthersKeptIn, OthersOf, Narrow, HasBuildConfigurations
    <3>2. CASE mem' = SetProperty(withoutVars, "core", core \ {record}, task.config)
      <4>1. core \ {record} \in SUBSET Records
        BY <2>4
      <4> QED
        BY <1>1, <2>2, <2>5, <2>6, <2>7, <2>8, <3>2, <4>1, OthersSet DEF core
    <3> QED
      BY <1>1, <3>1, <3>2
  <2>10. OthersKeptIn(disk)'
    BY <1>1, <2>7, <2>9 DEF OthersKeptIn, OthersOf, Narrow
  <2>11. AskedTasks(todo)'
    BY <1>1, <2>1 DEF AskedTasks, AskedTask, Narrow
  <2> QED
    BY <1>1, <1>4, <2>9, <2>10, <2>11 DEF AskedInv
<1> QED
  BY <1>2, <1>3

(* What is written is in memory. *)
LEMMA AskedSave ==
  ASSUME TypeInv, AskedInv, SaveStep
  PROVE  AskedInv'
<1>1. /\ pc \in {"save", "saveConfigurations"} /\ UNCHANGED <<mem, options, todo, started, command>>
      /\ pc' = "done" => todo = <<>>
      /\ pc' \in {"save", "saveConfigurations", "task", "done"}
  BY DEF SaveStep, SaveProjectFile, SaveConfigurationFile, Saved
<1>2. disk \in Files /\ mem \in Files /\ \A c \in Configurations : disk.config[c] # Missing => mem.config[c] # Missing
  BY DEF TypeInv, TypeOK, InMemoryInv
<1>3. CASE command.name # "plugin"
  BY <1>1, <1>3 DEF AskedInv, NothingLeftInv
<1>4. CASE command.name = "plugin"
  <2>1. AskedTasks(todo) /\ OthersKeptIn(mem) /\ OthersKeptIn(disk)
    BY <1>4 DEF AskedInv
  <2>2. AskedTasks(todo)' /\ OthersKeptIn(mem)'
    BY <1>1, <2>1 DEF AskedTasks, AskedTask, Narrow, OthersKeptIn, OthersOf
  <2>3. /\ HasBuildConfigurations(mem) => disk'.project.core = mem.project.core
        /\ \A c \in Configurations : Enabled(disk', c) \in {Enabled(disk, c), Enabled(mem, c)}
    <3>1. CASE SaveProjectFile
      <4>1. disk'.config = disk.config /\ disk'.project = mem.project
        BY <1>2, <3>1 DEF SaveProjectFile, Files
      <4>2. CASE HasBuildConfigurations(mem)
        BY <2>1, <4>1, <4>2 DEF OthersKeptIn, Enabled, GetProperty
      <4>3. CASE ~HasBuildConfigurations(mem)
        BY <1>2, <4>1, <4>3 DEF HasBuildConfigurations, Enabled, GetProperty
      <4> QED
        BY <4>1, <4>2, <4>3
    <3>2. ASSUME NEW c \in toSave, SaveConfigurationFile(c)
          PROVE  /\ HasBuildConfigurations(mem) => disk'.project.core = mem.project.core
                 /\ \A k \in Configurations : Enabled(disk', k) \in {Enabled(disk, k), Enabled(mem, k)}
      <4>1. /\ disk'.project = disk.project
            /\ \A k \in Configurations : disk'.config[k] = disk.config[k] \/ (disk'.config[k] = mem.config[k] /\ mem.config[k] # Missing)
        BY <1>2, <3>2 DEF SaveConfigurationFile, Files
      <4>2. HasBuildConfigurations(mem) => disk.project.core = mem.project.core
        BY <2>1 DEF OthersKeptIn
      <4>3. ASSUME NEW k \in Configurations
            PROVE  Enabled(disk', k) \in {Enabled(disk, k), Enabled(mem, k)}
        BY <4>1, <4>2 DEF HasBuildConfigurations, Enabled, GetProperty
      <4> QED
        BY <4>1, <4>2, <4>3
    <3>3. CASE Saved
      BY <2>1, <3>3 DEF Saved, OthersKeptIn
    <3> QED
      BY <3>1, <3>2, <3>3 DEF SaveStep
  <2>4. OthersKeptIn(disk)'
    BY <1>1, <2>1, <2>3 DEF OthersKeptIn, OthersOf, Narrow
  <2> QED
    BY <1>1, <2>2, <2>4 DEF AskedInv, NothingLeftInv
<1> QED
  BY <1>3, <1>4

LEMMA AskedFail ==
  ASSUME TypeInv, AskedInv, NEW result, FailAs(result)
  PROVE  AskedInv'
<1>1. UNCHANGED <<disk, mem, options, started, command>> /\ todo' = <<>>
  BY DEF FailAs
<1>2. AskedTasks(todo)'
  BY <1>1, EmptySeq DEF AskedTasks
<1> QED
  BY <1>1, <1>2 DEF AskedInv, NothingLeftInv, OthersKeptIn, OthersOf, Narrow

LEMMA AskedNext ==
  ASSUME TypeInv, AskedInv, [Next]_vars
  PROVE  AskedInv'
<1>1. CASE PropStep
  <2>1. ASSUME NEW mode \in PropModes, NEW values \in PropValues, NEW opts \in SUBSET {Debug, Release},
               PropStart(mode, values, opts)
        PROVE  AskedInv'
    BY <2>1 DEF PropStart, AskedInv, NothingLeftInv
  <2>2. CASE PropUpdate
    BY <2>2 DEF PropUpdate, AskedInv, NothingLeftInv, TypeInv, CommandInv
  <2>3. CASE PropFails
    BY <2>3, AskedFail DEF PropFails, Fail
  <2> QED
    BY <1>1, <2>1, <2>2, <2>3 DEF PropStep
<1>2. CASE PluginStep
  <2>1. ASSUME NEW do \in PluginCommands, NEW id \in Ids, NEW opts \in SUBSET {Debug, Release},
               NEW version \in IF do = "add" THEN VersionsOf(id) \cup {NoVersion} ELSE {NoVersion},
               PluginStart(do, id, version, opts)
        PROVE  AskedInv'
    BY <2>1, AskedStart DEF PluginStart, BothConfigurations
  <2>2. CASE \/ AddOfInstalledCorePlugin \/ AddNewPlugin
             \/ ModifyBoth \/ ModifyVersion \/ ModifyAsAsked
             \/ ConfigurePlugin \/ RemovePlugin
    BY <2>2, AskedCommand
  <2>3. CASE ConfigureTask \/ RemoveTask
    BY <2>3, AskedConfigureTask, AskedRemoveTask
  <2>4. CASE PluginFails
    BY <2>4, AskedFail DEF PluginFails, Fail
  <2> QED
    BY <1>2, <2>1, <2>2, <2>3, <2>4 DEF PluginStep
<1>3. CASE SaveStep
  BY <1>3, AskedSave
<1>4. CASE Exit \/ Killed
  BY <1>4 DEF Exit, Killed, Kill, Quit, AskedInv, NothingLeftInv, NoCommand
<1>5. CASE UNCHANGED vars
  BY <1>5 DEF vars, AskedInv, NothingLeftInv, AskedTasks, AskedTask, OthersKeptIn, OthersOf, Narrow
<1>6. CASE NotSaved
  BY <1>6, AskedFail DEF NotSaved, SaveFails
<1> QED
  BY <1>1, <1>2, <1>3, <1>4, <1>5, <1>6 DEF Next

(* A plugin command changes what it was asked to only, wherever it fails or *)
(* is killed: every other plugin is enabled where it was, whether the list  *)
(* was the project's or the configuration's own, and with --debug or        *)
(* --release `configure` and `remove` leave the other configuration alone.  *)
THEOREM OnlyAskedChanges == Spec => []OnlyAsAsked
<1>1. TypeInv /\ AskedInv => OnlyAsAsked
  <2> SUFFICES ASSUME TypeInv, AskedInv, command.name = "plugin"
               PROVE  OnlyAsAsked
    BY DEF OnlyAsAsked, OthersUntouched, SelectedOnly
  <2>1. OthersKeptIn(disk)
    BY DEF AskedInv
  <2>2. OthersUntouched
    <3> SUFFICES ASSUME NEW c \in Configurations, NEW id \in Ids \ Family(command.id)
                 PROVE  VersionsEnabled(disk, c, id) = VersionsEnabled(started, c, id)
      BY DEF OthersUntouched
    <3>1. \A d : {q \in OrEmpty(Enabled(d, c)) : q.id = id} = {q \in OthersOf(Enabled(d, c)) : q.id = id}
      BY DEF OthersOf
    <3> QED
      BY <2>1, <3>1 DEF VersionsEnabled, OthersKeptIn
  <2>3. SelectedOnly
    BY <2>1 DEF SelectedOnly, OthersKeptIn, Narrow
  <2> QED
    BY <2>2, <2>3 DEF OnlyAsAsked
<1>2. Init => TypeInv /\ AskedInv
  BY TypeInit DEF Init, InitFiles, AskedInv, NothingLeftInv, NoCommand
<1>3. TypeInv /\ AskedInv /\ [Next]_vars => (TypeInv /\ AskedInv)'
  BY TypeNext, AskedNext
<1> QED
  BY <1>1, <1>2, <1>3, PTL DEF Spec

--------------------------------------------------------------------------
(* Where only `prop` is run, and each command to its end. *)
PropOnly == PluginCommands = {} /\ ~CanBeCutShort

(* The list is in one place. *)
OnePlace(d) ==
  OrEmpty(d.project.core) # {} => \A c \in Configurations : d.config[c] # Missing => d.config[c].core = Undefined

(* Until a prop command saves, the files are as it found them, and what it  *)
(* saves is in one place.                                                  *)
PropInv ==
  /\ pc \in {"idle", "prop", "save", "saveConfigurations", "done"} /\ todo = <<>>
  /\ pc = "idle" => command = NoCommand /\ started = disk
  /\ pc # "idle" => command \in [name : {"prop"}, mode : PropModes, values : PropValues]
  /\ outcome = "none" <=> pc # "done"
  /\ outcome # "notSaved"
  /\ pc \in {"idle", "prop"} \/ outcome = "failed" =>
       OnePlace(disk) /\ \A c \in Configurations : Enabled(disk, c) = Enabled(started, c)
  /\ pc = "prop" => mem = disk
  /\ pc \in {"save", "saveConfigurations"} \/ outcome = "ok" => OnePlace(mem)

LEMMA PropInit == Init => PropInv
<1> SUFFICES ASSUME Init PROVE PropInv
  OBVIOUS
<1>1. pc = "idle" /\ todo = <<>> /\ outcome = "none" /\ started = disk /\ command = NoCommand
  BY DEF Init, InitFiles
<1>2. OnePlace(disk)
  <2>1. InitialProject(InitialCores)
    BY DEF Init, InitFiles
  <2>2. PICK present \in InitialFiles, a \in InitialCores, b \in InitialCores, moved \in BOOLEAN :
          disk = [project |-> [core |-> IF moved THEN Undefined ELSE a, vars |-> Undefined],
                  config |-> [c \in Configurations |->
                    IF c \notin present THEN Missing
                    ELSE [core |-> CASE ~moved -> Undefined
                                     [] moved /\ c = Debug -> a
                                     [] OTHER -> b,
                          vars |-> Undefined]]]
    BY <2>1, Zenon DEF InitialProject
  <2>3. disk.project.core = IF moved THEN Undefined ELSE a
    BY <2>2
  <2>4. \A c \in Configurations : ~moved /\ disk.config[c] # Missing => disk.config[c].core = Undefined
    BY <2>2
  <2> QED
    BY <2>3, <2>4 DEF OnePlace, OrEmpty
<1> QED
  BY <1>1, <1>2 DEF PropInv

LEMMA PropStarts ==
  ASSUME TypeInv, PropInv, NEW mode \in PropModes, NEW values \in PropValues, NEW opts \in SUBSET {Debug, Release},
         PropStart(mode, values, opts)
  PROVE  PropInv'
<1> DEFINE files == [disk EXCEPT !.config =
                      [c \in Configurations |->
                        IF c \in opts /\ disk.config[c] = Missing THEN EmptyData ELSE disk.config[c]]]
<1>1. disk \in Files /\ OnePlace(disk)
  BY DEF TypeInv, TypeOK, PropStart, PropInv
<1>2. disk' = files /\ mem' = files /\ started' = disk
  BY DEF PropStart, ReadProject
<1>3. /\ files.project = disk.project
      /\ \A c \in Configurations :
           files.config[c] = IF c \in opts /\ disk.config[c] = Missing THEN EmptyData ELSE disk.config[c]
  BY <1>1 DEF Files
<1> HIDE DEF files
<1>4. ASSUME NEW c \in Configurations
      PROVE  Enabled(files, c) = Enabled(disk, c)
  <2>1. EmptyData.core = Undefined /\ EmptyData # Missing
    BY DataTypes DEF EmptyData
  <2> QED
    BY <1>3, <2>1 DEF Enabled, GetProperty
<1>5. OnePlace(files)
  BY <1>1, <1>3 DEF OnePlace, EmptyData
<1>6. pc = "idle" /\ pc' = "prop" /\ todo' = <<>> /\ outcome' = "none"
      /\ command' \in [name : {"prop"}, mode : PropModes, values : PropValues]
  BY DEF PropStart, PropInv
<1> QED
  BY <1>2, <1>4, <1>5, <1>6 DEF PropInv

(* tryMovingCorePluginsToProjectData leaves the list in one place. *)
LEMMA MovedBackInOnePlace ==
  ASSUME NEW d \in Files, d.project.core = Undefined, NEW result \in MovedBack(d)
  PROVE  OnePlace(result)
<1>1. CASE result = d
  BY <1>1 DEF OnePlace, OrEmpty
<1>2. CASE result # d
  <2>1. PICK first \in InMemory(d) : result = MoveToProject(d, first)
    BY <1>2 DEF MovedBack
  <2>2. result = [project |-> [d.project EXCEPT !.core = d.config[first].core],
                  config |-> [c \in Configurations |->
                    IF d.config[c] = Missing THEN Missing ELSE [d.config[c] EXCEPT !.core = Undefined]]]
    BY <1>2, <2>1 DEF MoveToProject
  <2>3. ASSUME NEW c \in Configurations, result.config[c] # Missing
        PROVE  result.config[c].core = Undefined
    <3>1. d.config[c] \in Data /\ result.config[c] = [d.config[c] EXCEPT !.core = Undefined]
      BY <2>2, <2>3 DEF Files
    <3> QED
      BY <3>1 DEF Data
  <2> QED
    BY <2>3 DEF OnePlace
<1> QED
  BY <1>1, <1>2


(* PropUpdate computes what is saved: the project's list is gone, or is     *)
(* the only one.                                                           *)
LEMMA PropUpdates ==
  ASSUME TypeInv, PropInv, PropUpdate
  PROVE  PropInv'
<1> DEFINE moved == MoveToConfigurations(mem)
           updated == UpdateConfigurations(moved)
<1>1. mem \in Files /\ TypeInv' /\ options \subseteq Configurations
  BY TypePropUpdate, ConfigurationsAssumption DEF TypeInv, TypeOK, BothConfigurations
<1>2. moved \in Files /\ moved.project.core = Undefined
  <2>1. moved.project = [mem.project EXCEPT !.core = Undefined] /\ mem.project \in Data
    BY <1>1 DEF MoveToConfigurations, Files
  <2>2. moved.project.core = Undefined
    BY <2>1 DEF Data
  <2> QED
    BY <1>1, <2>2, MoveToConfigurationsType
<1>3. \A k \in Configurations : k \in Targets(moved) => moved.config[k] # Missing
  BY <1>1, MoveToConfigurationsType DEF Targets, InMemory, TypeInv, InMemoryInv
<1>4. command.mode \in {"add", "del", "set"} /\ command.values \in SUBSET Records
  <2>1. command \in [name : {"prop"}, mode : PropModes, values : PropValues]
    BY DEF PropUpdate, PropInv
  <2> QED
    BY <2>1, PropModesAssumption, PropValuesAssumption
<1>5. updated \in Files /\ updated.project.core = Undefined
  <2>1. Updatable(moved)
    BY DEF PropUpdate
  <2>2. updated.project = moved.project
    BY <1>2 DEF UpdateConfigurations, Files
  <2> HIDE DEF moved
  <2> QED
    BY <1>2, <1>3, <1>4, <2>1, <2>2, UpdateConfigurationsType
<1>6. mem' \in MovedBack(updated)
  BY DEF PropUpdate
<1> HIDE DEF updated, moved
<1>7. OnePlace(mem')
  BY <1>5, <1>6, MovedBackInOnePlace
<1>8. pc = "prop" /\ pc' = "save" /\ UNCHANGED <<disk, todo, outcome, started, command>>
  BY DEF PropUpdate
<1> QED
  BY <1>7, <1>8 DEF PropInv

LEMMA PropSaves ==
  ASSUME PropInv, SaveStep
  PROVE  PropInv'
<1>1. CASE SaveProjectFile
  BY <1>1 DEF SaveProjectFile, PropInv
<1>2. ASSUME NEW c \in toSave, SaveConfigurationFile(c)
      PROVE  PropInv'
  BY <1>2 DEF SaveConfigurationFile, PropInv
<1>3. CASE Saved
  BY <1>3 DEF Saved, PropInv
<1> QED
  BY <1>1, <1>2, <1>3 DEF SaveStep

(* What a command that ended well has written is in one place, as what it   *)
(* had in memory is.                                                       *)
LEMMA SavedInOnePlace ==
  ASSUME TypeInv, SavedInv, PropInv, pc = "done"
  PROVE  OnePlace(disk)
<1>1. CASE outcome = "ok"
  <2>1. OnePlace(mem) /\ mem.project.core = disk.project.core
        /\ \A c \in Configurations : disk.config[c] # Missing =>
             mem.config[c] # Missing /\ mem.config[c].core = disk.config[c].core
    BY <1>1 DEF PropInv, SavedInv, ProjectSynced, Synced, TypeInv, InMemoryInv
  <2> QED
    BY <2>1 DEF OnePlace
<1>2. CASE outcome # "ok"
  <2>1. outcome = "failed"
    BY <1>2 DEF PropInv, TypeInv, TypeOK
  <2> QED
    BY <2>1 DEF PropInv
<1> QED
  BY <1>1, <1>2

LEMMA PropExits ==
  ASSUME TypeInv, SavedInv, PropInv, Exit
  PROVE  PropInv'
<1>1. OnePlace(disk)
  BY SavedInOnePlace DEF Exit
<1>2. /\ pc' = "idle" /\ todo' = <<>> /\ command' = NoCommand /\ outcome' = "none"
      /\ disk' = disk /\ started' = disk
  BY DEF Exit, Quit
<1> QED
  BY <1>1, <1>2 DEF PropInv

(* Where only `prop` is run, these are the steps. *)
LEMMA PropSteps ==
  ASSUME PropOnly, PropInv, Next
  PROVE  PropStep \/ SaveStep \/ Exit
<1>1. ~Killed /\ ~NotSaved
  BY DEF PropOnly, Killed, NotSaved
<1>2. ASSUME PluginStep
      PROVE  FALSE
  <2>1. pc # "command" /\ pc # "task" /\ PluginCommands = {}
    BY DEF PropInv, PropOnly
  <2>2. ~PluginFails
    BY <2>1 DEF PluginFails
  <2>3. ~ConfigureTask /\ ~RemoveTask
    BY <2>1 DEF ConfigureTask, RemoveTask
  <2>4. ~AddOfInstalledCorePlugin /\ ~AddNewPlugin
    BY <2>1 DEF AddOfInstalledCorePlugin, AddNewPlugin, Adding
  <2>5. ~ModifyBoth /\ ~ModifyVersion /\ ~ModifyAsAsked
    BY <2>1 DEF ModifyBoth, ModifyVersion, ModifyAsAsked, Modifying, Adding
  <2>6. ~ConfigurePlugin /\ ~RemovePlugin
    BY <2>1 DEF ConfigurePlugin, RemovePlugin
  <2> QED
    BY <1>2, <2>1, <2>2, <2>3, <2>4, <2>5, <2>6 DEF PluginStep
<1> QED
  BY <1>1, <1>2 DEF Next

LEMMA PropNext ==
  ASSUME PropOnly, TypeInv, SavedInv, PropInv, [Next]_vars
  PROVE  PropInv'
<1>1. CASE PropStep
  <2>1. CASE \E mode \in PropModes, values \in PropValues, opts \in SUBSET {Debug, Release} :
               PropStart(mode, values, opts)
    BY <2>1, PropStarts
  <2>2. CASE PropUpdate
    BY <2>2, PropUpdates
  <2>3. CASE PropFails
    BY <2>3 DEF PropFails, Fail, FailAs, PropInv
  <2> QED
    BY <1>1, <2>1, <2>2, <2>3 DEF PropStep
<1>2. CASE SaveStep
  BY <1>2, PropSaves
<1>3. CASE Exit
  BY <1>3, PropExits
<1>4. CASE UNCHANGED vars
  BY <1>4 DEF vars, PropInv, OnePlace, Enabled, GetProperty
<1> QED
  BY <1>1, <1>2, <1>3, <1>4, PropSteps

(* Where only `prop` is run, a project whose plugins are listed in one      *)
(* place keeps them so, whatever the lists and the configurations are:      *)
(* moveCorePluginsToConfigurationSpecificData empties .abproject's list      *)
(* before tryMovingCorePluginsToProjectData may fill it and empty the others.*)
THEOREM ListsInOnePlace == PropOnly => (Spec => []ListedInOnePlace)
<1> SUFFICES ASSUME PropOnly
             PROVE  Spec => []ListedInOnePlace
  OBVIOUS
<1>1. Init => TypeInv /\ SavedInv /\ PropInv
  BY TypeInit, SavedInit, PropInit
<1>2. TypeInv /\ SavedInv /\ PropInv /\ [Next]_vars => (TypeInv /\ SavedInv /\ PropInv)'
  BY TypeNext, SavedNext, PropNext
<1>3. PropInv => ListedInOnePlace
  BY DEF PropInv, OnePlace, ListedInOnePlace
<1> QED
  BY <1>1, <1>2, <1>3, PTL DEF Spec


--------------------------------------------------------------------------
(* That `prop` implements EnabledPlugins, for two configurations that have  *)
(* files.  Of more than two, shouldMoveCorePluginsToProjectData would take  *)
(* different lists of one length for the same.                              *)
BothHaveFiles ==
  /\ Configurations = BothConfigurations /\ InitialFiles \subseteq {BothConfigurations}
  /\ IsFiniteSet(Records)

(* What EnabledPlugins!Grant gives a configuration. *)
Granted(c) ==
  IF options = {} \/ c \in options THEN Updated(OrEmpty(Enabled(started, c)))
  ELSE OrEmpty(Enabled(started, c))

(* A prop command has in memory, and saves, what it is to grant. *)
GrantInv ==
  /\ \A c \in Configurations : disk.config[c] # Missing
  /\ pc \in {"save", "saveConfigurations"} \/ outcome = "ok" =>
       \A c \in Configurations : OrEmpty(Enabled(mem, c)) = Granted(c)

(* shouldMoveCorePluginsToProjectData, of two configurations: one length,   *)
(* and nothing in the first that the other lacks, is one list.              *)
LEMMA OneLength ==
  ASSUME IsFiniteSet(Records), NEW S \in SUBSET Records, NEW T \in SUBSET Records,
         Cardinality({Cardinality(S), Cardinality(T)}) = 1, S \ T = {}
  PROVE  S = T
<1>1. IsFiniteSet(T) /\ S \in SUBSET T
  BY FS_Subset
<1>2. IsFiniteSet({Cardinality(S), Cardinality(T)})
  <2>1. IsFiniteSet({Cardinality(S)})
    BY FS_Singleton
  <2>2. IsFiniteSet({Cardinality(S)} \cup {Cardinality(T)})
    BY <2>1, FS_AddElement
  <2> QED
    BY <2>2
<1>3. PICK n : {Cardinality(S), Cardinality(T)} = {n}
  BY <1>2, FS_Singleton
<1>4. Cardinality(S) = Cardinality(T)
  BY <1>3
<1> QED
  BY <1>1, <1>4, FS_Subset

LEMMA SameListsMoveBack ==
  ASSUME BothHaveFiles, NEW d \in Files, NEW first \in Configurations,
         \A c \in Configurations : d.config[c] # Missing /\ d.config[c].core # Undefined,
         ShouldMoveToProject(d, first)
  PROVE  \A c \in Configurations : d.config[c].core = d.config[first].core
<1>1. InMemory(d) = {Debug, Release} /\ first \in {Debug, Release} /\ Debug # Release
  BY ConfigurationsAssumption DEF InMemory, BothHaveFiles, BothConfigurations
<1>2. PICK other \in {Debug, Release} : {Debug, Release} = {first, other} /\ other # first
  BY <1>1
<1>3. InMemory(d) = {first, other} /\ InMemory(d) \ {first} = {other} /\ Configurations = {first, other}
  BY <1>1, <1>2 DEF BothHaveFiles, BothConfigurations
<1>4. d.config[first].core \in SUBSET Records /\ d.config[other].core \in SUBSET Records
  BY <1>3 DEF Files, Data
<1>5. {Cardinality(d.config[c].core) : c \in InMemory(d)}
        = {Cardinality(d.config[first].core), Cardinality(d.config[other].core)}
  BY <1>3
<1>6. UNION {d.config[c].core : c \in InMemory(d) \ {first}} = d.config[other].core
  BY <1>3
<1>7. d.config[first].core = d.config[other].core
  <2> DEFINE S == d.config[first].core
             T == d.config[other].core
  <2>2. Cardinality({Cardinality(d.config[c].core) : c \in InMemory(d)}) = 1
    BY DEF ShouldMoveToProject
  <2>3. d.config[first].core \ UNION {d.config[c].core : c \in InMemory(d) \ {first}} = {}
    BY DEF ShouldMoveToProject
  <2>4. Cardinality({Cardinality(S), Cardinality(T)}) = 1
    BY <1>5, <2>2
  <2>5. S \ T = {}
    BY <1>6, <2>3
  <2>6. S \in SUBSET Records /\ T \in SUBSET Records /\ IsFiniteSet(Records)
    BY <1>4 DEF BothHaveFiles
  <2> HIDE DEF S, T
  <2>7. S = T
    BY <2>4, <2>5, <2>6, OneLength
  <2> QED
    BY <2>7 DEF S, T
<1> QED
  BY <1>3, <1>7

(* tryMovingCorePluginsToProjectData changes what no configuration gets. *)
LEMMA MovedBackGetsTheSame ==
  ASSUME BothHaveFiles, NEW d \in Files, d.project.core = Undefined,
         \A c \in Configurations : d.config[c] # Missing /\ d.config[c].core # Undefined,
         NEW result \in MovedBack(d), NEW c \in Configurations
  PROVE  Enabled(result, c) = d.config[c].core
<1>1. CASE result = d
  BY <1>1 DEF Enabled, GetProperty
<1>2. CASE result # d
  <2>1. PICK first \in InMemory(d) : result = MoveToProject(d, first)
    BY <1>2 DEF MovedBack
  <2>2. ShouldMoveToProject(d, first) /\ first \in Configurations
    BY <1>2, <2>1 DEF MoveToProject, InMemory
  <2>3. d.config[c].core = d.config[first].core
    BY <2>2, SameListsMoveBack
  <2>4. result = [project |-> [d.project EXCEPT !.core = d.config[first].core],
                  config |-> [k \in Configurations |->
                    IF d.config[k] = Missing THEN Missing ELSE [d.config[k] EXCEPT !.core = Undefined]]]
    BY <2>1, <2>2 DEF MoveToProject
  <2>5. d.project \in Data /\ d.config[c] \in Data
    BY DEF Files
  <2>6. result.project.core = d.config[first].core
    BY <2>4, <2>5 DEF Data
  <2>7. result.config[c] = [d.config[c] EXCEPT !.core = Undefined]
    BY <2>4
  <2>8. result.config[c].core = Undefined
    BY <2>5, <2>7 DEF Data
  <2> QED
    BY <2>3, <2>6, <2>8 DEF Enabled, GetProperty
<1> QED
  BY <1>1, <1>2

(* moveCorePluginsToConfigurationSpecificData changes what no configuration *)
(* gets.                                                                   *)
LEMMA MovedGetsTheSame ==
  ASSUME NEW d \in Files, OnePlace(d), NEW c \in Configurations, d.config[c] # Missing
  PROVE  /\ MoveToConfigurations(d).config[c] \in Data
         /\ OrEmpty(MoveToConfigurations(d).config[c].core) = OrEmpty(Enabled(d, c))
<1>1. d.config[c] \in Data
  BY DEF Files
<1>2. CASE OrEmpty(d.project.core) = {}
  <2>1. MoveToConfigurations(d).config[c] = d.config[c]
    BY <1>2 DEF MoveToConfigurations, OrEmpty
  <2> QED
    BY <1>1, <1>2, <2>1 DEF Enabled, GetProperty, OrEmpty
<1>3. CASE OrEmpty(d.project.core) # {}
  <2>1. d.config[c].core = Undefined
    BY <1>3 DEF OnePlace
  <2>2. MoveToConfigurations(d).config[c] = [d.config[c] EXCEPT !.core = d.project.core]
    BY <1>3 DEF MoveToConfigurations, OrEmpty
  <2>3. MoveToConfigurations(d).config[c].core = d.project.core
    BY <1>1, <2>2 DEF Data
  <2>4. MoveToConfigurations(d).config[c] \in Data
    BY <1>1, <2>2 DEF Data, Files
  <2> QED
    BY <2>1, <2>3, <2>4 DEF Enabled, GetProperty
<1> QED
  BY <1>2, <1>3


LEMMA GrantInit == BothHaveFiles /\ Init => GrantInv
<1> SUFFICES ASSUME BothHaveFiles, Init PROVE GrantInv
  OBVIOUS
<1>1. InitialProject(InitialCores) /\ pc = "idle" /\ outcome = "none"
  BY DEF Init, InitFiles
<1>2. PICK present \in InitialFiles, a \in InitialCores, b \in InitialCores, moved \in BOOLEAN :
        disk = [project |-> [core |-> IF moved THEN Undefined ELSE a, vars |-> Undefined],
                config |-> [c \in Configurations |->
                  IF c \notin present THEN Missing
                  ELSE [core |-> CASE ~moved -> Undefined
                                   [] moved /\ c = Debug -> a
                                   [] OTHER -> b,
                        vars |-> Undefined]]]
  BY <1>1, Zenon DEF InitialProject
<1>3. present = Configurations
  BY DEF BothHaveFiles
<1>4. disk \in Files
  BY TypeInit DEF TypeInv, TypeOK
<1>5. ASSUME NEW c \in Configurations
      PROVE  disk.config[c] # Missing
  <2> DEFINE list == CASE ~moved -> Undefined [] moved /\ c = Debug -> a [] OTHER -> b
  <2>1. list \in {Undefined} \cup SUBSET Records
    <3>1. a \in SUBSET Records /\ b \in SUBSET Records
      BY InitialCoresAssumption
    <3> QED
      BY <3>1
  <2>2. disk.config[c] = [core |-> list, vars |-> Undefined]
    BY <1>2, <1>3
  <2> HIDE DEF list
  <2>3. disk.config[c] \in Data
    BY <2>1, <2>2 DEF Data
  <2> QED
    BY <2>3, DataTypes
<1> QED
  BY <1>1, <1>5 DEF GrantInv

(* Of what PropUpdate puts in memory, each configuration gets what is       *)
(* granted.                                                                *)
LEMMA UpdateGrants ==
  ASSUME BothHaveFiles, TypeInv, PropInv, GrantInv, PropUpdate, NEW c \in Configurations
  PROVE  OrEmpty(Enabled(mem', c)) = Granted(c)
<1> DEFINE moved == MoveToConfigurations(mem)
           updated == UpdateConfigurations(moved)
<1>1. /\ mem \in Files /\ options \subseteq Configurations
      /\ mem = disk /\ OnePlace(mem)
      /\ \A k \in Configurations : mem.config[k] # Missing /\ Enabled(mem, k) = Enabled(started, k)
  BY ConfigurationsAssumption DEF TypeInv, TypeOK, BothConfigurations, PropUpdate, PropInv, GrantInv
<1>2. command.mode \in {"add", "del", "set"} /\ command.values \in SUBSET Records
  <2>1. command \in [name : {"prop"}, mode : PropModes, values : PropValues]
    BY DEF PropUpdate, PropInv
  <2> QED
    BY <2>1, PropModesAssumption, PropValuesAssumption
<1>3. /\ moved \in Files
      /\ \A k \in Configurations : moved.config[k] \in Data /\ moved.config[k] # Missing
      /\ \A k \in Configurations : OrEmpty(moved.config[k].core) = OrEmpty(Enabled(started, k))
  BY <1>1, MoveToConfigurationsType, MovedGetsTheSame
<1>4. moved.project.core = Undefined
  <2>1. moved.project = [mem.project EXCEPT !.core = Undefined] /\ mem.project \in Data
    BY <1>1 DEF MoveToConfigurations, Files
  <2> QED
    BY <2>1 DEF Data
<1>5. Updatable(moved) /\ ~SomeListUndefined(updated) /\ mem' \in MovedBack(updated)
  BY DEF PropUpdate
<1> HIDE DEF moved
<1>6. Targets(moved) = IF options = {} THEN Configurations ELSE options
  BY <1>3 DEF Targets, InMemory
<1>7. /\ updated \in Files
      /\ \A k \in Configurations : updated.config[k] # Missing
  BY <1>1, <1>2, <1>3, <1>5, <1>6, UpdateConfigurationsType
<1>8. updated.project.core = Undefined
  BY <1>3, <1>4 DEF UpdateConfigurations, Files
<1>9. \A k \in Configurations :
        updated.config[k] = IF k \in Targets(moved) THEN [moved.config[k] EXCEPT !.core = Updated(@)]
                            ELSE moved.config[k]
  BY <1>3 DEF UpdateConfigurations, Files
<1> HIDE DEF updated
<1>10. \A k \in Configurations : updated.config[k].core # Undefined
  BY <1>5, <1>7 DEF SomeListUndefined, InMemory
<1>11. Enabled(mem', c) = updated.config[c].core
  BY <1>5, <1>7, <1>8, <1>10, MovedBackGetsTheSame
<1>12. updated.config[c].core = Granted(c)
  <2>1. CASE c \in Targets(moved)
    <3>1. updated.config[c] = [moved.config[c] EXCEPT !.core = Updated(@)]
      BY <1>9, <2>1
    <3>2. updated.config[c].core = Updated(moved.config[c].core)
      BY <1>3, <3>1 DEF Data
    <3>3. Granted(c) = Updated(OrEmpty(Enabled(started, c)))
      BY <1>6, <2>1 DEF Granted
    <3>4. CASE command.mode = "set"
      BY <3>2, <3>3, <3>4 DEF Updated
    <3>5. CASE command.mode # "set"
      <4>1. moved.config[c].core # Undefined
        BY <1>5, <2>1, <3>5 DEF Updatable
      <4>2. moved.config[c].core = OrEmpty(Enabled(started, c))
        BY <1>3, <4>1 DEF OrEmpty
      <4> QED
        BY <3>2, <3>3, <4>2
    <3> QED
      BY <3>4, <3>5
  <2>2. CASE c \notin Targets(moved)
    <3>1. updated.config[c].core = moved.config[c].core
      BY <1>9, <2>2
    <3>2. Granted(c) = OrEmpty(Enabled(started, c))
      BY <1>6, <2>2 DEF Granted
    <3> QED
      BY <1>3, <1>10, <3>1, <3>2 DEF OrEmpty
  <2> QED
    BY <2>1, <2>2
<1> QED
  BY <1>10, <1>11, <1>12 DEF OrEmpty

LEMMA GrantSaves ==
  ASSUME TypeInv, PropInv, GrantInv, SaveStep
  PROVE  GrantInv'
<1>1. disk \in Files
  BY DEF TypeInv, TypeOK
<1>2. /\ pc \in {"save", "saveConfigurations"}
      /\ UNCHANGED <<mem, options, started, command>>
      /\ \A c \in Configurations : disk'.config[c] # Missing
  <2>1. CASE SaveProjectFile
    BY <1>1, <2>1 DEF SaveProjectFile, Files, GrantInv
  <2>2. ASSUME NEW c \in toSave, SaveConfigurationFile(c)
        PROVE  /\ pc \in {"save", "saveConfigurations"}
               /\ UNCHANGED <<mem, options, started, command>>
               /\ \A k \in Configurations : disk'.config[k] # Missing
    BY <1>1, <2>2 DEF SaveConfigurationFile, Files, GrantInv
  <2>3. CASE Saved
    BY <2>3 DEF Saved, GrantInv
  <2> QED
    BY <2>1, <2>2, <2>3 DEF SaveStep
<1>3. \A c \in Configurations : Granted(c)' = Granted(c)
  BY <1>2 DEF Granted, Updated
<1> QED
  BY <1>2, <1>3 DEF GrantInv

LEMMA GrantNext ==
  ASSUME PropOnly, BothHaveFiles, TypeInv, PropInv, GrantInv, [Next]_vars
  PROVE  GrantInv'
<1>1. disk \in Files
  BY DEF TypeInv, TypeOK
<1>2. CASE PropStep
  <2>1. ASSUME NEW mode \in PropModes, NEW values \in PropValues, NEW opts \in SUBSET {Debug, Release},
               PropStart(mode, values, opts)
        PROVE  GrantInv'
    <3>1. /\ pc' = "prop" /\ outcome' = outcome /\ pc = "idle"
          /\ disk' = [disk EXCEPT !.config =
                       [c \in Configurations |->
                         IF c \in opts /\ disk.config[c] = Missing THEN EmptyData ELSE disk.config[c]]]
      BY <2>1 DEF PropStart, ReadProject
    <3>2. \A c \in Configurations : disk'.config[c] # Missing
      BY <1>1, <3>1 DEF Files, GrantInv
    <3>3. outcome = "none"
      BY <3>1 DEF PropInv
    <3> QED
      BY <3>1, <3>2, <3>3 DEF GrantInv
  <2>2. CASE PropUpdate
    <3>1. disk' = disk /\ UNCHANGED <<options, started, command>>
      BY <2>2 DEF PropUpdate
    <3>2. \A c \in Configurations : OrEmpty(Enabled(mem', c)) = Granted(c)
      BY <2>2, UpdateGrants
    <3>3. \A c \in Configurations : Granted(c)' = Granted(c) /\ Enabled(mem', c) = Enabled(mem, c)'
      BY <3>1 DEF Granted, Updated, Enabled, GetProperty
    <3> QED
      BY <3>1, <3>2, <3>3 DEF GrantInv
  <2>3. CASE PropFails
    BY <2>3 DEF PropFails, Fail, FailAs, GrantInv
  <2> QED
    BY <1>2, <2>1, <2>2, <2>3 DEF PropStep
<1>3. CASE SaveStep
  BY <1>3, GrantSaves
<1>4. CASE Exit
  BY <1>4 DEF Exit, Quit, GrantInv
<1>5. CASE UNCHANGED vars
  BY <1>5 DEF vars, GrantInv, Granted, Updated, Enabled, GetProperty
<1> QED
  BY <1>2, <1>3, <1>4, <1>5, PropSteps


(* The variables of EnabledPlugins, in terms of those of the program. *)
EnabledLists == [c \in Configurations |-> OrEmpty(Enabled(started, c))]

Request ==
  IF command = NoCommand THEN [mode |-> "none", values |-> {}, configs |-> {}]
  ELSE [mode |-> command.mode, values |-> command.values, configs |-> options]

(* A command that ended well is granted, one that failed is refused. *)
LEMMA ExitAnswers ==
  ASSUME BothHaveFiles, TypeInv, SavedInv, PropInv, GrantInv, Exit
  PROVE  Promise!Grant \/ Promise!Refuse
<1>1. command \in [name : {"prop"}, mode : PropModes, values : PropValues]
  BY DEF PropInv, Exit
<1>2. command # NoCommand /\ command.mode # "none"
  BY <1>1, PropModesAssumption DEF NoCommand
<1>3. Request = [mode |-> command.mode, values |-> command.values, configs |-> options]
  BY <1>2 DEF Request
<1>4. Request' = [mode |-> "none", values |-> {}, configs |-> {}] /\ started' = disk
  BY DEF Request, Exit, Quit
<1>5. Request # [mode |-> "none", values |-> {}, configs |-> {}]
  BY <1>2, <1>3
<1>6. EnabledLists' = [c \in Configurations |-> OrEmpty(Enabled(disk, c))]
  BY <1>4 DEF EnabledLists, Enabled, GetProperty
<1>7. CASE outcome = "ok"
  <2>1. ASSUME NEW c \in Configurations
        PROVE  OrEmpty(Enabled(disk, c)) = Granted(c)
    <3>1. Enabled(disk, c) = Enabled(mem, c)
      BY <1>7 DEF SavedInv, Synced, ProjectSynced, Enabled, GetProperty, TypeInv, InMemoryInv, GrantInv
    <3> QED
      BY <1>7, <3>1 DEF GrantInv
  <2>2. \A c \in Configurations :
          Granted(c) = IF Request.configs = {} \/ c \in Request.configs THEN Promise!Changed(EnabledLists[c])
                       ELSE EnabledLists[c]
    <3>1. Request.mode = command.mode /\ Request.values = command.values /\ Request.configs = options
      BY <1>3
    <3>2. \A list : Promise!Changed(list) =
            CASE Request.mode = "add" -> list \cup Request.values
              [] Request.mode = "del" -> list \ Request.values
              [] Request.mode = "set" -> Request.values
      BY DEF Promise!Changed, Request
    <3>3. command.mode \in {"add", "del", "set"}
      BY <1>1, PropModesAssumption
    <3> HIDE DEF Request
    <3>4. \A list : Promise!Changed(list) = Updated(list)
      BY <3>1, <3>2, <3>3 DEF Updated
    <3> QED
      BY <3>1, <3>4 DEF Granted, EnabledLists
  <2>3. EnabledLists' = [c \in Configurations |->
          IF Request.configs = {} \/ c \in Request.configs THEN Promise!Changed(EnabledLists[c])
          ELSE EnabledLists[c]]
    BY <1>6, <2>1, <2>2
  <2> QED
    BY <1>4, <1>5, <2>3 DEF Promise!Grant, Promise!NoRequest, EnabledLists, Request
<1>8. CASE outcome # "ok"
  <2>1. outcome = "failed"
    BY <1>8 DEF PropInv, Exit, TypeInv, TypeOK
  <2>2. \A c \in Configurations : Enabled(disk, c) = Enabled(started, c)
    BY <2>1 DEF PropInv
  <2>3. EnabledLists' = EnabledLists
    BY <1>6, <2>2 DEF EnabledLists
  <2> QED
    BY <1>4, <1>5, <2>3 DEF Promise!Refuse, Promise!NoRequest, EnabledLists, Request
<1> QED
  BY <1>7, <1>8

(* readProjectData and the arguments are what is asked. *)
LEMMA StartAsks ==
  ASSUME PropInv, NEW mode \in PropModes, NEW values \in PropValues, NEW opts \in SUBSET {Debug, Release},
         PropStart(mode, values, opts)
  PROVE  Promise!Ask(mode, values, opts)
<1>1. command = NoCommand /\ started = disk
  BY DEF PropStart, PropInv
<1>2. command' = [name |-> "prop", mode |-> mode, values |-> values] /\ options' = opts /\ started' = disk
  BY DEF PropStart, ReadProject
<1>3. command' # NoCommand /\ command'.mode = mode /\ command'.values = values
  BY <1>2 DEF NoCommand
<1>4. Request = [mode |-> "none", values |-> {}, configs |-> {}]
  BY <1>1 DEF Request
<1>5. Request' = [mode |-> mode, values |-> values, configs |-> opts]
  BY <1>2, <1>3 DEF Request, NoCommand
<1>6. EnabledLists' = EnabledLists
  BY <1>1, <1>2 DEF EnabledLists, Enabled, GetProperty
<1> QED
  BY <1>4, <1>5, <1>6 DEF Promise!Ask, Promise!NoRequest, EnabledLists, Request

(* Every other step changes nothing that EnabledPlugins speaks of. *)
LEMMA OthersStutter ==
  ASSUME \/ PropUpdate \/ PropFails \/ SaveStep \/ UNCHANGED vars
  PROVE  UNCHANGED <<EnabledLists, Request>>
<1>1. UNCHANGED <<started, command, options>>
  BY DEF PropUpdate, PropFails, Fail, FailAs, SaveStep, SaveProjectFile, SaveConfigurationFile, Saved, vars
<1> QED
  BY <1>1 DEF EnabledLists, Request, Enabled, GetProperty, NoCommand

(* Where only `prop` is run, on a project whose two configurations have     *)
(* files, the commands do what EnabledPlugins says, whatever the plugins    *)
(* are: the lists of the configurations named, or of both, change as asked  *)
(* when the command ends well, and none when it fails - though the list is  *)
(* moved to the configurations and back, and three files are written.       *)
THEOREM PropImplementsPromise ==
  PropOnly /\ BothHaveFiles => (Spec => ImplementsEnabledPlugins)
<1> SUFFICES ASSUME PropOnly, BothHaveFiles
             PROVE  Spec => ImplementsEnabledPlugins
  OBVIOUS
<1> DEFINE Inv == TypeInv /\ SavedInv /\ PropInv /\ GrantInv
<1>1. Init => Inv
  BY TypeInit, SavedInit, PropInit, GrantInit
<1>2. Inv /\ [Next]_vars => Inv'
  BY TypeNext, SavedNext, PropNext, GrantNext
<1>3. Init => Promise!Init
  <2> SUFFICES ASSUME Init PROVE Promise!Init
    OBVIOUS
  <2>1. disk \in Files /\ started = disk /\ command = NoCommand
    BY TypeInit DEF TypeInv, TypeOK, Init, InitFiles
  <2>2. EnabledLists \in [Configurations -> SUBSET Records]
    BY <2>1, GetPropertyType DEF EnabledLists, Enabled
  <2>3. Request = [mode |-> "none", values |-> {}, configs |-> {}]
    BY <2>1 DEF Request
  <2> QED
    BY <2>2, <2>3 DEF Promise!Init, Promise!NoRequest, EnabledLists, Request
<1>4. Inv /\ [Next]_vars => [Promise!Next]_<<EnabledLists, Request>>
  <2> SUFFICES ASSUME Inv, [Next]_vars PROVE [Promise!Next]_<<EnabledLists, Request>>
    OBVIOUS
  <2>1. ASSUME NEW mode \in PropModes, NEW values \in PropValues, NEW opts \in SUBSET {Debug, Release},
               PropStart(mode, values, opts)
        PROVE  Promise!Next
    BY <2>1, StartAsks DEF Promise!Next, BothConfigurations
  <2>2. CASE Exit
    BY <2>2, ExitAnswers DEF Promise!Next
  <2>3. CASE PropUpdate \/ PropFails \/ SaveStep \/ UNCHANGED vars
    BY <2>3, OthersStutter
  <2> QED
    BY <2>1, <2>2, <2>3, PropSteps DEF PropStep
<1> HIDE DEF Inv
<1>5. Spec => [][Promise!Next]_<<EnabledLists, Request>>
  BY <1>1, <1>2, <1>4, PTL DEF Spec
<1>6. Spec => Promise!Init
  BY <1>3, PTL DEF Spec
<1> QED
  BY <1>5, <1>6, PTL DEF ImplementsEnabledPlugins, Promise!Spec, EnabledLists, Request


--------------------------------------------------------------------------
(* That no list has two versions of a plugin, nor a plugin beside the one   *)
(* that replaces it, where the project's are plugins that the framework has *)
(* and those given to `prop` have one version and replace nothing: neither  *)
(* updateCorePlugins nor the schema looks for such pairs.                  *)
Beside(r, q) == r.id \in Ids /\ ObsoletedBy[r.id] # NoId /\ ObsoletedBy[r.id] = q.id

Coherent(list) ==
  \A r \in OrEmpty(list), q \in OrEmpty(list) : (r.id = q.id => r.version = q.version) /\ ~Beside(r, q)

PluginsOfFramework ==
  /\ \A r \in Records : \E p \in Elements(KnownPlugins) : p.supported /\ Record(p, NoVersion) = r
  /\ \A list \in InitialCores : Coherent(list)
  /\ \A values \in PropValues : \A r \in values, q \in Records :
       (q.id = r.id => q = r) /\ ~Beside(r, q) /\ ~Beside(q, r)

AllCoherent(d) ==
  Coherent(d.project.core) /\ \A c \in Configurations : d.config[c] # Missing => Coherent(d.config[c].core)

CoherentInv == AllCoherent(mem) /\ AllCoherent(disk)

LEMMA NoListCoherent == Coherent(Undefined)
BY DEF Coherent, OrEmpty

LEMMA CoherentOfSet ==
  ASSUME NEW list \in SUBSET Records
  PROVE  Coherent(list) <=> \A r \in list, q \in list : (r.id = q.id => r.version = q.version) /\ ~Beside(r, q)
<1>1. list # Undefined
  BY DataTypes
<1> QED
  BY <1>1 DEF Coherent, OrEmpty

LEMMA CoherentSubset ==
  ASSUME NEW list \in SUBSET Records, Coherent(list), NEW part \in SUBSET list
  PROVE  Coherent(part)
BY CoherentOfSet

LEMMA CoherentProperty ==
  ASSUME NEW d \in Files, AllCoherent(d), NEW c
  PROVE  Coherent(GetProperty(d, "core", c))
BY DEF AllCoherent, GetProperty

LEMMA CoherentSet ==
  ASSUME NEW d \in Files, AllCoherent(d), NEW c, NEW list \in SUBSET Records, Coherent(list)
  PROVE  AllCoherent(SetProperty(d, "core", list, c))
<1> DEFINE result == SetProperty(d, "core", list, c)
           old == d.config[c]
           new == [(IF old = Missing THEN EmptyData ELSE old) EXCEPT !["core"] = list]
<1>1. CASE HasBuildConfigurations(d)
  <2>1. result = [d EXCEPT !.config[c] = new]
    BY <1>1 DEF SetProperty
  <2>2. c \in Configurations => new.core = list
    BY DataTypes DEF Files, Data
  <2> HIDE DEF new
  <2>3. /\ result.project = d.project
        /\ \A k \in Configurations : result.config[k] = IF k = c THEN new ELSE d.config[k]
    BY <2>1 DEF Files
  <2> HIDE DEF result
  <2> QED
    BY <2>2, <2>3 DEF AllCoherent, result
<1>2. CASE ~HasBuildConfigurations(d)
  <2>1. result = [d EXCEPT !.project["core"] = list]
    BY <1>2 DEF SetProperty
  <2>2. result.config = d.config /\ result.project.core = list
    BY <2>1 DEF Files, Data
  <2> HIDE DEF result
  <2> QED
    BY <2>2 DEF AllCoherent, result
<1> QED
  BY <1>1, <1>2

LEMMA CoherentVariables ==
  ASSUME NEW d \in Files, AllCoherent(d), NEW c, NEW value \in SUBSET Ids
  PROVE  AllCoherent(SetProperty(d, "vars", value, c))
<1> DEFINE result == SetProperty(d, "vars", value, c)
           old == d.config[c]
           new == [(IF old = Missing THEN EmptyData ELSE old) EXCEPT !["vars"] = value]
<1>1. CASE HasBuildConfigurations(d)
  <2>1. result = [d EXCEPT !.config[c] = new]
    BY <1>1 DEF SetProperty
  <2>2. c \in Configurations => new.core = IF old = Missing THEN Undefined ELSE old.core
    BY DataTypes DEF Files, Data, EmptyData
  <2> HIDE DEF new
  <2>3. /\ result.project = d.project
        /\ \A k \in Configurations : result.config[k] = IF k = c THEN new ELSE d.config[k]
    BY <2>1 DEF Files
  <2> HIDE DEF result
  <2> QED
    BY <2>2, <2>3, NoListCoherent DEF AllCoherent, result
<1>2. CASE ~HasBuildConfigurations(d)
  <2>1. result = [d EXCEPT !.project["vars"] = value]
    BY <1>2 DEF SetProperty
  <2>2. result.config = d.config /\ result.project.core = d.project.core
    BY <2>1 DEF Files, Data
  <2> HIDE DEF result
  <2> QED
    BY <2>2 DEF AllCoherent, result
<1> QED
  BY <1>1, <1>2

LEMMA CoherentWithVariables ==
  ASSUME NEW d \in Files, AllCoherent(d), NEW plugin, plugin.id \in Ids, NEW c
  PROVE  AllCoherent(WithVariables(d, plugin, c))
<1>1. OrEmpty(GetProperty(d, "vars", c)) \cup {plugin.id} \in SUBSET Ids
  BY GetPropertyType
<1> QED
  BY <1>1, CoherentVariables DEF WithVariables

LEMMA CoherentWithoutVariables ==
  ASSUME NEW d \in Files, AllCoherent(d), NEW id, NEW c
  PROVE  AllCoherent(WithoutVariables(d, id, c))
<1> DEFINE result == WithoutVariables(d, id, c)
<1>1. \A k \in Configurations : result.config[k] # Missing => d.config[k] # Missing
  <2>1. CASE c \in Configurations /\ d.config[c] # Missing /\ d.config[c].vars # Undefined
    BY <2>1 DEF WithoutVariables, Files
  <2>2. CASE ~ (c \in Configurations /\ d.config[c] # Missing /\ d.config[c].vars # Undefined)
    <3>1. result.config = d.config
      BY <2>2 DEF WithoutVariables, Files
    <3> HIDE DEF result
    <3> QED
      BY <3>1
  <2> QED
    BY <2>1, <2>2
<1>2. /\ result.project.core = d.project.core
      /\ \A k \in Configurations : d.config[k] # Missing => result.config[k].core = d.config[k].core
  BY WithoutVariablesType
<1> HIDE DEF result
<1>3. AllCoherent(result)
  BY <1>1, <1>2 DEF AllCoherent
<1> QED
  BY <1>3 DEF result

(* Of the plugins the framework has, every record of a family is replaced. *)
LEMMA FamilyReplaced ==
  ASSUME PluginsOfFramework, NEW plugin, plugin.id \in Ids,
         NEW r \in Records, r.id \in Family(plugin.id)
  PROVE  r \in ReplacedRecords(plugin)
<1> DEFINE by == ObsoletedBy[plugin.id]
           old == Obsoleting(plugin.id)
<1>1. PICK p \in Elements(KnownPlugins) : p.supported /\ Record(p, NoVersion) = r
  BY DEF PluginsOfFramework
<1>2. p.id = r.id
  BY <1>1 DEF Record
<1>3. p \in Instances(r.id, NoVersion)
  BY <1>1, <1>2 DEF Instances, Available
<1>4. r.id = plugin.id \/ (by # NoId /\ r.id = by) \/ (old # NoId /\ r.id = old)
  BY DEF Family
<1> QED
  BY <1>1, <1>3, <1>4 DEF ReplacedRecords

(* configurePluginCore replaces whatever the plugin cannot be beside. *)
LEMMA ConfiguredCoherent ==
  ASSUME PluginsOfFramework, NEW id \in Ids, NEW version, NEW plugin \in Instances(id, version),
         NEW list \in SUBSET Records, Coherent(list)
  PROVE  Coherent((list \ ReplacedRecords(plugin)) \cup {Record(plugin, version)})
<1> DEFINE new == Record(plugin, version)
           kept == list \ ReplacedRecords(plugin)
<1>1. new \in Records /\ plugin.id \in Ids /\ new.id = plugin.id
  BY RecordOfInstance DEF Record
<1>2. \A q \in kept : q.id \notin Family(plugin.id) /\ q \in Records
  BY <1>1, FamilyReplaced
<1>3. plugin.id # NoId
  BY <1>1, ObsoletedByAssumption
<1>4. ~Beside(new, new)
  BY <1>1, <1>3, ReplacingAssumption DEF Beside
<1>5. ASSUME NEW q \in kept
      PROVE  q.id # new.id /\ ~Beside(new, q) /\ ~Beside(q, new)
  <2>1. q.id \notin Family(plugin.id)
    BY <1>2
  <2>2. q.id # plugin.id
    BY <1>3, <2>1 DEF Family
  <2>3. ~Beside(new, q)
    BY <1>1, <2>1 DEF Family, Beside
  <2>4. ASSUME Beside(q, new)
        PROVE  FALSE
    <3>1. q.id \in Ids /\ ObsoletedBy[q.id] = plugin.id /\ q.id # NoId
      BY <1>1, <2>4, ObsoletedByAssumption DEF Beside
    <3>2. Obsoleting(plugin.id) \in Ids /\ ObsoletedBy[Obsoleting(plugin.id)] = plugin.id
      BY <3>1 DEF Obsoleting
    <3>3. Obsoleting(plugin.id) = q.id
      BY <1>3, <3>1, <3>2, ReplacingAssumption
    <3> QED
      BY <2>1, <3>1, <3>3 DEF Family
  <2> QED
    BY <1>1, <2>2, <2>3, <2>4
<1>6. kept \cup {new} \in SUBSET Records
  BY <1>1, <1>2
<1>7. \A r \in kept, q \in kept : (r.id = q.id => r.version = q.version) /\ ~Beside(r, q)
  BY CoherentOfSet
<1> HIDE DEF kept, new
<1>8. \A r \in kept \cup {new}, q \in kept \cup {new} : (r.id = q.id => r.version = q.version) /\ ~Beside(r, q)
  BY <1>4, <1>5, <1>7
<1>9. Coherent(kept \cup {new})
  BY <1>6, <1>8, CoherentOfSet
<1> QED
  BY <1>9 DEF kept, new


LEMMA CoherentInit == PluginsOfFramework /\ Init => CoherentInv
<1> SUFFICES ASSUME PluginsOfFramework, Init PROVE CoherentInv
  OBVIOUS
<1>1. InitialProject(InitialCores) /\ mem = disk
  BY DEF Init, InitFiles
<1>2. PICK present \in InitialFiles, a \in InitialCores, b \in InitialCores, moved \in BOOLEAN :
        disk = [project |-> [core |-> IF moved THEN Undefined ELSE a, vars |-> Undefined],
                config |-> [c \in Configurations |->
                  IF c \notin present THEN Missing
                  ELSE [core |-> CASE ~moved -> Undefined
                                   [] moved /\ c = Debug -> a
                                   [] OTHER -> b,
                        vars |-> Undefined]]]
  BY <1>1, Zenon DEF InitialProject
<1>3. Coherent(a) /\ Coherent(b) /\ Coherent(Undefined)
  BY NoListCoherent DEF PluginsOfFramework
<1>4. Coherent(disk.project.core)
  BY <1>2, <1>3
<1>5. ASSUME NEW c \in Configurations, disk.config[c] # Missing
      PROVE  Coherent(disk.config[c].core)
  <2>1. disk.config[c] = [core |-> CASE ~moved -> Undefined
                                     [] moved /\ c = Debug -> a
                                     [] OTHER -> b,
                          vars |-> Undefined]
    BY <1>2, <1>5
  <2>2. disk.config[c].core \in {Undefined, a, b}
    BY <2>1
  <2> QED
    BY <1>3, <2>2
<1> QED
  BY <1>1, <1>4, <1>5 DEF CoherentInv, AllCoherent

(* readProjectData. *)
LEMMA CoherentStart ==
  ASSUME TypeInv, CoherentInv, NEW opts, ReadProject(opts)
  PROVE  CoherentInv'
<1> DEFINE files == [disk EXCEPT !.config =
                      [c \in Configurations |->
                        IF c \in opts /\ disk.config[c] = Missing THEN EmptyData ELSE disk.config[c]]]
<1>1. disk \in Files /\ AllCoherent(disk)
  BY DEF TypeInv, TypeOK, CoherentInv
<1>2. disk' = files /\ mem' = files
  BY DEF ReadProject
<1>3. /\ files.project = disk.project
      /\ \A c \in Configurations :
           files.config[c] = IF c \in opts /\ disk.config[c] = Missing THEN EmptyData ELSE disk.config[c]
  BY <1>1 DEF Files
<1> HIDE DEF files
<1>4. AllCoherent(files)
  BY <1>1, <1>3, NoListCoherent DEF AllCoherent, EmptyData
<1> QED
  BY <1>2, <1>4 DEF CoherentInv, AllCoherent

LEMMA CoherentConfigureTask ==
  ASSUME PluginsOfFramework, TypeInv, CoherentInv, ConfigureTask
  PROVE  CoherentInv'
<1> DEFINE task == Head(todo)
           plugin == BestMatching(task.id, task.version)
           list == OrEmpty(GetProperty(mem, "core", task.config))
           core == (list \ ReplacedRecords(plugin)) \cup {Record(plugin, task.version)}
           withVars == WithVariables(mem, plugin, task.config)
<1>1. /\ task.do = "configure" /\ mem' = SetProperty(withVars, "core", core, task.config) /\ disk' = disk
      /\ plugin \in Instances(task.id, task.version)
  BY BestMatchingIsInstance DEF ConfigureTask
<1>2. mem \in Files /\ AllCoherent(mem) /\ AllCoherent(disk) /\ todo \in Seq(Tasks) /\ todo # <<>>
  BY DEF TypeInv, TypeOK, CoherentInv, ConfigureTask, CommandInv
<1>3. task.id \in Ids
  <2>1. task \in Tasks
    BY <1>2, HeadTailProperties
  <2> QED
    BY <1>1, <2>1 DEF Tasks
<1>4. plugin.id \in Ids /\ Record(plugin, task.version) \in Records
  BY <1>1, RecordOfInstance
<1>5. list \in SUBSET Records /\ Coherent(list)
  <2>1. list \in SUBSET Records /\ Coherent(GetProperty(mem, "core", task.config))
    BY <1>2, GetPropertyType, CoherentProperty
  <2> QED
    BY <2>1, NoListCoherent, DataTypes DEF Coherent, OrEmpty
<1>6. core \in SUBSET Records /\ Coherent(core)
  BY <1>1, <1>3, <1>4, <1>5, ConfiguredCoherent
<1>7. withVars \in Files /\ AllCoherent(withVars)
  BY <1>2, <1>4, WithVariablesType, CoherentWithVariables
<1> HIDE DEF core, withVars
<1>8. AllCoherent(mem')
  BY <1>1, <1>6, <1>7, CoherentSet
<1> QED
  BY <1>1, <1>2, <1>8 DEF CoherentInv, AllCoherent

LEMMA CoherentRemoveTask ==
  ASSUME TypeInv, CoherentInv, RemoveTask
  PROVE  CoherentInv'
<1> DEFINE task == Head(todo)
           core == GetProperty(mem, "core", task.config)
           record == Record(task.plugin, NoVersion)
           withoutVars == WithoutVariables(mem, task.plugin.id, task.config)
<1>1. /\ disk' = disk /\ core # Undefined
      /\ mem' = withoutVars \/ mem' = SetProperty(withoutVars, "core", core \ {record}, task.config)
  BY DEF RemoveTask
<1>2. mem \in Files /\ AllCoherent(mem) /\ AllCoherent(disk)
  BY DEF TypeInv, TypeOK, CoherentInv
<1>3. core \in SUBSET Records /\ Coherent(core)
  BY <1>1, <1>2, GetPropertyType, CoherentProperty
<1>4. core \ {record} \in SUBSET Records /\ Coherent(core \ {record})
  BY <1>3, CoherentSubset
<1>5. withoutVars \in Files /\ AllCoherent(withoutVars)
  BY <1>2, WithoutVariablesType, CoherentWithoutVariables
<1> HIDE DEF core, record, withoutVars
<1>6. AllCoherent(mem')
  BY <1>1, <1>4, <1>5, CoherentSet
<1> QED
  BY <1>1, <1>2, <1>6 DEF CoherentInv, AllCoherent

(* What `prop` gives a list has nothing to be beside. *)
LEMMA UpdatedCoherent ==
  ASSUME PluginsOfFramework, command.mode \in {"add", "del", "set"}, command.values \in PropValues,
         NEW list, command.mode = "set" \/ (list \in SUBSET Records /\ Coherent(list))
  PROVE  Coherent(Updated(list))
<1>1. command.values \in SUBSET Records
  BY PropValuesAssumption
<1>2. \A r \in command.values, q \in Records : (q.id = r.id => q = r) /\ ~Beside(r, q) /\ ~Beside(q, r)
  BY DEF PluginsOfFramework
<1>3. CASE command.mode = "set"
  <2>1. Updated(list) = command.values
    BY <1>3 DEF Updated
  <2> QED
    BY <1>1, <1>2, <2>1, CoherentOfSet
<1>4. CASE command.mode = "add"
  <2>1. Updated(list) = list \cup command.values
    BY <1>4 DEF Updated
  <2>2. list \in SUBSET Records /\ \A r \in list, q \in list : (r.id = q.id => r.version = q.version) /\ ~Beside(r, q)
    BY <1>4, CoherentOfSet
  <2>3. list \cup command.values \in SUBSET Records
    BY <1>1, <2>2
  <2>4. \A r \in list \cup command.values, q \in list \cup command.values :
          (r.id = q.id => r.version = q.version) /\ ~Beside(r, q)
    BY <1>1, <1>2, <2>2
  <2> QED
    BY <2>1, <2>3, <2>4, CoherentOfSet
<1>5. CASE command.mode = "del"
  <2>1. Updated(list) = list \ command.values
    BY <1>5 DEF Updated
  <2> QED
    BY <1>5, <2>1, CoherentSubset
<1> QED
  BY <1>3, <1>4, <1>5

LEMMA CoherentPropUpdate ==
  ASSUME PluginsOfFramework, TypeInv, CoherentInv, PropUpdate
  PROVE  CoherentInv'
<1> DEFINE moved == MoveToConfigurations(mem)
           updated == UpdateConfigurations(moved)
<1>1. /\ mem \in Files /\ AllCoherent(mem) /\ AllCoherent(disk)
      /\ disk' = disk /\ Updatable(moved) /\ mem' \in MovedBack(updated)
  BY DEF TypeInv, TypeOK, CoherentInv, PropUpdate
<1>2. command.mode \in {"add", "del", "set"} /\ command.values \in PropValues /\ command.values \in SUBSET Records
  <2>1. command \in [name : {"prop"}, mode : PropModes, values : PropValues]
    BY DEF PropUpdate, TypeInv, TypeOK, CommandInv, Arguments, NoCommand
  <2> QED
    BY <2>1, PropModesAssumption, PropValuesAssumption
<1>3. moved \in Files
  BY <1>1, MoveToConfigurationsType
<1>4. AllCoherent(moved)
  <2>1. mem.project \in Data /\ moved.project = [mem.project EXCEPT !.core = Undefined]
    BY <1>1 DEF MoveToConfigurations, Files
  <2>2. moved.project.core = Undefined
    BY <2>1 DEF Data
  <2>3. ASSUME NEW c \in Configurations, moved.config[c] # Missing
        PROVE  Coherent(moved.config[c].core)
    <3>1. CASE mem.config[c] = Missing \/ mem.project.core = Undefined \/ mem.project.core = {}
      <4>1. moved.config[c] = mem.config[c]
        BY <3>1 DEF MoveToConfigurations
      <4> QED
        BY <1>1, <2>3, <4>1 DEF AllCoherent
    <3>2. CASE ~ (mem.config[c] = Missing \/ mem.project.core = Undefined \/ mem.project.core = {})
      <4>1. mem.config[c] \in Data /\ moved.config[c] = [mem.config[c] EXCEPT !.core = mem.project.core]
        BY <1>1, <3>2 DEF MoveToConfigurations, Files
      <4>2. moved.config[c].core = mem.project.core
        BY <4>1 DEF Data
      <4> QED
        BY <1>1, <4>2 DEF AllCoherent
    <3> QED
      BY <3>1, <3>2
  <2> HIDE DEF moved
  <2> QED
    BY <2>2, <2>3, NoListCoherent DEF AllCoherent
<1>5. \A k \in Configurations : k \in Targets(moved) => moved.config[k] # Missing
  <2>1. \A k \in Configurations : mem.config[k] # Missing => moved.config[k] # Missing
    BY <1>1, MoveToConfigurationsType
  <2> HIDE DEF moved
  <2> QED
    BY <2>1, ConfigurationsAssumption DEF Targets, InMemory, TypeInv, TypeOK, InMemoryInv, BothConfigurations
<1> HIDE DEF moved
<1>6. updated \in Files
  BY <1>1, <1>2, <1>3, <1>5, UpdateConfigurationsType
<1>7. AllCoherent(updated)
  <2>1. updated.project = moved.project
    BY <1>3 DEF UpdateConfigurations, Files
  <2>2. \A k \in Configurations :
          updated.config[k] = IF k \in Targets(moved) THEN [moved.config[k] EXCEPT !.core = Updated(@)]
                              ELSE moved.config[k]
    BY <1>3 DEF UpdateConfigurations, Files
  <2>3. ASSUME NEW c \in Configurations, updated.config[c] # Missing
        PROVE  Coherent(updated.config[c].core)
    <3>1. CASE c \in Targets(moved)
      <4>1. moved.config[c] # Missing /\ moved.config[c] \in Data
        BY <1>3, <1>5, <3>1 DEF Files
      <4>2. command.mode = "set" \/ moved.config[c].core # Undefined
        BY <1>1, <3>1 DEF Updatable
      <4>3. command.mode = "set" \/ (moved.config[c].core \in SUBSET Records /\ Coherent(moved.config[c].core))
        BY <1>4, <4>1, <4>2 DEF AllCoherent, Data
      <4>4. Coherent(Updated(moved.config[c].core))
        BY <1>2, <4>3, UpdatedCoherent
      <4>5. updated.config[c] = [moved.config[c] EXCEPT !.core = Updated(@)]
        BY <2>2, <3>1
      <4>6. updated.config[c].core = Updated(moved.config[c].core)
        BY <4>1, <4>5 DEF Data
      <4> QED
        BY <4>4, <4>6
    <3>2. CASE c \notin Targets(moved)
      BY <1>4, <2>2, <2>3, <3>2 DEF AllCoherent
    <3> QED
      BY <3>1, <3>2
  <2> HIDE DEF updated
  <2> QED
    BY <1>4, <2>1, <2>3 DEF AllCoherent
<1> HIDE DEF updated
<1>8. AllCoherent(mem')
  <2>1. CASE mem' = updated
    BY <1>7, <2>1
  <2>2. CASE mem' # updated
    <3>1. PICK first \in InMemory(updated) : mem' = MoveToProject(updated, first)
      BY <1>1, <2>2 DEF MovedBack
    <3>2. mem' = [project |-> [updated.project EXCEPT !.core = updated.config[first].core],
                  config |-> [k \in Configurations |->
                    IF updated.config[k] = Missing THEN Missing ELSE [updated.config[k] EXCEPT !.core = Undefined]]]
      BY <2>2, <3>1 DEF MoveToProject
    <3>3. mem'.project.core = updated.config[first].core
      BY <1>6, <3>2 DEF Files, Data
    <3>4. ASSUME NEW c \in Configurations, mem'.config[c] # Missing
          PROVE  mem'.config[c].core = Undefined
      <4>1. updated.config[c] \in Data /\ mem'.config[c] = [updated.config[c] EXCEPT !.core = Undefined]
        BY <1>6, <3>2, <3>4 DEF Files
      <4> QED
        BY <4>1 DEF Data
    <3>5. Coherent(updated.config[first].core)
      BY <1>7, <3>1 DEF InMemory, AllCoherent
    <3> QED
      BY <3>3, <3>4, <3>5, NoListCoherent DEF AllCoherent
  <2> QED
    BY <2>1, <2>2
<1> QED
  BY <1>1, <1>8 DEF CoherentInv, AllCoherent

LEMMA CoherentSave ==
  ASSUME TypeInv, CoherentInv, SaveStep
  PROVE  CoherentInv'
<1>1. disk \in Files /\ mem' = mem /\ AllCoherent(disk) /\ AllCoherent(mem)
  BY DEF TypeInv, TypeOK, CoherentInv, SaveStep, SaveProjectFile, SaveConfigurationFile, Saved
<1>2. AllCoherent(disk')
  <2>1. CASE SaveProjectFile
    <3>1. disk'.config = disk.config /\ disk'.project = mem.project
      BY <1>1, <2>1 DEF SaveProjectFile, Files
    <3> QED
      BY <1>1, <3>1 DEF AllCoherent
  <2>2. ASSUME NEW c \in toSave, SaveConfigurationFile(c)
        PROVE  AllCoherent(disk')
    <3>1. /\ disk'.project = disk.project
          /\ \A k \in Configurations : disk'.config[k] = disk.config[k] \/ (disk'.config[k] = mem.config[k] /\ mem.config[k] # Missing)
      BY <1>1, <2>2 DEF SaveConfigurationFile, Files
    <3> QED
      BY <1>1, <3>1 DEF AllCoherent
  <2>3. CASE Saved
    BY <1>1, <2>3 DEF Saved
  <2> QED
    BY <2>1, <2>2, <2>3 DEF SaveStep
<1> QED
  BY <1>1, <1>2 DEF CoherentInv, AllCoherent

LEMMA CoherentNext ==
  ASSUME PluginsOfFramework, TypeInv, CoherentInv, [Next]_vars
  PROVE  CoherentInv'
<1>1. CASE PropStep
  <2>1. ASSUME NEW mode \in PropModes, NEW values \in PropValues, NEW opts \in SUBSET {Debug, Release},
               PropStart(mode, values, opts)
        PROVE  CoherentInv'
    BY <2>1, CoherentStart DEF PropStart
  <2>2. CASE PropUpdate
    BY <2>2, CoherentPropUpdate
  <2>3. CASE PropFails
    BY <2>3 DEF PropFails, Fail, FailAs, CoherentInv, AllCoherent
  <2> QED
    BY <1>1, <2>1, <2>2, <2>3 DEF PropStep
<1>2. CASE PluginStep
  <2>1. ASSUME NEW do \in PluginCommands, NEW id \in Ids, NEW opts \in SUBSET {Debug, Release},
               NEW version \in IF do = "add" THEN VersionsOf(id) \cup {NoVersion} ELSE {NoVersion},
               PluginStart(do, id, version, opts)
        PROVE  CoherentInv'
    BY <2>1, CoherentStart DEF PluginStart
  <2>2. CASE \/ AddOfInstalledCorePlugin \/ AddNewPlugin
             \/ ModifyBoth \/ ModifyVersion \/ ModifyAsAsked
             \/ ConfigurePlugin \/ RemovePlugin
    <3>1. UNCHANGED <<disk, mem>>
      BY <2>2, CommandsDecide DEF Decide
    <3> QED
      BY <3>1 DEF CoherentInv, AllCoherent
  <2>3. CASE ConfigureTask
    BY <2>3, CoherentConfigureTask
  <2>4. CASE RemoveTask
    BY <2>4, CoherentRemoveTask
  <2>5. CASE PluginFails
    BY <2>5 DEF PluginFails, Fail, FailAs, CoherentInv, AllCoherent
  <2> QED
    BY <1>2, <2>1, <2>2, <2>3, <2>4, <2>5 DEF PluginStep
<1>3. CASE SaveStep
  BY <1>3, CoherentSave
<1>4. CASE Exit \/ Killed
  <2>1. mem' = disk /\ disk' = disk
    BY <1>4 DEF Exit, Killed, Kill, Quit
  <2> QED
    BY <2>1 DEF CoherentInv, AllCoherent
<1>5. CASE UNCHANGED vars
  BY <1>5 DEF vars, CoherentInv, AllCoherent
<1>6. CASE NotSaved
  BY <1>6 DEF NotSaved, SaveFails, FailAs, CoherentInv, AllCoherent
<1> QED
  BY <1>1, <1>2, <1>3, <1>4, <1>5, <1>6 DEF Next

(* However commands follow each other, fail or are killed, no configuration *)
(* has two versions of one plugin: configurePluginCore takes out every       *)
(* instance of the plugin before it adds one.                              *)
THEOREM NeverTwoVersions == PluginsOfFramework => (Spec => []OneVersionPerConfiguration)
<1> SUFFICES ASSUME PluginsOfFramework
             PROVE  Spec => []OneVersionPerConfiguration
  OBVIOUS
<1>1. Init => TypeInv /\ CoherentInv
  BY TypeInit, CoherentInit
<1>2. TypeInv /\ CoherentInv /\ [Next]_vars => (TypeInv /\ CoherentInv)'
  BY TypeNext, CoherentNext
<1>3. TypeInv /\ CoherentInv => OneVersionPerConfiguration
  <2> SUFFICES ASSUME TypeInv, CoherentInv, NEW c \in Configurations, NEW id \in Ids
               PROVE  Cardinality(VersionsEnabled(disk, c, id)) <= 1
    BY DEF OneVersionPerConfiguration
  <2>1. Coherent(Enabled(disk, c))
    BY CoherentProperty DEF TypeInv, TypeOK, CoherentInv, Enabled
  <2>2. \A v \in VersionsEnabled(disk, c, id), w \in VersionsEnabled(disk, c, id) : v = w
    BY <2>1 DEF VersionsEnabled, Coherent
  <2>3. VersionsEnabled(disk, c, id) = {} \/ \E v : VersionsEnabled(disk, c, id) = {v}
    BY <2>2
  <2>4. Cardinality({}) = 0 /\ \A v : Cardinality({v}) = 1
    BY FS_EmptySet, FS_Singleton
  <2> QED
    BY <2>3, <2>4
<1> QED
  BY <1>1, <1>2, <1>3, PTL DEF Spec

(* Nor has it a plugin of the framework beside the one of the marketplace   *)
(* that replaces it: each of the two takes the other out.                  *)
THEOREM NeverBeside == PluginsOfFramework => (Spec => []ObsoleteNotBeside)
<1> SUFFICES ASSUME PluginsOfFramework
             PROVE  Spec => []ObsoleteNotBeside
  OBVIOUS
<1>1. Init => TypeInv /\ CoherentInv
  BY TypeInit, CoherentInit
<1>2. TypeInv /\ CoherentInv /\ [Next]_vars => (TypeInv /\ CoherentInv)'
  BY TypeNext, CoherentNext
<1>3. TypeInv /\ CoherentInv => ObsoleteNotBeside
  <2> SUFFICES ASSUME TypeInv, CoherentInv, NEW c \in Configurations, NEW id \in Ids, ObsoletedBy[id] # NoId,
                      NEW v \in VersionsEnabled(disk, c, id), NEW w \in VersionsEnabled(disk, c, ObsoletedBy[id])
               PROVE  FALSE
    BY DEF ObsoleteNotBeside
  <2>1. Coherent(Enabled(disk, c))
    BY CoherentProperty DEF TypeInv, TypeOK, CoherentInv, Enabled
  <2>2. PICK r \in OrEmpty(Enabled(disk, c)), q \in OrEmpty(Enabled(disk, c)) : r.id = id /\ q.id = ObsoletedBy[id]
    BY DEF VersionsEnabled
  <2> QED
    BY <2>1, <2>2 DEF Coherent, Beside
<1> QED
  BY <1>1, <1>2, <1>3, PTL DEF Spec


--------------------------------------------------------------------------
(* What a plugin command has left to do: to remove plugins; one thing; or   *)
(* two, in two configurations, of which the second is to enable.           *)
Removals == {task \in Tasks : task.do = "remove"}

Shaped(tasks) ==
  \/ tasks \in Seq(Removals)
  \/ \E t \in Tasks : tasks = <<t>>
  \/ \E s \in Tasks, t \in Tasks :
       /\ tasks = <<s, t>> /\ t.do = "configure" /\ s.config # t.config
       /\ HasBuildConfigurations(mem)

ShapeInv == command.name = "plugin" => Shaped(todo)

LEMMA NothingShaped == Shaped(<<>>)
BY EmptySeq DEF Shaped

(* The tasks of Debug and Release, one after the other. *)
LEMMA TwoInOrder ==
  ASSUME NEW S, NEW a \in S, NEW b \in S
  PROVE  /\ <<>> \o <<>> = <<>> /\ <<>> \o <<b>> = <<b>>
         /\ <<a>> \o <<>> = <<a>> /\ <<a>> \o <<b>> = <<a, b>>
<1>1. <<>> \in Seq(S) /\ <<a>> \in Seq(S) /\ <<b>> \in Seq(S)
  BY EmptySeq
<1>2. <<>> \o <<>> = <<>> /\ <<>> \o <<b>> = <<b>> /\ <<a>> \o <<>> = <<a>>
  BY <1>1, ConcatEmptySeq
<1>3. <<a>> \o <<b>> = <<a, b>>
  <2>1. /\ <<a>> \o <<b>> \in Seq(S) /\ <<a, b>> \in Seq(S) /\ Len(<<a>> \o <<b>>) = 2 /\ Len(<<a, b>>) = 2
        /\ (<<a>> \o <<b>>)[1] = a /\ (<<a>> \o <<b>>)[2] = b
    BY <1>1, ConcatProperties
  <2>2. \A i \in 1 .. 2 : (<<a>> \o <<b>>)[i] = <<a, b>>[i]
    BY <2>1
  <2> QED
    BY <2>1, <2>2, SeqEqual
<1> QED
  BY <1>2, <1>3

LEMMA ConfigureTasksShaped ==
  ASSUME NEW id \in Ids, NEW version \in Versions, NEW configs
  PROVE  Shaped(ConfigureTasks(id, version, configs))
<1> DEFINE onDebug == Configure(id, version, Debug)
           onRelease == Configure(id, version, Release)
           onProject == Configure(id, NoVersion, NoConfig)
<1>1. /\ onDebug \in Tasks /\ onRelease \in Tasks /\ onProject \in Tasks
      /\ onDebug.config # onRelease.config /\ onRelease.do = "configure"
  BY ConfigurationsAssumption DEF Configure, Tasks, Versions
<1>2. CASE ~HasBuildConfigurations(mem)
  <2>1. ConfigureTasks(id, version, configs) = <<onProject>>
    BY <1>2 DEF ConfigureTasks
  <2> HIDE DEF onProject
  <2> QED
    BY <1>1, <2>1 DEF Shaped
<1>3. CASE HasBuildConfigurations(mem)
  <2>1. ConfigureTasks(id, version, configs) =
          (IF Debug \in configs THEN <<onDebug>> ELSE <<>>) \o (IF Release \in configs THEN <<onRelease>> ELSE <<>>)
    BY <1>3 DEF ConfigureTasks, InOrder
  <2> HIDE DEF onDebug, onRelease
  <2>2. ConfigureTasks(id, version, configs) \in {<<>>, <<onDebug>>, <<onRelease>>, <<onDebug, onRelease>>}
    <3>1. <<>> \o <<>> = <<>> /\ <<>> \o <<onRelease>> = <<onRelease>>
          /\ <<onDebug>> \o <<>> = <<onDebug>> /\ <<onDebug>> \o <<onRelease>> = <<onDebug, onRelease>>
      BY <1>1, TwoInOrder
    <3>2. CASE Debug \in configs
      <4>1. CASE Release \in configs
        BY <2>1, <3>1, <3>2, <4>1
      <4>2. CASE Release \notin configs
        BY <2>1, <3>1, <3>2, <4>2
      <4> QED
        BY <4>1, <4>2
    <3>3. CASE Debug \notin configs
      <4>1. CASE Release \in configs
        BY <2>1, <3>1, <3>3, <4>1
      <4>2. CASE Release \notin configs
        BY <2>1, <3>1, <3>3, <4>2
      <4> QED
        BY <4>1, <4>2
    <3> QED
      BY <3>2, <3>3
  <2>3. Shaped(<<onDebug>>) /\ Shaped(<<onRelease>>) /\ Shaped(<<onDebug, onRelease>>)
    BY <1>1, <1>3 DEF Shaped
  <2> QED
    BY <2>2, <2>3, NothingShaped
<1> QED
  BY <1>2, <1>3

LEMMA RemoveTasksRemove ==
  ASSUME NEW plugin \in Elements(KnownPlugins), NEW c \in Configurations \cup {NoConfig}
  PROVE  RemoveTasks(plugin, c) \in Seq(Removals)
<1>1. \A q \in PluginOrUndefined : <<Remove(q, c)>> \in Seq(Removals)
  <2>1. \A q \in PluginOrUndefined : Remove(q, c) \in Removals
    BY DEF Remove, Tasks, Removals
  <2> QED
    BY <2>1
<1>2. plugin \in PluginOrUndefined
  BY DEF PluginOrUndefined
<1> QED
  BY <1>1, <1>2, PluginOfRecordType, EmptySeq, ConcatProperties DEF RemoveTasks

LEMMA CommandsShape ==
  ASSUME TypeInv,
         \/ AddOfInstalledCorePlugin \/ AddNewPlugin
         \/ ModifyBoth \/ ModifyVersion \/ ModifyAsAsked
         \/ ConfigurePlugin \/ RemovePlugin
  PROVE  \E tasks : Decide(tasks) /\ Shaped(tasks)
<1>1. command.id \in Ids /\ command.version \in Versions
  <2>1. command.name = "plugin"
    BY CommandsDecide DEF TypeInv, CommandInv
  <2> QED
    BY <2>1 DEF TypeInv, TypeOK, Arguments, NoCommand
<1>2. \A plugin, version : SelectableVersions(version, plugin) \subseteq Versions
  BY DEF SelectableVersions, VersionsOf, Versions
<1>3. \A plugin \in Elements(KnownPlugins) : plugin.id \in Ids
  BY KnownPluginsAssumption
<1>4. options \subseteq BothConfigurations /\ BothConfigurations \subseteq Configurations
  BY ConfigurationsAssumption DEF TypeInv, TypeOK, BothConfigurations
<1>5. CASE AddOfInstalledCorePlugin
  BY <1>5, NothingShaped DEF AddOfInstalledCorePlugin
<1>6. CASE AddNewPlugin
  <2> DEFINE plugin == BestMatching(command.id, command.version)
  <2>1. PICK version \in IF plugin.market THEN SelectableVersions(command.version, plugin) ELSE {command.version} :
          Decide(ConfigureTasks(command.id, version, AllowedConfigurations(plugin)))
    BY <1>6 DEF AddNewPlugin
  <2>2. version \in Versions
    BY <1>1, <1>2, <2>1
  <2> QED
    BY <1>1, <2>1, <2>2, ConfigureTasksShaped
<1>7. CASE ModifyBoth
  <2>1. PICK plugin \in Elements(KnownPlugins) : \E version \in SelectableVersions(command.version, plugin) :
          Decide(ConfigureTasks(plugin.id, version, BothConfigurations))
    BY <1>7 DEF ModifyBoth
  <2> QED
    BY <1>2, <1>3, <2>1, ConfigureTasksShaped
<1>8. CASE ModifyVersion
  <2>1. PICK plugin \in Elements(KnownPlugins), c \in options, version \in Versions :
          Decide(<<Configure(plugin.id, version, c)>>)
    BY <1>2, <1>8 DEF ModifyVersion
  <2>2. Configure(plugin.id, version, c) \in Tasks
    BY <1>3, <1>4 DEF Configure, Tasks
  <2> QED
    BY <2>1, <2>2 DEF Shaped
<1>9. CASE ModifyAsAsked
  <2>1. PICK plugin \in Elements(KnownPlugins), c \in options, version \in Versions :
          \/ Decide(ConfigureTasks(plugin.id, version, BothConfigurations))
          \/ \E other \in BothConfigurations \ {c} :
               Decide(<<Remove(plugin, other), Configure(plugin.id, version, c)>>)
    BY <1>2, <1>9 DEF ModifyAsAsked
  <2>2. ASSUME NEW other \in BothConfigurations \ {c},
               Decide(<<Remove(plugin, other), Configure(plugin.id, version, c)>>)
        PROVE  \E tasks : Decide(tasks) /\ Shaped(tasks)
    <3>1. HasBuildConfigurations(mem)
      BY <1>4 DEF HasBuildConfigurations, TypeInv, InMemoryInv
    <3>2. Remove(plugin, other) \in Tasks /\ Configure(plugin.id, version, c) \in Tasks
      BY <1>3, <1>4 DEF Remove, Configure, Tasks, PluginOrUndefined
    <3>3. Configure(plugin.id, version, c).do = "configure"
          /\ Remove(plugin, other).config # Configure(plugin.id, version, c).config
      BY DEF Remove, Configure
    <3> QED
      BY <2>2, <3>1, <3>2, <3>3 DEF Shaped
  <2> QED
    BY <1>3, <2>1, <2>2, ConfigureTasksShaped
<1>10. CASE ConfigurePlugin
  <2>1. NoVersion \in Versions
    BY DEF Versions
  <2> QED
    BY <1>1, <1>10, <2>1, ConfigureTasksShaped DEF ConfigurePlugin
<1>11. CASE RemovePlugin
  <2>1. PICK plugin \in InstalledByName(SelectedConfigurations, command.id) :
          Decide(IF ~HasBuildConfigurations(mem) THEN RemoveTasks(plugin, NoConfig)
                 ELSE InOrder(SelectedConfigurations, RemoveTasks(plugin, Debug), RemoveTasks(plugin, Release)))
    BY <1>11 DEF RemovePlugin
  <2>2. plugin \in Elements(KnownPlugins)
    BY <1>11, <2>1, InstalledKnown DEF RemovePlugin
  <2>3. /\ RemoveTasks(plugin, NoConfig) \in Seq(Removals)
        /\ RemoveTasks(plugin, Debug) \in Seq(Removals) /\ RemoveTasks(plugin, Release) \in Seq(Removals)
    BY <2>2, RemoveTasksRemove, ConfigurationsAssumption
  <2>4. InOrder(SelectedConfigurations, RemoveTasks(plugin, Debug), RemoveTasks(plugin, Release)) \in Seq(Removals)
    BY <2>3, EmptySeq, ConcatProperties DEF InOrder
  <2> QED
    BY <2>1, <2>3, <2>4 DEF Shaped
<1> QED
  BY <1>5, <1>6, <1>7, <1>8, <1>9, <1>10, <1>11

(* After a task the rest has the shape too, and after one that enables a    *)
(* plugin nothing is removed and nothing done to the same configuration.   *)
LEMMA ShapedTail ==
  ASSUME Shaped(todo), todo # <<>>
  PROVE  /\ Tail(todo) \in Seq(Removals) \/ \E t \in Tasks : Tail(todo) = <<t>>
         /\ Head(todo).do = "configure" =>
              \/ Tail(todo) = <<>>
              \/ \E t \in Tasks : /\ Tail(todo) = <<t>> /\ t.do = "configure" /\ t.config # Head(todo).config
                                  /\ HasBuildConfigurations(mem)
         /\ Head(todo).do = "remove" =>
              \/ todo \in Seq(Removals)
              \/ Tail(todo) = <<>>
              \/ \E t \in Tasks : /\ Tail(todo) = <<t>> /\ t.do = "configure" /\ t.config # Head(todo).config
                                  /\ HasBuildConfigurations(mem)
<1>1. CASE todo \in Seq(Removals)
  <2>1. Head(todo) \in Removals /\ Tail(todo) \in Seq(Removals)
    BY <1>1, HeadTailProperties
  <2>2. Head(todo).do = "remove"
    BY <2>1 DEF Removals
  <2> QED
    BY <1>1, <2>1, <2>2
<1>2. CASE \E t \in Tasks : todo = <<t>>
  <2>1. Tail(todo) = <<>> /\ <<>> \in Seq(Removals)
    BY <1>2, EmptySeq
  <2> QED
    BY <2>1
<1>3. CASE \E s \in Tasks, t \in Tasks : /\ todo = <<s, t>> /\ t.do = "configure" /\ s.config # t.config
                                         /\ HasBuildConfigurations(mem)
  BY <1>3
<1> QED
  BY <1>1, <1>2, <1>3 DEF Shaped


--------------------------------------------------------------------------
(* That a plugin comes with its variables.  While something is left to      *)
(* remove, nothing new is enabled; what is new has its variables where its  *)
(* list is, in the configuration's data or the project's, in memory and in  *)
(* the files.                                                              *)
NewIn(d, c) == OrEmpty(Enabled(d, c)) \ OrEmpty(Enabled(started, c))

NothingNew(d) == \A c \in Configurations : NewIn(d, c) = {}

VariablesBeside(d, c) ==
  IF HasBuildConfigurations(mem) THEN IF d.config[c] = Missing THEN {} ELSE OrEmpty(d.config[c].vars)
  ELSE OrEmpty(d.project.vars)

WithTheirVariables(d) ==
  \A c \in Configurations : \A r \in NewIn(d, c) : HasVariables(r) => r.id \in VariablesBeside(d, c)

Configures == {task \in Tasks : task.do = "configure"}

VariablesInv ==
  command.name = "plugin" =>
    /\ WithTheirVariables(mem) /\ WithTheirVariables(disk)
    /\ pc = "command" \/ todo \notin Seq(Configures) => NothingNew(mem) /\ NothingNew(disk)

LEMMA NothingNewSuffices ==
  ASSUME NEW d, NothingNew(d)
  PROVE  WithTheirVariables(d)
BY DEF NothingNew, WithTheirVariables

(* readProjectData finds what is enabled. *)
LEMMA ReadSameLists ==
  ASSUME TypeInv, NEW opts, ReadProject(opts)
  PROVE  /\ started' = disk /\ disk' = mem'
         /\ \A c \in Configurations : Enabled(mem', c) = Enabled(disk, c)
<1> DEFINE files == [disk EXCEPT !.config =
                      [c \in Configurations |->
                        IF c \in opts /\ disk.config[c] = Missing THEN EmptyData ELSE disk.config[c]]]
<1>1. disk \in Files
  BY DEF TypeInv, TypeOK
<1>2. disk' = files /\ mem' = files /\ started' = disk
  BY DEF ReadProject
<1>3. /\ files.project = disk.project
      /\ \A c \in Configurations :
           files.config[c] = IF c \in opts /\ disk.config[c] = Missing THEN EmptyData ELSE disk.config[c]
  BY <1>1 DEF Files
<1> HIDE DEF files
<1>4. ASSUME NEW c \in Configurations
      PROVE  Enabled(files, c) = Enabled(disk, c)
  <2>1. EmptyData.core = Undefined /\ EmptyData # Missing
    BY DataTypes DEF EmptyData
  <2> QED
    BY <1>3, <2>1 DEF Enabled, GetProperty
<1> QED
  BY <1>2, <1>4

LEMMA VariablesStart ==
  ASSUME TypeInv, NEW opts, ReadProject(opts)
  PROVE  VariablesInv'
<1>1. started' = disk /\ disk' = mem' /\ \A c \in Configurations : Enabled(mem', c) = Enabled(disk, c)
  BY ReadSameLists
<1>2. NothingNew(mem)' /\ NothingNew(disk)'
  BY <1>1 DEF NothingNew, NewIn, Enabled, GetProperty
<1> QED
  BY <1>2 DEF VariablesInv, NothingNew, WithTheirVariables

(* What setProperty of the variables, or of a list, leaves beside a list. *)
LEMMA SetBeside ==
  ASSUME NEW d \in Files, NEW c, NEW property, NEW value,
         \/ property = "core" /\ value \in SUBSET Records
         \/ property = "vars" /\ value \in SUBSET Ids
  PROVE  LET result == SetProperty(d, property, value, c)
         IN /\ HasBuildConfigurations(result) <=> HasBuildConfigurations(d)
            /\ HasBuildConfigurations(d) =>
                 /\ result.project = d.project
                 /\ \A k \in Configurations : k # c => result.config[k] = d.config[k]
                 /\ c \in Configurations =>
                      /\ result.config[c] \in Data
                      /\ result.config[c].vars =
                           IF property = "vars" THEN value
                           ELSE IF d.config[c] = Missing THEN Undefined ELSE d.config[c].vars
            /\ ~HasBuildConfigurations(d) =>
                 /\ result.config = d.config
                 /\ result.project.vars = IF property = "vars" THEN value ELSE d.project.vars
<1> DEFINE result == SetProperty(d, property, value, c)
           old == d.config[c]
           new == [(IF old = Missing THEN EmptyData ELSE old) EXCEPT ![property] = value]
<1>1. CASE HasBuildConfigurations(d)
  <2>1. result = [d EXCEPT !.config[c] = new]
    BY <1>1 DEF SetProperty
  <2>2. c \in Configurations =>
          /\ new \in Data /\ new # Missing
          /\ new.vars = IF property = "vars" THEN value ELSE IF old = Missing THEN Undefined ELSE old.vars
    <3> SUFFICES ASSUME c \in Configurations
                 PROVE  /\ new \in Data
                        /\ new.vars = IF property = "vars" THEN value ELSE IF old = Missing THEN Undefined ELSE old.vars
      BY DataTypes
    <3>1. old = Missing \/ old \in Data
      BY DEF Files
    <3>2. CASE property = "core"
      BY <3>1, <3>2, DataTypes DEF Data, EmptyData
    <3>3. CASE property = "vars"
      BY <3>1, <3>3, DataTypes DEF Data, EmptyData
    <3> QED
      BY <3>2, <3>3
  <2> HIDE DEF new
  <2>3. /\ result.project = d.project
        /\ \A k \in Configurations : result.config[k] = IF k = c THEN new ELSE d.config[k]
    BY <2>1 DEF Files
  <2> HIDE DEF result
  <2>4. HasBuildConfigurations(result)
    BY <1>1, <2>2, <2>3 DEF HasBuildConfigurations
  <2> QED
    BY <1>1, <2>2, <2>3, <2>4 DEF result
<1>2. CASE ~HasBuildConfigurations(d)
  <2>1. result = [d EXCEPT !.project[property] = value]
    BY <1>2 DEF SetProperty
  <2>2. result.config = d.config
    BY <2>1 DEF Files
  <2>3. result.project.vars = IF property = "vars" THEN value ELSE d.project.vars
    BY <2>1 DEF Files, Data
  <2> HIDE DEF result
  <2> QED
    BY <1>2, <2>2, <2>3 DEF HasBuildConfigurations, result
<1> QED
  BY <1>1, <1>2

(* The variables beside a list in d, whichever way they are kept. *)
BesideIn(d, c) ==
  IF HasBuildConfigurations(d) THEN IF d.config[c] = Missing THEN {} ELSE OrEmpty(d.config[c].vars)
  ELSE OrEmpty(d.project.vars)

(* configurePluginCore sets the variables where it puts the record, beside  *)
(* those that were there.                                                  *)
LEMMA VariablesWithPlugin ==
  ASSUME NEW d \in Files, NEW plugin, plugin.id \in Ids, NEW c \in Configurations \cup {NoConfig},
         NEW core \in SUBSET Records, NEW k \in Configurations
  PROVE  LET result == SetProperty(WithVariables(d, plugin, c), "core", core, c)
         IN /\ HasBuildConfigurations(result) <=> HasBuildConfigurations(d)
            /\ BesideIn(d, k) \subseteq BesideIn(result, k)
            /\ plugin.hasVars /\ (k = c \/ ~HasBuildConfigurations(d)) => plugin.id \in BesideIn(result, k)
<1> DEFINE value == OrEmpty(GetProperty(d, "vars", c)) \cup {plugin.id}
           middle == WithVariables(d, plugin, c)
           result == SetProperty(middle, "core", core, c)
<1>1. value \in SUBSET Ids /\ middle \in Files
  BY GetPropertyType, WithVariablesType
<1>2. value # Undefined
  BY <1>1, DataTypes
<1>3. OrEmpty(value) = value /\ plugin.id \in value
  BY <1>2 DEF OrEmpty
<1>4. BesideIn(d, k) \subseteq BesideIn(middle, k) /\ (HasBuildConfigurations(middle) <=> HasBuildConfigurations(d))
      /\ (plugin.hasVars /\ (k = c \/ ~HasBuildConfigurations(d)) => plugin.id \in BesideIn(middle, k))
  <2>1. CASE ~plugin.hasVars
    <3>1. middle = d
      BY <2>1 DEF WithVariables
    <3> HIDE DEF middle
    <3> QED
      BY <2>1, <3>1
  <2>2. CASE plugin.hasVars
    <3>1. middle = SetProperty(d, "vars", value, c)
      BY <2>2 DEF WithVariables
    <3> HIDE DEF middle
    <3>2. HasBuildConfigurations(middle) <=> HasBuildConfigurations(d)
      BY <1>1, <3>1, SetBeside
    <3>3. CASE HasBuildConfigurations(d)
      <4>1. CASE k # c
        <5>1. middle.config[k] = d.config[k]
          BY <1>1, <3>1, <3>3, <4>1, SetBeside
        <5> QED
          BY <3>2, <3>3, <4>1, <5>1 DEF BesideIn
      <4>2. CASE k = c
        <5>1. middle.config[k] \in Data /\ middle.config[k].vars = value
          BY <1>1, <3>1, <3>3, <4>2, SetBeside
        <5>2. BesideIn(middle, k) = value
          BY <1>3, <3>2, <3>3, <5>1, DataTypes DEF BesideIn
        <5>3. BesideIn(d, k) \subseteq OrEmpty(GetProperty(d, "vars", c))
          BY <3>3, <4>2 DEF BesideIn, GetProperty, OrEmpty
        <5> QED
          BY <1>3, <3>2, <5>2, <5>3
      <4> QED
        BY <4>1, <4>2
    <3>4. CASE ~HasBuildConfigurations(d)
      <4>1. middle.project.vars = value
        BY <1>1, <3>1, <3>4, SetBeside
      <4>2. BesideIn(middle, k) = value
        BY <1>3, <3>2, <3>4, <4>1 DEF BesideIn
      <4>3. BesideIn(d, k) = OrEmpty(GetProperty(d, "vars", c))
        BY <3>4 DEF BesideIn, GetProperty, HasBuildConfigurations
      <4> QED
        BY <1>3, <3>2, <4>2, <4>3
    <3> QED
      BY <3>3, <3>4
  <2> QED
    BY <2>1, <2>2
<1> HIDE DEF middle, value
<1>5. (HasBuildConfigurations(result) <=> HasBuildConfigurations(middle)) /\ BesideIn(result, k) = BesideIn(middle, k)
  <2>1. HasBuildConfigurations(result) <=> HasBuildConfigurations(middle)
    BY <1>1, SetBeside
  <2>2. CASE HasBuildConfigurations(middle) /\ k # c
    <3>1. result.config[k] = middle.config[k]
      BY <1>1, <2>2, SetBeside
    <3> HIDE DEF result
    <3> QED
      BY <2>1, <2>2, <3>1 DEF BesideIn
  <2>3. CASE HasBuildConfigurations(middle) /\ k = c
    <3>1. /\ result.config[k] \in Data
          /\ result.config[k].vars = IF middle.config[k] = Missing THEN Undefined ELSE middle.config[k].vars
      BY <1>1, <2>3, SetBeside
    <3> HIDE DEF result
    <3> QED
      BY <2>1, <2>3, <3>1, DataTypes DEF BesideIn, OrEmpty
  <2>4. CASE ~HasBuildConfigurations(middle)
    <3>1. result.project.vars = middle.project.vars
      BY <1>1, <2>4, SetBeside
    <3> HIDE DEF result
    <3> QED
      BY <2>1, <2>4, <3>1 DEF BesideIn
  <2> QED
    BY <2>1, <2>2, <2>3, <2>4
<1> HIDE DEF result
<1>6. /\ HasBuildConfigurations(result) <=> HasBuildConfigurations(d)
      /\ BesideIn(d, k) \subseteq BesideIn(result, k)
      /\ plugin.hasVars /\ (k = c \/ ~HasBuildConfigurations(d)) => plugin.id \in BesideIn(result, k)
  BY <1>4, <1>5
<1> QED
  BY <1>6 DEF result, middle


LEMMA ShapeNext ==
  ASSUME TypeInv, AskedInv, ShapeInv, [Next]_vars
  PROVE  ShapeInv'
<1>1. CASE PropStep
  <2>1. command'.name = "prop"
    BY <1>1 DEF PropStep, PropStart, PropUpdate, PropFails, Fail, FailAs, TypeInv, CommandInv
  <2> QED
    BY <2>1 DEF ShapeInv
<1>2. CASE PluginStep
  <2>1. ASSUME NEW do \in PluginCommands, NEW id \in Ids, NEW opts \in SUBSET {Debug, Release},
               NEW version \in IF do = "add" THEN VersionsOf(id) \cup {NoVersion} ELSE {NoVersion},
               PluginStart(do, id, version, opts)
        PROVE  ShapeInv'
    <3>1. todo' = <<>>
      BY <2>1 DEF PluginStart, AskedInv, NothingLeftInv
    <3>2. todo' \in Seq(Removals)
      BY <3>1, EmptySeq
    <3> QED
      BY <3>2 DEF ShapeInv, Shaped
  <2>2. CASE \/ AddOfInstalledCorePlugin \/ AddNewPlugin
             \/ ModifyBoth \/ ModifyVersion \/ ModifyAsAsked
             \/ ConfigurePlugin \/ RemovePlugin
    <3>1. PICK tasks : Decide(tasks) /\ Shaped(tasks)
      BY <2>2, CommandsShape
    <3>2. todo' = tasks /\ mem' = mem
      BY <3>1 DEF Decide
    <3> QED
      BY <3>1, <3>2 DEF ShapeInv, Shaped, HasBuildConfigurations
  <2>3. CASE ConfigureTask \/ RemoveTask
    <3>1. command' = command /\ todo' = Tail(todo) /\ todo # <<>>
      BY <2>3 DEF ConfigureTask, RemoveTask, TypeInv, CommandInv
    <3>2. CASE command.name = "plugin"
      <4>1. Tail(todo) \in Seq(Removals) \/ \E t \in Tasks : Tail(todo) = <<t>>
        BY <3>1, <3>2, ShapedTail DEF ShapeInv
      <4> QED
        BY <3>1, <4>1 DEF ShapeInv, Shaped
    <3> QED
      BY <3>1, <3>2 DEF ShapeInv
  <2>4. CASE PluginFails
    <3>1. todo' \in Seq(Removals)
      BY <2>4, EmptySeq DEF PluginFails, Fail, FailAs
    <3> QED
      BY <3>1 DEF ShapeInv, Shaped
  <2> QED
    BY <1>2, <2>1, <2>2, <2>3, <2>4 DEF PluginStep
<1>3. CASE SaveStep \/ UNCHANGED vars
  <2>1. UNCHANGED <<mem, todo, command>>
    BY <1>3 DEF SaveStep, SaveProjectFile, SaveConfigurationFile, Saved, vars
  <2> QED
    BY <2>1 DEF ShapeInv, Shaped, HasBuildConfigurations
<1>4. CASE Exit \/ Killed
  <2>1. command' = NoCommand
    BY <1>4 DEF Exit, Killed, Kill, Quit
  <2> QED
    BY <2>1 DEF ShapeInv, NoCommand
<1>5. CASE NotSaved
  <2>1. todo' \in Seq(Removals)
    BY <1>5, EmptySeq DEF NotSaved, SaveFails, FailAs
  <2> QED
    BY <2>1 DEF ShapeInv, Shaped
<1> QED
  BY <1>1, <1>2, <1>3, <1>4, <1>5 DEF Next

LEMMA VariablesConfigureTask ==
  ASSUME TypeInv, ShapeInv, VariablesInv, ConfigureTask
  PROVE  VariablesInv'
<1> DEFINE task == Head(todo)
           plugin == BestMatching(task.id, task.version)
           list == GetProperty(mem, "core", task.config)
           core == (OrEmpty(list) \ ReplacedRecords(plugin)) \cup {Record(plugin, task.version)}
           withVars == WithVariables(mem, plugin, task.config)
<1>1. /\ pc' = "save" /\ todo' = Tail(todo) /\ UNCHANGED <<disk, started, command>> /\ todo # <<>>
      /\ task.do = "configure" /\ mem' = SetProperty(withVars, "core", core, task.config)
      /\ plugin \in Instances(task.id, task.version)
  BY BestMatchingIsInstance DEF ConfigureTask, TypeInv, CommandInv
<1> SUFFICES ASSUME command.name = "plugin"
             PROVE  VariablesInv'
  BY <1>1 DEF VariablesInv
<1>2. todo' \in Seq(Configures)
  <2>1. todo' = <<>> \/ \E t \in Configures : todo' = <<t>>
    BY <1>1, ShapedTail DEF ShapeInv, Configures
  <2>2. CASE todo' = <<>>
    BY <2>2, EmptySeq
  <2>3. ASSUME NEW t \in Configures, todo' = <<t>>
        PROVE  todo' \in Seq(Configures)
    BY <2>3
  <2> QED
    BY <2>1, <2>2, <2>3
<1>3. mem \in Files /\ task.config \in Configurations \cup {NoConfig}
  <2>1. task \in Tasks
    BY <1>1, HeadTailProperties DEF TypeInv, TypeOK
  <2> QED
    BY <2>1 DEF Tasks, TypeInv, TypeOK
<1>4. plugin.id \in Ids /\ Record(plugin, task.version) \in Records
      /\ Record(plugin, task.version) = Record(plugin, NoVersion)
      /\ plugin \in Elements(KnownPlugins)
  BY <1>1, RecordOfInstance, InstancesKnown
<1>5. core \in SUBSET Records
  BY <1>3, <1>4, GetPropertyType
<1>6. SameLists(mem, withVars) /\ withVars \in Files
  BY <1>3, <1>4, ListsWithVariables, WithVariablesType
<1>7. core # Undefined /\ OrEmpty(core) = core
  BY <1>5, DataTypes DEF OrEmpty
<1>8. /\ HasBuildConfigurations(mem') <=> HasBuildConfigurations(mem)
      /\ \A k \in Configurations : BesideIn(mem, k) \subseteq BesideIn(mem', k)
      /\ \A k \in Configurations :
           plugin.hasVars /\ (k = task.config \/ ~HasBuildConfigurations(mem)) => plugin.id \in BesideIn(mem', k)
  <2> HIDE DEF core, plugin, task
  <2>1. mem' = SetProperty(WithVariables(mem, plugin, task.config), "core", core, task.config)
    BY <1>1 DEF withVars
  <2>2. ASSUME NEW k \in Configurations
        PROVE  /\ HasBuildConfigurations(mem') <=> HasBuildConfigurations(mem)
               /\ BesideIn(mem, k) \subseteq BesideIn(mem', k)
               /\ plugin.hasVars /\ (k = task.config \/ ~HasBuildConfigurations(mem)) => plugin.id \in BesideIn(mem', k)
    BY <1>3, <1>4, <1>5, <2>1, VariablesWithPlugin
  <2> QED
    BY <2>2, ConfigurationsAssumption
<1>9. \A k \in Configurations :
        Enabled(mem', k) = IF k = task.config \/ ~HasBuildConfigurations(mem) THEN core ELSE Enabled(mem, k)
  <2> HIDE DEF core, withVars
  <2>1. CASE HasBuildConfigurations(mem)
    <3>1. HasBuildConfigurations(withVars)
      BY <1>6, <2>1 DEF SameLists
    <3>2. \A k \in Configurations : Enabled(mem', k) = IF k = task.config THEN core ELSE Enabled(withVars, k)
      BY <1>1, <1>5, <1>6, <3>1, ListSet
    <3> QED
      BY <1>6, <2>1, <3>2 DEF SameLists
  <2>2. CASE ~HasBuildConfigurations(mem)
    <3>1. ~HasBuildConfigurations(withVars)
      BY <1>6, <2>2 DEF SameLists
    <3>2. \A k \in Configurations : Enabled(mem', k) = core
      BY <1>1, <1>5, <1>6, <3>1, ListSet
    <3> QED
      BY <2>2, <3>2
  <2> QED
    BY <2>1, <2>2
<1>10. \A k \in Configurations : k = task.config \/ ~HasBuildConfigurations(mem) => list = Enabled(mem, k)
  BY DEF Enabled, GetProperty, HasBuildConfigurations
<1>11. ASSUME NEW k \in Configurations, NEW r \in OrEmpty(Enabled(mem', k)) \ OrEmpty(Enabled(started, k)),
              HasVariables(r)
       PROVE  r.id \in BesideIn(mem', k)
  <2>1. ASSUME r \in OrEmpty(Enabled(mem, k))
        PROVE  r.id \in BesideIn(mem', k)
    <3>1. r \in NewIn(mem, k)
      BY <1>11, <2>1 DEF NewIn
    <3>2. WithTheirVariables(mem)
      BY DEF VariablesInv
    <3>3. r.id \in BesideIn(mem, k)
      BY <1>11, <3>1, <3>2 DEF WithTheirVariables, VariablesBeside, BesideIn
    <3> QED
      BY <1>8, <3>3
  <2>2. ASSUME k = task.config \/ ~HasBuildConfigurations(mem), r = Record(plugin, task.version)
        PROVE  r.id \in BesideIn(mem', k)
    <3>1. r.id = plugin.id
      BY <2>2 DEF Record
    <3>2. PICK p \in Elements(KnownPlugins) : p.hasVars /\ Record(p, NoVersion) = r
      BY <1>11 DEF HasVariables
    <3>3. p = plugin
      BY <1>4, <2>2, <3>2, IdentifierAssumption
    <3> HIDE DEF plugin
    <3> QED
      BY <1>8, <2>2, <3>1, <3>2, <3>3
  <2>3. CASE k = task.config \/ ~HasBuildConfigurations(mem)
    <3>1. r \in core
      BY <1>7, <1>9, <1>11, <2>3
    <3>2. r \in OrEmpty(Enabled(mem, k)) \/ r = Record(plugin, task.version)
      BY <1>10, <2>3, <3>1
    <3> QED
      BY <2>1, <2>2, <2>3, <3>2
  <2>4. CASE ~ (k = task.config \/ ~HasBuildConfigurations(mem))
    BY <1>9, <1>11, <2>1, <2>4
  <2> QED
    BY <2>3, <2>4
<1>12. WithTheirVariables(mem)'
  BY <1>1, <1>11 DEF WithTheirVariables, NewIn, VariablesBeside, BesideIn, HasBuildConfigurations, Enabled, GetProperty
<1>13. WithTheirVariables(disk)'
  <2>1. WithTheirVariables(disk)
    BY DEF VariablesInv
  <2>2. \A k \in Configurations : VariablesBeside(disk, k)' = VariablesBeside(disk, k) /\ NewIn(disk, k)' = NewIn(disk, k)
    BY <1>1, <1>8 DEF VariablesBeside, HasBuildConfigurations, NewIn, Enabled, GetProperty
  <2> QED
    BY <2>1, <2>2 DEF WithTheirVariables
<1> QED
  BY <1>1, <1>2, <1>12, <1>13 DEF VariablesInv

LEMMA VariablesRemoveTask ==
  ASSUME TypeInv, VariablesInv, RemoveTask
  PROVE  VariablesInv'
<1> DEFINE task == Head(todo)
           core == GetProperty(mem, "core", task.config)
           record == Record(task.plugin, NoVersion)
           withoutVars == WithoutVariables(mem, task.plugin.id, task.config)
<1>1. /\ todo # <<>> /\ UNCHANGED <<disk, started, command>> /\ task.do = "remove" /\ core # Undefined
      /\ mem' = withoutVars \/ mem' = SetProperty(withoutVars, "core", core \ {record}, task.config)
  BY DEF RemoveTask, TypeInv, CommandInv
<1> SUFFICES ASSUME command.name = "plugin"
             PROVE  VariablesInv'
  BY <1>1 DEF VariablesInv
<1>2. todo \notin Seq(Configures)
  <2>1. ASSUME todo \in Seq(Configures) PROVE FALSE
    <3>1. task \in Configures
      BY <1>1, <2>1, HeadTailProperties
    <3> QED
      BY <1>1, <3>1 DEF Configures
  <2> QED
    BY <2>1
<1>3. NothingNew(mem) /\ NothingNew(disk)
  BY <1>2 DEF VariablesInv
<1>4. mem \in Files /\ core \in SUBSET Records /\ core \ {record} \in SUBSET Records
  BY <1>1, GetPropertyType DEF TypeInv, TypeOK
<1>5. SameLists(mem, withoutVars) /\ withoutVars \in Files
  BY <1>4, ListsWithoutVariables, WithoutVariablesType
<1>6. OrEmpty(core \ {record}) \subseteq OrEmpty(core)
  BY <1>4, DataTypes DEF OrEmpty
<1>7. \A k \in Configurations : k = task.config \/ ~HasBuildConfigurations(mem) => core = Enabled(mem, k)
  BY DEF Enabled, GetProperty, HasBuildConfigurations
<1> HIDE DEF core, withoutVars, record
<1>8. ASSUME NEW k \in Configurations
      PROVE  OrEmpty(Enabled(mem', k)) \subseteq OrEmpty(Enabled(mem, k))
  <2>1. CASE mem' = withoutVars
    BY <1>5, <2>1 DEF SameLists
  <2>2. CASE mem' = SetProperty(withoutVars, "core", core \ {record}, task.config)
    <3>1. Enabled(mem', k) = Enabled(mem, k)
          \/ ((k = task.config \/ ~HasBuildConfigurations(mem)) /\ Enabled(mem', k) = core \ {record})
      BY <1>4, <1>5, <2>2, ListSet DEF SameLists
    <3> QED
      BY <1>6, <1>7, <3>1
  <2> QED
    BY <1>1, <2>1, <2>2
<1>9. NothingNew(mem)'
  <2>1. \A k \in Configurations : OrEmpty(Enabled(mem', k)) \ OrEmpty(Enabled(started, k)) = {}
    BY <1>3, <1>8 DEF NothingNew, NewIn
  <2> QED
    BY <1>1, <2>1 DEF NothingNew, NewIn, Enabled, GetProperty
<1>10. NothingNew(disk)'
  BY <1>1, <1>3 DEF NothingNew, NewIn, Enabled, GetProperty
<1> QED
  BY <1>9, <1>10 DEF VariablesInv, NothingNew, WithTheirVariables


(* A write gives each configuration what it had in the file, or what it has *)
(* in memory, list and variables together.                                  *)
LEMMA SavedTogether ==
  ASSUME TypeInv, SaveStep, HasBuildConfigurations(mem) => mem.project.core = disk.project.core,
         NEW k \in Configurations
  PROVE  \/ Enabled(disk', k) = Enabled(disk, k) /\ VariablesBeside(disk', k) = VariablesBeside(disk, k)
         \/ Enabled(disk', k) = Enabled(mem, k) /\ VariablesBeside(disk', k) = VariablesBeside(mem, k)
<1>1. disk \in Files /\ (mem.config[k] = Missing => disk.config[k] = Missing)
  BY DEF TypeInv, TypeOK, InMemoryInv
<1>2. CASE SaveProjectFile
  <2>1. disk'.config = disk.config /\ disk'.project = mem.project
    BY <1>1, <1>2 DEF SaveProjectFile, Files
  <2>2. CASE HasBuildConfigurations(mem)
    BY <2>1, <2>2 DEF Enabled, GetProperty, VariablesBeside
  <2>3. CASE ~HasBuildConfigurations(mem)
    <3>1. mem.config[k] = Missing /\ disk.config[k] = Missing
      BY <1>1, <2>3 DEF HasBuildConfigurations
    <3> QED
      BY <2>1, <2>3, <3>1 DEF Enabled, GetProperty, VariablesBeside
  <2> QED
    BY <2>2, <2>3
<1>3. ASSUME NEW c \in toSave, SaveConfigurationFile(c)
      PROVE  \/ Enabled(disk', k) = Enabled(disk, k) /\ VariablesBeside(disk', k) = VariablesBeside(disk, k)
             \/ Enabled(disk', k) = Enabled(mem, k) /\ VariablesBeside(disk', k) = VariablesBeside(mem, k)
  <2>1. /\ disk'.project = disk.project
        /\ disk'.config[k] = disk.config[k] \/ (disk'.config[k] = mem.config[k] /\ mem.config[k] # Missing)
    BY <1>1, <1>3 DEF SaveConfigurationFile, Files
  <2>2. CASE disk'.config[k] = disk.config[k]
    BY <2>1, <2>2 DEF Enabled, GetProperty, VariablesBeside
  <2>3. CASE disk'.config[k] = mem.config[k] /\ mem.config[k] # Missing
    <3>1. HasBuildConfigurations(mem)
      BY <2>3 DEF HasBuildConfigurations
    <3> QED
      BY <2>1, <2>3, <3>1 DEF Enabled, GetProperty, VariablesBeside
  <2> QED
    BY <2>1, <2>2, <2>3
<1>4. CASE Saved
  BY <1>4 DEF Saved
<1> QED
  BY <1>2, <1>3, <1>4 DEF SaveStep

LEMMA VariablesSave ==
  ASSUME TypeInv, AskedInv, VariablesInv, SaveStep
  PROVE  VariablesInv'
<1>1. UNCHANGED <<mem, todo, started, command>> /\ pc' # "command"
  BY DEF SaveStep, SaveProjectFile, SaveConfigurationFile, Saved
<1> SUFFICES ASSUME command.name = "plugin"
             PROVE  VariablesInv'
  BY <1>1 DEF VariablesInv
<1>2. HasBuildConfigurations(mem) => mem.project.core = disk.project.core
  BY DEF AskedInv, OthersKeptIn
<1>3. \A k \in Configurations :
        \/ Enabled(disk', k) = Enabled(disk, k) /\ VariablesBeside(disk', k) = VariablesBeside(disk, k)
        \/ Enabled(disk', k) = Enabled(mem, k) /\ VariablesBeside(disk', k) = VariablesBeside(mem, k)
  BY <1>2, SavedTogether
<1>4. WithTheirVariables(mem) /\ WithTheirVariables(disk)
  BY DEF VariablesInv
<1>5. \A k \in Configurations :
        /\ NewIn(mem, k)' = NewIn(mem, k) /\ VariablesBeside(mem, k)' = VariablesBeside(mem, k)
        /\ NewIn(disk, k)' = OrEmpty(Enabled(disk', k)) \ OrEmpty(Enabled(started, k))
        /\ VariablesBeside(disk, k)' = VariablesBeside(disk', k)
  BY <1>1 DEF NewIn, VariablesBeside, Enabled, GetProperty, HasBuildConfigurations
<1>6. WithTheirVariables(mem)'
  BY <1>4, <1>5 DEF WithTheirVariables
<1>7. WithTheirVariables(disk)'
  <2> SUFFICES ASSUME NEW k \in Configurations, NEW r \in NewIn(disk, k)', HasVariables(r)
               PROVE  r.id \in VariablesBeside(disk, k)'
    BY DEF WithTheirVariables, HasVariables
  <2>1. r \in OrEmpty(Enabled(disk', k)) /\ r \notin OrEmpty(Enabled(started, k))
    BY <1>5
  <2>2. CASE Enabled(disk', k) = Enabled(disk, k) /\ VariablesBeside(disk', k) = VariablesBeside(disk, k)
    <3>1. r \in NewIn(disk, k)
      BY <2>1, <2>2 DEF NewIn
    <3> QED
      BY <1>4, <1>5, <2>2, <3>1 DEF WithTheirVariables
  <2>3. CASE Enabled(disk', k) = Enabled(mem, k) /\ VariablesBeside(disk', k) = VariablesBeside(mem, k)
    <3>1. r \in NewIn(mem, k)
      BY <2>1, <2>3 DEF NewIn
    <3> QED
      BY <1>4, <1>5, <2>3, <3>1 DEF WithTheirVariables
  <2> QED
    BY <1>3, <2>2, <2>3
<1>8. ASSUME todo' \notin Seq(Configures)
      PROVE  NothingNew(mem)' /\ NothingNew(disk)'
  <2>1. NothingNew(mem) /\ NothingNew(disk)
    BY <1>1, <1>8 DEF VariablesInv
  <2> QED
    BY <1>3, <1>5, <2>1 DEF NothingNew, NewIn
<1> QED
  BY <1>1, <1>6, <1>7, <1>8 DEF VariablesInv

LEMMA VariablesUnchanged ==
  ASSUME VariablesInv, UNCHANGED <<disk, mem, started, command>>,
         todo' \in Seq(Configures) \/ pc = "command" \/ todo' = todo, pc' # "command" \/ pc' = pc
  PROVE  VariablesInv'
BY ZenonT(40) DEF VariablesInv, WithTheirVariables, NothingNew, NewIn, VariablesBeside, HasBuildConfigurations, Enabled,
       GetProperty, HasVariables

LEMMA VariablesNext ==
  ASSUME TypeInv, AskedInv, ShapeInv, VariablesInv, [Next]_vars
  PROVE  VariablesInv'
<1>1. CASE PropStep
  <2>1. command'.name = "prop"
    BY <1>1 DEF PropStep, PropStart, PropUpdate, PropFails, Fail, FailAs, TypeInv, CommandInv
  <2> QED
    BY <2>1 DEF VariablesInv
<1>2. CASE PluginStep
  <2>1. ASSUME NEW do \in PluginCommands, NEW id \in Ids, NEW opts \in SUBSET {Debug, Release},
               NEW version \in IF do = "add" THEN VersionsOf(id) \cup {NoVersion} ELSE {NoVersion},
               PluginStart(do, id, version, opts)
        PROVE  VariablesInv'
    BY <2>1, VariablesStart DEF PluginStart
  <2>2. CASE \/ AddOfInstalledCorePlugin \/ AddNewPlugin
             \/ ModifyBoth \/ ModifyVersion \/ ModifyAsAsked
             \/ ConfigurePlugin \/ RemovePlugin
    <3>1. pc = "command" /\ \E tasks : Decide(tasks)
      BY <2>2, CommandsDecide
    <3>2. UNCHANGED <<disk, mem, started, command>> /\ pc' # "command"
      BY <3>1 DEF Decide
    <3> QED
      BY <3>1, <3>2, VariablesUnchanged
  <2>3. CASE ConfigureTask
    BY <2>3, VariablesConfigureTask
  <2>4. CASE RemoveTask
    BY <2>4, VariablesRemoveTask
  <2>5. CASE PluginFails
    <3>1. UNCHANGED <<disk, mem, started, command>> /\ pc' = "done" /\ todo' = <<>>
      BY <2>5 DEF PluginFails, Fail, FailAs
    <3>2. todo' \in Seq(Configures)
      BY <3>1, EmptySeq
    <3> QED
      BY <3>1, <3>2, VariablesUnchanged
  <2> QED
    BY <1>2, <2>1, <2>2, <2>3, <2>4, <2>5 DEF PluginStep
<1>3. CASE SaveStep
  BY <1>3, VariablesSave
<1>4. CASE Exit \/ Killed
  <2>1. command' = NoCommand
    BY <1>4 DEF Exit, Killed, Kill, Quit
  <2> QED
    BY <2>1 DEF VariablesInv, NoCommand
<1>5. CASE UNCHANGED vars
  BY <1>5, VariablesUnchanged DEF vars
<1>6. CASE NotSaved
  <2>1. UNCHANGED <<disk, mem, started, command>> /\ pc' = "done" /\ todo' = <<>>
    BY <1>6 DEF NotSaved, SaveFails, FailAs
  <2>2. todo' \in Seq(Configures)
    BY <2>1, EmptySeq
  <2> QED
    BY <2>1, <2>2, VariablesUnchanged
<1> QED
  BY <1>1, <1>2, <1>3, <1>4, <1>5, <1>6 DEF Next

(* A plugin with variables is never enabled without them, wherever the      *)
(* command that enables it fails or is killed: configurePluginCore sets the *)
(* variables before the list, where the list is, and both are written in    *)
(* one file; and no task that follows it removes a plugin.                 *)
THEOREM NeverWithoutVariables == Spec => []VariablesComeWithPlugin
<1> DEFINE Inv == TypeInv /\ AskedInv /\ ShapeInv /\ VariablesInv
<1>1. Init => Inv
  BY TypeInit DEF Init, InitFiles, AskedInv, NothingLeftInv, ShapeInv, VariablesInv, NoCommand
<1>2. Inv /\ [Next]_vars => Inv'
  BY TypeNext, AskedNext, ShapeNext, VariablesNext
<1>3. Inv => VariablesComeWithPlugin
  <2> SUFFICES ASSUME TypeInv, VariablesInv, command.name = "plugin", NEW c \in Configurations,
                      NEW r \in OrEmpty(Enabled(disk, c)) \ OrEmpty(Enabled(started, c)), HasVariables(r)
               PROVE  r.id \in OrEmpty(GetProperty(disk, "vars", c))
    BY DEF VariablesComeWithPlugin
  <2>1. r.id \in VariablesBeside(disk, c)
    BY DEF VariablesInv, WithTheirVariables, NewIn
  <2>2. CASE HasBuildConfigurations(mem)
    BY <2>1, <2>2 DEF VariablesBeside, GetProperty, OrEmpty
  <2>3. CASE ~HasBuildConfigurations(mem)
    <3>1. disk.config[c] = Missing
      BY <2>3 DEF HasBuildConfigurations, TypeInv, InMemoryInv
    <3> QED
      BY <2>1, <2>3, <3>1 DEF VariablesBeside, GetProperty
  <2> QED
    BY <2>2, <2>3
<1> QED
  BY <1>1, <1>2, <1>3, PTL DEF Spec


--------------------------------------------------------------------------
(* That a configuration has the plugins it had, or those the command gave   *)
(* it.  A command writes after every task, so this holds because of all the *)
(* tasks at most one changes a configuration: of the plugins of a family a  *)
(* list has one.                                                           *)
Touches(task, c) == task.config = c \/ ~HasBuildConfigurations(mem)

NoneOfFamily(list) == \A r \in OrEmpty(list) : r.id \notin Family(command.id)

LeftAlone(c) ==
  \/ todo = <<>>
  \/ \E t \in Tasks : todo = <<t>> /\ t.config # c /\ HasBuildConfigurations(mem)

OldOrNewInv ==
  command.name = "plugin" =>
    \A c \in Configurations :
      /\ Enabled(disk, c) \in {Enabled(started, c), Enabled(mem, c)}
      /\ \/ Enabled(mem, c) = Enabled(started, c)
         \/ pc # "command" /\ NoneOfFamily(Enabled(mem, c)) /\ todo \in Seq(Removals)
         \/ pc # "command" /\ LeftAlone(c)

LEMMA OneOfFamily ==
  ASSUME PluginsOfFramework, NEW id \in Ids, NEW list \in SUBSET Records, Coherent(list),
         NEW r \in list, NEW q \in list, r.id \in Family(id), q.id \in Family(id)
  PROVE  r = q
<1>1. /\ r.id = q.id => r.version = q.version
      /\ ~Beside(r, q) /\ ~Beside(q, r)
  BY CoherentOfSet
<1>2. /\ r = [id |-> r.id, version |-> r.version] /\ q = [id |-> q.id, version |-> q.version]
      /\ r.id \in Ids /\ q.id \in Ids
  BY KnownPluginsAssumption DEF PluginsOfFramework, Record
<1>3. ASSUME r.id # q.id
      PROVE  FALSE
  <2> DEFINE by == ObsoletedBy[id]
             old == Obsoleting(id)
  <2>1. old # NoId => old \in Ids /\ ObsoletedBy[old] = id /\ by = NoId
    BY ObsoletingIds, ObsoletedByAssumption, ReplacingAssumption
  <2>2. id # NoId
    BY ObsoletedByAssumption
  <2>3. r.id \in {id, by, old} \ {NoId} /\ q.id \in {id, by, old} \ {NoId}
    BY DEF Family
  <2> HIDE DEF by, old
  <2>4. CASE by # NoId
    <3>1. {r.id, q.id} = {id, by}
      BY <1>3, <2>1, <2>3, <2>4
    <3> QED
      BY <1>1, <1>2, <1>3, <2>4, <3>1 DEF Beside, by
  <2>5. CASE by = NoId
    <3>1. {r.id, q.id} = {id, old} /\ old # NoId
      BY <1>3, <2>3, <2>5
    <3> QED
      BY <1>1, <1>2, <1>3, <2>1, <2>2, <3>1 DEF Beside
  <2> QED
    BY <2>4, <2>5
<1> QED
  BY <1>1, <1>2, <1>3

LEMMA OldOrNewConfigureTask ==
  ASSUME TypeInv, ShapeInv, OldOrNewInv, ConfigureTask
  PROVE  OldOrNewInv'
<1> DEFINE task == Head(todo)
           plugin == BestMatching(task.id, task.version)
           list == GetProperty(mem, "core", task.config)
           core == (OrEmpty(list) \ ReplacedRecords(plugin)) \cup {Record(plugin, task.version)}
           withVars == WithVariables(mem, plugin, task.config)
<1>1. /\ pc' = "save" /\ todo' = Tail(todo) /\ UNCHANGED <<disk, started, command>> /\ todo # <<>>
      /\ task.do = "configure" /\ mem' = SetProperty(withVars, "core", core, task.config)
      /\ plugin \in Instances(task.id, task.version)
  BY BestMatchingIsInstance DEF ConfigureTask, TypeInv, CommandInv
<1> SUFFICES ASSUME command.name = "plugin"
             PROVE  OldOrNewInv'
  BY <1>1 DEF OldOrNewInv
<1>2. mem \in Files
  BY DEF TypeInv, TypeOK
<1>3. plugin.id \in Ids /\ Record(plugin, task.version) \in Records
  BY <1>1, RecordOfInstance
<1>4. core \in SUBSET Records
  BY <1>2, <1>3, GetPropertyType
<1>5. SameLists(mem, withVars) /\ withVars \in Files
  BY <1>2, <1>3, ListsWithVariables, WithVariablesType
<1> HIDE DEF core, withVars, plugin
<1>6. /\ HasBuildConfigurations(mem') <=> HasBuildConfigurations(mem)
      /\ \A k \in Configurations : ~Touches(task, k) => Enabled(mem', k) = Enabled(mem, k)
  BY <1>1, <1>4, <1>5, ListSet DEF SameLists, Touches
<1>7. \/ Tail(todo) = <<>>
      \/ \E t \in Tasks : /\ Tail(todo) = <<t>> /\ t.do = "configure" /\ t.config # task.config
                          /\ HasBuildConfigurations(mem)
  BY <1>1, ShapedTail DEF ShapeInv
<1>8. todo \notin Seq(Removals)
  <2>1. ASSUME todo \in Seq(Removals) PROVE FALSE
    <3>1. task \in Removals
      BY <1>1, <2>1, HeadTailProperties
    <3> QED
      BY <1>1, <3>1 DEF Removals
  <2> QED
    BY <2>1
<1>9. ASSUME NEW k \in Configurations
      PROVE  /\ Enabled(disk, k) \in {Enabled(started, k), Enabled(mem', k)}
             /\ Enabled(mem', k) = Enabled(started, k) \/ LeftAlone(k)'
  <2>1. CASE Touches(task, k)
    <3>1. ~LeftAlone(k)
      BY <1>1, <2>1 DEF LeftAlone, Touches
    <3>2. Enabled(mem, k) = Enabled(started, k)
      BY <1>8, <3>1 DEF OldOrNewInv
    <3>3. Enabled(disk, k) = Enabled(started, k)
      BY <3>2 DEF OldOrNewInv
    <3>4. LeftAlone(k)'
      BY <1>1, <1>6, <1>7, <2>1 DEF LeftAlone, Touches, HasBuildConfigurations
    <3> QED
      BY <3>3, <3>4
  <2>2. CASE ~Touches(task, k)
    <3>1. Enabled(mem', k) = Enabled(mem, k)
      BY <1>6, <2>2
    <3>2. ASSUME LeftAlone(k)
          PROVE  LeftAlone(k)'
      <4>1. PICK t \in Tasks : todo = <<t>>
        BY <1>1, <3>2 DEF LeftAlone
      <4>2. todo' = <<>>
        BY <1>1, <4>1
      <4> QED
        BY <4>2 DEF LeftAlone
    <3> QED
      BY <1>8, <3>1, <3>2 DEF OldOrNewInv
  <2> QED
    BY <2>1, <2>2
<1>10. \A k \in Configurations :
         /\ Enabled(disk, k)' = Enabled(disk, k) /\ Enabled(started, k)' = Enabled(started, k)
         /\ Enabled(mem, k)' = Enabled(mem', k)
  BY <1>1 DEF Enabled, GetProperty
<1> QED
  BY <1>1, <1>9, <1>10 DEF OldOrNewInv

LEMMA OldOrNewRemoveTask ==
  ASSUME PluginsOfFramework, TypeInv, CoherentInv, AskedInv, ShapeInv, OldOrNewInv, RemoveTask
  PROVE  OldOrNewInv'
<1> DEFINE task == Head(todo)
           core == GetProperty(mem, "core", task.config)
           record == Record(task.plugin, NoVersion)
           withoutVars == WithoutVariables(mem, task.plugin.id, task.config)
<1>1. /\ pc = "task" /\ pc' # "command" /\ todo' = Tail(todo) /\ UNCHANGED <<disk, started, command>> /\ todo # <<>>
      /\ task.do = "remove" /\ task.plugin # Undefined /\ core # Undefined
      /\ mem' = withoutVars \/ (record \in core /\ mem' = SetProperty(withoutVars, "core", core \ {record}, task.config))
  BY DEF RemoveTask, TypeInv, CommandInv
<1> SUFFICES ASSUME command.name = "plugin"
             PROVE  OldOrNewInv'
  BY <1>1 DEF OldOrNewInv
<1>2. mem \in Files /\ command.id \in Ids /\ AskedTask(task) /\ task \in Tasks
  BY <1>1, AskedTail, PluginCommandType DEF TypeInv, TypeOK
<1>3. record.id \in Family(command.id)
  BY <1>1, <1>2 DEF AskedTask, Record
<1>4. core \in SUBSET Records /\ core \ {record} \in SUBSET Records /\ Coherent(core)
  BY <1>1, <1>2, GetPropertyType, CoherentProperty DEF CoherentInv
<1>5. SameLists(mem, withoutVars) /\ withoutVars \in Files
  BY <1>2, ListsWithoutVariables, WithoutVariablesType
<1>6. \A k \in Configurations : Touches(task, k) => core = Enabled(mem, k)
  BY DEF Enabled, GetProperty, HasBuildConfigurations, Touches
<1>7. record \in core => NoneOfFamily(core \ {record})
  <2>1. core \ {record} # Undefined
    BY <1>4, DataTypes
  <2>2. \A r \in core : record \in core /\ r.id \in Family(command.id) => r = record
    BY <1>2, <1>3, <1>4, OneOfFamily
  <2> QED
    BY <2>1, <2>2 DEF NoneOfFamily, OrEmpty
<1>8. record \in core => ~NoneOfFamily(core)
  BY <1>1, <1>3 DEF NoneOfFamily, OrEmpty
<1> HIDE DEF core, withoutVars, record
<1>9. /\ HasBuildConfigurations(mem') <=> HasBuildConfigurations(mem)
      /\ \A k \in Configurations :
           \/ Enabled(mem', k) = Enabled(mem, k)
           \/ Touches(task, k) /\ record \in core /\ Enabled(mem', k) = core \ {record}
  <2>1. CASE mem' = withoutVars
    BY <1>5, <2>1 DEF SameLists
  <2>2. CASE record \in core /\ mem' = SetProperty(withoutVars, "core", core \ {record}, task.config)
    BY <1>4, <1>5, <2>2, ListSet DEF SameLists, Touches
  <2> QED
    BY <1>1, <2>1, <2>2
<1>10. todo \in Seq(Removals) => Tail(todo) \in Seq(Removals)
  BY <1>1, HeadTailProperties
<1>11. \/ todo \in Seq(Removals)
       \/ Tail(todo) = <<>>
       \/ \E t \in Tasks : /\ Tail(todo) = <<t>> /\ t.do = "configure" /\ t.config # task.config
                           /\ HasBuildConfigurations(mem)
  BY <1>1, ShapedTail DEF ShapeInv
<1>12. ASSUME NEW k \in Configurations
       PROVE  /\ Enabled(disk, k) \in {Enabled(started, k), Enabled(mem', k)}
              /\ \/ Enabled(mem', k) = Enabled(started, k)
                 \/ NoneOfFamily(Enabled(mem', k)) /\ todo' \in Seq(Removals)
                 \/ LeftAlone(k)'
  <2>1. CASE Enabled(mem', k) = Enabled(mem, k)
    <3>1. ASSUME LeftAlone(k)
          PROVE  LeftAlone(k)'
      <4>1. PICK t \in Tasks : todo = <<t>>
        BY <1>1, <3>1 DEF LeftAlone
      <4>2. todo' = <<>>
        BY <1>1, <4>1
      <4> QED
        BY <4>2 DEF LeftAlone
    <3> QED
      BY <1>1, <1>10, <2>1, <3>1 DEF OldOrNewInv
  <2>2. CASE Touches(task, k) /\ record \in core /\ Enabled(mem', k) = core \ {record}
    <3>1. ~NoneOfFamily(Enabled(mem, k))
      BY <1>6, <1>8, <2>2
    <3>2. ~LeftAlone(k)
      BY <1>1, <2>2 DEF LeftAlone, Touches
    <3>3. Enabled(mem, k) = Enabled(started, k)
      BY <3>1, <3>2 DEF OldOrNewInv
    <3>4. Enabled(disk, k) = Enabled(started, k)
      BY <3>3 DEF OldOrNewInv
    <3>5. CASE todo \in Seq(Removals)
      BY <1>1, <1>7, <1>10, <2>2, <3>4, <3>5
    <3>6. CASE Tail(todo) = <<>> \/ \E t \in Tasks : /\ Tail(todo) = <<t>> /\ t.do = "configure" /\ t.config # task.config
                                                     /\ HasBuildConfigurations(mem)
      <4>1. LeftAlone(k)'
        BY <1>1, <1>9, <2>2, <3>6 DEF LeftAlone, Touches, HasBuildConfigurations
      <4> QED
        BY <3>4, <4>1
    <3> QED
      BY <1>11, <3>5, <3>6
  <2> QED
    BY <1>9, <2>1, <2>2
<1>13. \A k \in Configurations :
         /\ Enabled(disk, k)' = Enabled(disk, k) /\ Enabled(started, k)' = Enabled(started, k)
         /\ Enabled(mem, k)' = Enabled(mem', k) /\ NoneOfFamily(Enabled(mem, k))' = NoneOfFamily(Enabled(mem', k))
  BY <1>1 DEF Enabled, GetProperty, NoneOfFamily
<1> QED
  BY <1>1, <1>12, <1>13 DEF OldOrNewInv


LEMMA OldOrNewSave ==
  ASSUME TypeInv, AskedInv, OldOrNewInv, SaveStep
  PROVE  OldOrNewInv'
<1>1. /\ pc \in {"save", "saveConfigurations"} /\ pc' # "command"
      /\ UNCHANGED <<mem, todo, started, command>>
  BY DEF SaveStep, SaveProjectFile, SaveConfigurationFile, Saved
<1> SUFFICES ASSUME command.name = "plugin"
             PROVE  OldOrNewInv'
  BY <1>1 DEF OldOrNewInv
<1>2. HasBuildConfigurations(mem) => mem.project.core = disk.project.core
  BY DEF AskedInv, OthersKeptIn
<1>3. \A k \in Configurations : Enabled(disk', k) \in {Enabled(disk, k), Enabled(mem, k)}
  BY <1>2, SavedTogether
<1>4. \A k \in Configurations :
        /\ Enabled(disk, k)' = Enabled(disk', k) /\ Enabled(mem, k)' = Enabled(mem, k)
        /\ Enabled(started, k)' = Enabled(started, k) /\ LeftAlone(k)' = LeftAlone(k)
        /\ NoneOfFamily(Enabled(mem, k))' = NoneOfFamily(Enabled(mem, k))
  BY <1>1 DEF Enabled, GetProperty, LeftAlone, HasBuildConfigurations, NoneOfFamily
<1> QED
  BY <1>1, <1>3, <1>4 DEF OldOrNewInv

(* Nothing is written and the lists in memory are as they were. *)
LEMMA OldOrNewUnchanged ==
  ASSUME OldOrNewInv, UNCHANGED <<disk, mem, started, command>>,
         pc = "command" \/ todo' = todo \/ todo' = <<>>, pc' # "command" \/ pc' = pc
  PROVE  OldOrNewInv'
<1> SUFFICES ASSUME command.name = "plugin"
             PROVE  OldOrNewInv'
  BY DEF OldOrNewInv
<1>1. ASSUME NEW k \in Configurations
      PROVE  /\ Enabled(disk, k)' = Enabled(disk, k) /\ Enabled(mem, k)' = Enabled(mem, k)
             /\ Enabled(started, k)' = Enabled(started, k)
             /\ NoneOfFamily(Enabled(mem, k))' = NoneOfFamily(Enabled(mem, k))
             /\ todo' = todo => LeftAlone(k)' = LeftAlone(k)
             /\ todo' = <<>> => LeftAlone(k)'
  BY DEF Enabled, GetProperty, LeftAlone, HasBuildConfigurations, NoneOfFamily
<1>2. ASSUME NEW k \in Configurations
      PROVE  /\ Enabled(disk, k) \in {Enabled(started, k), Enabled(mem, k)}
             /\ \/ Enabled(mem, k) = Enabled(started, k)
                \/ pc # "command" /\ NoneOfFamily(Enabled(mem, k)) /\ todo \in Seq(Removals)
                \/ pc # "command" /\ LeftAlone(k)
  BY DEF OldOrNewInv
<1>3. (todo \in Seq(Removals))' = (todo' \in Seq(Removals))
  BY DEF Removals
<1>4. ASSUME NEW k \in Configurations
      PROVE  \/ Enabled(mem, k) = Enabled(started, k)
             \/ pc' # "command" /\ NoneOfFamily(Enabled(mem, k)) /\ todo' \in Seq(Removals)
             \/ pc' # "command" /\ LeftAlone(k)'
  <2>1. CASE pc = "command"
    BY <1>2, <2>1
  <2>2. CASE pc # "command" /\ todo' = todo
    BY <1>1, <1>2, <2>2
  <2>3. CASE pc # "command" /\ todo' = <<>>
    BY <1>1, <2>3
  <2> QED
    BY <2>1, <2>2, <2>3
<1> QED
  BY <1>1, <1>2, <1>3, <1>4 DEF OldOrNewInv

LEMMA OldOrNewNext ==
  ASSUME PluginsOfFramework, TypeInv, CoherentInv, AskedInv, ShapeInv, OldOrNewInv, [Next]_vars
  PROVE  OldOrNewInv'
<1>1. CASE PropStep
  <2>1. command'.name = "prop"
    BY <1>1 DEF PropStep, PropStart, PropUpdate, PropFails, Fail, FailAs, TypeInv, CommandInv
  <2> QED
    BY <2>1 DEF OldOrNewInv
<1>2. CASE PluginStep
  <2>1. ASSUME NEW do \in PluginCommands, NEW id \in Ids, NEW opts \in SUBSET {Debug, Release},
               NEW version \in IF do = "add" THEN VersionsOf(id) \cup {NoVersion} ELSE {NoVersion},
               PluginStart(do, id, version, opts)
        PROVE  OldOrNewInv'
    <3>1. /\ started' = disk /\ disk' = mem'
          /\ \A c \in Configurations : Enabled(mem', c) = Enabled(disk, c)
      BY <2>1, ReadSameLists DEF PluginStart
    <3>2. \A c \in Configurations : /\ Enabled(disk, c)' = Enabled(mem', c) /\ Enabled(mem, c)' = Enabled(mem', c)
                                    /\ Enabled(started, c)' = Enabled(disk, c)
      BY <3>1 DEF Enabled, GetProperty
    <3> QED
      BY <3>1, <3>2 DEF OldOrNewInv
  <2>2. CASE \/ AddOfInstalledCorePlugin \/ AddNewPlugin
             \/ ModifyBoth \/ ModifyVersion \/ ModifyAsAsked
             \/ ConfigurePlugin \/ RemovePlugin
    <3>1. pc = "command" /\ \E tasks : Decide(tasks)
      BY <2>2, CommandsDecide
    <3>2. UNCHANGED <<disk, mem, started, command>> /\ pc' # "command"
      BY <3>1 DEF Decide
    <3> QED
      BY <3>1, <3>2, OldOrNewUnchanged
  <2>3. CASE ConfigureTask
    BY <2>3, OldOrNewConfigureTask
  <2>4. CASE RemoveTask
    BY <2>4, OldOrNewRemoveTask
  <2>5. CASE PluginFails
    <3>1. UNCHANGED <<disk, mem, started, command>> /\ pc' = "done" /\ todo' = <<>>
      BY <2>5 DEF PluginFails, Fail, FailAs
    <3> QED
      BY <3>1, OldOrNewUnchanged
  <2> QED
    BY <1>2, <2>1, <2>2, <2>3, <2>4, <2>5 DEF PluginStep
<1>3. CASE SaveStep
  BY <1>3, OldOrNewSave
<1>4. CASE Exit \/ Killed
  <2>1. command' = NoCommand
    BY <1>4 DEF Exit, Killed, Kill, Quit
  <2> QED
    BY <2>1 DEF OldOrNewInv, NoCommand
<1>5. CASE UNCHANGED vars
  BY <1>5, OldOrNewUnchanged DEF vars
<1>6. CASE NotSaved
  <2>1. UNCHANGED <<disk, mem, started, command>> /\ pc' = "done" /\ todo' = <<>>
    BY <1>6 DEF NotSaved, SaveFails, FailAs
  <2> QED
    BY <2>1, OldOrNewUnchanged
<1> QED
  BY <1>1, <1>2, <1>3, <1>4, <1>5, <1>6 DEF Next

(* A plugin command that fails or is killed, between any two of its tasks   *)
(* and of the files it writes, leaves each configuration with the plugins   *)
(* it had, or with those the command has given it in memory.               *)
THEOREM OldListsOrNew == PluginsOfFramework => (Spec => []OldOrNew)
<1> SUFFICES ASSUME PluginsOfFramework
             PROVE  Spec => []OldOrNew
  OBVIOUS
<1> DEFINE Inv == TypeInv /\ CoherentInv /\ AskedInv /\ ShapeInv /\ OldOrNewInv
<1>1. Init => Inv
  BY TypeInit, CoherentInit DEF Init, InitFiles, AskedInv, NothingLeftInv, ShapeInv, OldOrNewInv, NoCommand
<1>2. Inv /\ [Next]_vars => Inv'
  BY TypeNext, CoherentNext, AskedNext, ShapeNext, OldOrNewNext
<1>3. Inv => OldOrNew
  BY DEF OldOrNewInv, OldOrNew
<1> QED
  BY <1>1, <1>2, <1>3, PTL DEF Spec
===========================================================================
