------------------------ MODULE IonicTransformation ------------------------
(***************************************************************************)
(* An Ionic project made an AppBuilder project, the last part of init      *)
(* (lib/ionic-project-transformator.ts): a backup if the user wants one,   *)
(* a rerouting index.html, the resources and config.xml of each platform   *)
(* cloned to App_Resources, and the files of Ionic deleted.  Nothing is    *)
(* undone when a step fails.                                               *)
(*                                                                         *)
(* config.xml is parsed once and every platform's own is made in place:    *)
(* they share one widget, whose platform is overwritten by each.           *)
(***************************************************************************)
EXTENDS ProjectDirectory

CONSTANTS
  PlatformNames,    \* android, ios and wp8
  Resources,        \* Paths |-> [platform, folder, name, ext] for those in resources/<platform>/<sort> (bound: none is deeper)
  ConfigXmls,       \* what config.xml may name: sequences of [name, icon, splash]
  PartOf,           \* <<name, screen>>: the src that config.xml has for the screen contains the name
  CorePlugins,      \* directories of the plugins a new project has
  ResourceTypes, ScreenSizes, XmlResourceTypes, LayoutSizes, Orientations

ASSUME ResourcesAssumption ==
  /\ PlatformNames \subseteq {"android", "ios", "wp8"} /\ IsFiniteSet(DOMAIN Resources)
  /\ DOMAIN Resources \subseteq In("resources") /\ \A path \in DOMAIN Resources : Resources[path].platform \in PlatformNames
  /\ \A path \in DOMAIN Resources : <<Resources[path].name, Resources[path].name>> \in PartOf
ASSUME TopAssumption ==
  /\ CorePlugins \subseteq In("plugins") /\ NoDirectory \notin {"hooks", "resources", "plugins"}
  /\ \A path \in {".abproject", ".abignore", "cordova.js", "index.html"} : DirectoryOf[path] = NoDirectory
ASSUME ConfigXmlsAssumption ==
  /\ ConfigXmls \subseteq Seq(UNION {Range(config) : config \in ConfigXmls})
  /\ \A config \in ConfigXmls : \A i \in DOMAIN config :
       /\ config[i].name \in PlatformNames
       /\ config[i] = [name |-> config[i].name, icon |-> config[i].icon, splash |-> config[i].splash]
       /\ \A r \in config[i].icon \cup config[i].splash : r = [folder |-> r.folder, name |-> r.name, ext |-> r.ext]

VARIABLES
  backup,         \* the files of Ionic_Backup, Absent those it has not
  ignored,        \* whether .abignore names Ionic_Backup
  configXml,      \* the platforms of config.xml
  widget,         \* those of the widget in memory
  configs,        \* per platform, what the config.xml in App_Resources names
  appResources    \* per platform, the files in App_Resources

ionicVars == <<backup, ignored, configXml, widget, configs, appResources>>
cloneVars == <<widget, configs, appResources>>

NoConfig == [made |-> FALSE, icon |-> {}, splash |-> {}]
NoBackup == [path \in Paths |-> Absent]

IonicInit ==
  /\ backup = NoBackup
  /\ ignored = FALSE
  /\ configXml \in IF Has("ionic.project") THEN ConfigXmls ELSE {<<>>}
  /\ widget = configXml
  /\ configs = [p \in PlatformNames |-> NoConfig]
  /\ appResources = [p \in PlatformNames |-> {}]

BackupFile(resource) == [folder |-> resource.folder, name |-> resource.name, ext |-> resource.ext]
FilesOf(platform) == {path \in DOMAIN Resources : Has(path) /\ Resources[path].platform = platform}

--------------------------------------------------------------------------
(* isAppBuilderProjectFile *)
ProjectFiles == {".abproject", ".abignore", "cordova.js"}

(* As if only what is at the top of the project were copied. *)
BackedUpAtTop == {path \in Existing \ ProjectFiles : DirectoryOf[path] = NoDirectory}

BackedUp == Existing \ ProjectFiles

(* backupCurrentProject: the backup of an earlier init is deleted first.    *)
(* fs throws, shelljs.cp does not: a directory it cannot copy is only       *)
(* missing.                                                                *)
Backup ==
  /\ pc = "backup"
  /\ \/ \E kept \in {Existing, {}} :       \* fails, deleting or copying
          /\ End("failed")
          /\ backup' \in {[path \in Paths |-> IF path \in kept THEN backup[path] ELSE Absent], NoBackup}
     \/ \E missed \in {NoDirectory, "resources", "plugins"} :
          LET copied == BackedUp \ (IF missed = NoDirectory THEN {} ELSE In(missed))
          IN /\ backup' = [path \in Paths |-> IF path \in copied THEN project[path] ELSE Absent]
             /\ task' = [task EXCEPT !.silent = BackedUp \ copied]
             /\ pc' = "ignore"
             /\ UNCHANGED <<outcome, before, commands>>
  /\ UNCHANGED <<project, ignored, configXml>> /\ UNCHANGED cloneVars

(* addIonicBackupFolderToAbIgnoreFile appends to the file the template had. *)
Ignore ==
  /\ pc = "ignore"
  /\ \/ End("failed") /\ UNCHANGED ignored
     \/ Goto("index") /\ ignored' = TRUE
  /\ UNCHANGED <<project, backup, configXml>> /\ UNCHANGED cloneVars

CreateReroutingIndexHtml ==
  /\ pc = "index"
  /\ \/ End("failed") /\ UNCHANGED project
     \/ Goto("config") /\ project' = Put({"index.html"}, Cli)
  /\ UNCHANGED ionicVars

--------------------------------------------------------------------------
(* mergeFolderNames *)
MergeFolderNames(types, sizes) ==
  {[type |-> t, orientation |-> o, size |-> s] : t \in types, o \in Orientations, s \in sizes}

SupportedScreens == MergeFolderNames(ResourceTypes, ScreenSizes) \cup MergeFolderNames(XmlResourceTypes, LayoutSizes)

(* createNewResourceItem: what a platform's own config.xml calls a          *)
(* resource.  Windows Phone 8 has .jpg splash screens only.                *)
NewResourceItem(platform, sort, resource) ==
  [resource EXCEPT !.ext = IF platform = "wp8" /\ sort = "splash" /\ @ = "png" THEN "jpg" ELSE @]

(* As if a clone kept the names of Ionic. *)
ClonedAsItIs(entry) == entry

(* cloneConfigXmlCore *)
Cloned(entry) ==
  [entry EXCEPT !.icon = {NewResourceItem(entry.name, "icon", r) : r \in @},
                !.splash = {NewResourceItem(entry.name, "splash", r) : r \in @}]

(* cloneConfigXml: one file per platform, and in the shared widget the last *)
(* of them is left.                                                        *)
CloneConfigXml ==
  /\ pc = "config"
  /\ IF ~HasDirectory("resources") THEN Goto("plugins") /\ UNCHANGED <<widget, configs>>
     ELSE \E n \in 0..Len(configXml) :
            /\ configs' = [p \in PlatformNames |->
                             IF \E i \in 1..n : configXml[i].name = p
                             THEN LET i == CHOOSE i \in 1..n : configXml[i].name = p /\ \A j \in (i + 1)..n : configXml[j].name # p
                                      entry == Cloned(configXml[i])
                                  IN [made |-> TRUE, icon |-> entry.icon, splash |-> entry.splash]
                             ELSE configs[p]]
            /\ widget' = IF n = 0 THEN configXml ELSE <<Cloned(configXml[n])>>
            /\ \/ n < Len(configXml) /\ End("failed")
               \/ n = Len(configXml) /\ Goto("resources")
  /\ UNCHANGED <<project, backup, ignored, configXml, appResources>>

(* copyAndroidResources: what is not named for a screen is not copied. *)
CopyAndroid == {BackupFile(Resources[path]) : path \in {f \in FilesOf("android") : Resources[f].folder \in SupportedScreens}}

(* copyResources: shelljs.cp throws no error, what it cannot copy is only   *)
(* missing.                                                                *)
CopyIos(missed) == {BackupFile(Resources[path]) : path \in FilesOf("ios") \ missed}

WindowsPhoneConfig == {i \in DOMAIN widget : widget[i].name = "wp8"}

(* copyWindowsPhoneResources: a file whose name is a part of that of a      *)
(* splash screen, as the widget in memory has them for wp8, gets the        *)
(* extension config.xml was given.                                         *)
CopyWindowsPhone(missed) ==
  LET splashes == UNION {widget[i].splash : i \in WindowsPhoneConfig}
      Copy(r) == [BackupFile(r) EXCEPT !.ext = IF @ = "png" /\ \E s \in splashes : <<r.name, s.name>> \in PartOf THEN "jpg" ELSE @]
  IN {Copy(Resources[path]) : path \in FilesOf("wp8") \ missed}

(* What copyResources copies: the resources of iOS, and those of wp8 too    *)
(* when the widget names none of them.                                     *)
CopiedAsTheyAre == FilesOf("ios") \cup IF WindowsPhoneConfig = {} THEN FilesOf("wp8") ELSE {}

(* cloneResourcesCore for the three platforms.  Without any platform in     *)
(* config.xml there is no name to compare with wp8.                        *)
CloneResources ==
  /\ pc = "resources"
  /\ \E done \in {{}, {"android"}, {"android", "ios"}, PlatformNames}, missed \in SUBSET CopiedAsTheyAre :
       /\ widget = <<>> /\ FilesOf("wp8") # {} => done # PlatformNames
       /\ appResources' = [p \in PlatformNames |->
                             IF p \notin done THEN appResources[p]
                             ELSE appResources[p] \cup CASE p = "android" -> CopyAndroid
                                                         [] p = "ios" -> CopyIos(missed)
                                                         [] p = "wp8" -> CopyWindowsPhone(missed)]
       /\ task' = [task EXCEPT !.notCloned = missed]
       /\ \/ done # PlatformNames /\ pc' = "idle" /\ outcome' = "failed"
          \/ done = PlatformNames /\ pc' = "plugins" /\ UNCHANGED outcome
  /\ UNCHANGED <<project, before, commands, backup, ignored, configXml, widget, configs>>

--------------------------------------------------------------------------
(* deleteEnabledPlugins: without a directory of plugins it fails. *)
DeleteEnabledPlugins ==
  /\ pc = "plugins"
  /\ \/ End("failed") /\ \E some \in SUBSET CorePlugins : project' = Put(some, Absent)
     \/ HasDirectory("plugins") /\ Goto("assorted") /\ project' = Put(CorePlugins, Absent)
  /\ UNCHANGED ionicVars

AssortedFiles == {path \in Paths : DirectoryOf[path] \in {"hooks", "resources"}} \cup {"ionic.project", "package.json"}

(* deleteAssortedFilesAndDirectories: an error leaves the rest and is       *)
(* ignored.                                                                *)
DeleteAssorted ==
  /\ pc = "assorted"
  /\ End("initialized")
  /\ \E all \in BOOLEAN : project' = IF all THEN Put(AssortedFiles, Absent) ELSE project
  /\ UNCHANGED ionicVars

Transform ==
  \/ Backup \/ Ignore \/ CreateReroutingIndexHtml
  \/ CloneConfigXml \/ CloneResources
  \/ DeleteEnabledPlugins \/ DeleteAssorted
==========================================================================
