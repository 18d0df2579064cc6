-------------------------- MODULE ProjectCreation --------------------------
(***************************************************************************)
(* The commands that make a project (lib/project.ts, commands/project,     *)
(* services/samples-service.ts): create from a template, with Screen       *)
(* Builder or without, init from the files in the directory, Ionic's       *)
(* among them, sample clone and cloud export; and sample, which lists.     *)
(***************************************************************************)
EXTENDS IonicTransformation, RemoteProjects

CONSTANTS
  TemplateFiles,        \* files of a template
  ScreenBuilderFiles,   \* those that Screen Builder makes itself
  SampleFiles,          \* files of a sample
  OldProjectFiles,      \* project files of other products: .proj and .iceproj
  Listing,              \* Paths at the top, in the order a directory lists them
  CwdHasCordovaJs,      \* whether the current directory, where --path names another, has cordova.<platform>.js
  Pages                 \* pages of the list of repositories that are not empty

ASSUME CreationAssumption ==
  /\ {".abproject", ".abignore", "cordova.js", "mobile.vstemplate"} \subseteq TemplateFiles
  /\ ScreenBuilderFiles \subseteq TemplateFiles /\ TemplateFiles \cup SampleFiles \subseteq Paths
  /\ OldProjectFiles \subseteq Paths /\ Listing \in Seq(Paths) /\ OldProjectFiles \cup {".abproject"} \subseteq Range(Listing)
  /\ CwdHasCordovaJs \in BOOLEAN /\ Pages \in Nat \ {0}

VARIABLES
  repositories,   \* those this process holds: [read, pages]
  printed         \* what was printed of each framework's samples

sampleVars == <<repositories, printed>>
vars == <<directoryVars, ionicVars, sampleVars, remoteVars>>
otherVars == <<sampleVars, remoteVars>>

Frameworks == <<"Cordova", "NativeScript">>
NotRead == [read |-> FALSE, pages |-> 0]
NothingPrinted == [f \in Range(Frameworks) |-> "none"]

Init ==
  /\ DirectoryInit /\ IonicInit /\ RemoteInit
  /\ repositories = NotRead /\ printed = NothingPrinted

Empty == Existing = {} /\ backup = NoBackup /\ \A name \in SolutionNames : ~folders[name].there

(* A new process has nothing in memory. *)
NewProcess ==
  /\ repositories' = NotRead /\ widget' = configXml
  /\ UNCHANGED <<printed, backup, ignored, configXml, configs, appResources>> /\ UNCHANGED remoteVars

--------------------------------------------------------------------------
(* create: validateProjectData, createNewProject, createTemplateFolder. *)
Create(template) ==
  /\ LET new == [NoTask EXCEPT !.command = "create", !.template = template]
     IN IF Has(".abproject") \/ ~Empty THEN Refuse(new) ELSE Begin(new, "extract")
  /\ UNCHANGED project /\ NewProcess

Fails == pc' = "clean up" /\ UNCHANGED <<task, outcome, before, commands>>

(* createFromTemplate: the archive is extracted, ... *)
Extract ==
  /\ pc = "extract"
  /\ \/ Fails /\ \E some \in {{}, {".abproject"}, TemplateFiles} : project' = Put(some, Template)
     \/ Goto("properties") /\ project' = Put(TemplateFiles, Template)
  /\ UNCHANGED ionicVars /\ UNCHANGED otherVars

(* ... its properties are altered, validated and saved, ... *)
SaveProperties ==
  /\ pc = "properties"
  /\ \/ Fails /\ UNCHANGED project
     \/ Goto("extra files") /\ project' = Put({".abproject"}, Cli)
  /\ UNCHANGED ionicVars /\ UNCHANGED otherVars

(* ... and what is of no use in a project is deleted. *)
RemoveExtraFiles ==
  /\ pc = "extra files"
  /\ \/ Fails /\ UNCHANGED project
     \/ /\ project' = Put({"mobile.vstemplate"}, Absent)
        /\ IF task.template = "screenbuilder" THEN Goto("answers") ELSE End("created")
  /\ UNCHANGED ionicVars /\ UNCHANGED otherVars

(* CreateCommand: the files Screen Builder makes itself are deleted and the *)
(* answers read, outside any try; ...                                      *)
ReadAnswers ==
  /\ pc = "answers"
  /\ \/ /\ \E some \in {{}, ScreenBuilderFiles} : project' = Put(some, Absent)
        /\ pc' = "idle" /\ outcome' = "failed" /\ task' = [task EXCEPT !.leftovers = TRUE]
        /\ UNCHANGED <<before, commands>>
     \/ Goto("generate") /\ project' = Put(ScreenBuilderFiles, Absent)
  /\ UNCHANGED ionicVars /\ UNCHANGED otherVars

(* As if what a failed generator leaves were left. *)
GenerateOnly ==
  /\ pc = "generate"
  /\ \/ End("failed") /\ \E some \in SUBSET ScreenBuilderFiles : project' = Put(some, Template)
     \/ End("created") /\ project' = Put(ScreenBuilderFiles, Template)
  /\ UNCHANGED ionicVars /\ UNCHANGED otherVars

(* ... then its generator runs. *)
Generate ==
  /\ pc = "generate"
  /\ \/ Fails /\ \E some \in SUBSET ScreenBuilderFiles : project' = Put(some, Template)
     \/ End("created") /\ project' = Put(ScreenBuilderFiles, Template)
  /\ UNCHANGED ionicVars /\ UNCHANGED otherVars

(* The directory is deleted with all it has. *)
CleanUp ==
  /\ pc = "clean up"
  /\ pc' = "idle" /\ outcome' = "failed"
  /\ \/ project' = Put(Paths, Absent) /\ UNCHANGED task
     \/ UNCHANGED project /\ task' = [task EXCEPT !.leftovers = TRUE]
  /\ UNCHANGED <<before, commands>> /\ UNCHANGED ionicVars /\ UNCHANGED otherVars

--------------------------------------------------------------------------
(* isIonicProject, of an ionic.project that has a name and an app_id *)
IsIonicProject == Has("ionic.project") /\ Has("package.json")

(* InitProjectCommand.isProjectType: cordova.<platform>.js are looked for   *)
(* in the current directory, the rest in that of --path.                   *)
IsProjectType(framework, elsewhere) ==
  LET cordovaJs == IF elsewhere THEN CwdHasCordovaJs ELSE Has("cordova.js")
  IN IF framework = "Cordova" THEN (cordovaJs /\ ~HasDirectory("app/tns_modules")) \/ IsIonicProject
     ELSE Has("package.json") /\ ~cordovaJs /\ ~Has("index.html")

Detected(elsewhere) ==
  IF IsProjectType("Cordova", elsewhere) THEN "Cordova"
  ELSE IF IsProjectType("NativeScript", elsewhere) THEN "NativeScript"
  ELSE "none"

(* initializeProjectFromExistingFiles; --force answers no to the backup. *)
Initialize(framework, backupWanted) ==
  LET new == [NoTask EXCEPT !.command = "init", !.framework = framework, !.ionic = IsIonicProject,
                            !.backup = IsIonicProject /\ backupWanted]
  IN IF Has(".abproject") THEN Refuse(new) ELSE Begin(new, "blank")

InitializeProject(framework, elsewhere, backupWanted) ==
  LET type == IF framework = "unknown" THEN Detected(elsewhere) ELSE framework
  IN /\ IF type = "none" THEN Refuse([NoTask EXCEPT !.command = "init"]) ELSE Initialize(type, backupWanted)
     /\ UNCHANGED project /\ NewProcess

ProjectSpecificFiles(framework) == IF framework = "Cordova" THEN {"cordova.js"} ELSE {"package.json"}

(* The project files of the Blank template that are missing. *)
UnpackBlank ==
  /\ pc = "blank"
  /\ LET blank == {".abproject", ".abignore"} \cup ProjectSpecificFiles(task.framework)
     IN \/ End("failed") /\ \E some \in SUBSET blank : project' = PutMissing(some, Template)
        \/ Goto("existing") /\ project' = PutMissing(blank, Template)
  /\ UNCHANGED ionicVars /\ UNCHANGED otherVars

(* getProjectPropertiesFromExistingProject: the first project file the      *)
(* directory lists, or "none".                                             *)
ExistingProjectFile ==
  LET found == {i \in DOMAIN Listing : Listing[i] \in OldProjectFiles \cup {".abproject"} /\ Has(Listing[i])}
  IN IF found = {} THEN "none" ELSE Listing[Min(found)]

(* createProjectFileFromExistingProject *)
CreateProjectFile ==
  /\ pc = "existing"
  /\ \/ End("failed") /\ UNCHANGED project
     \/ /\ ExistingProjectFile # "none"
        /\ project' = Put({".abproject"}, Cli)
        /\ task' = [task EXCEPT !.properties = ExistingProjectFile]
        /\ IF task.ionic THEN pc' = (IF task.backup THEN "backup" ELSE "index") /\ UNCHANGED outcome
           ELSE pc' = "idle" /\ outcome' = "initialized"
        /\ UNCHANGED <<before, commands>>
  /\ UNCHANGED ionicVars /\ UNCHANGED otherVars

--------------------------------------------------------------------------
(* getIceniumRepositories keeps the list it has begun, also when a page     *)
(* cannot be read: the next caller in the process is given it.             *)
GetRepositories(then, otherwise) ==
  \/ repositories.read /\ UNCHANGED repositories /\ then
  \/ ~repositories.read /\ repositories' = [read |-> TRUE, pages |-> Pages] /\ then
  \/ /\ ~repositories.read
     /\ \E pages \in 0..Pages : repositories' = [read |-> TRUE, pages |-> pages]
     /\ otherwise

(* sample: printSamplesInformation for each framework in turn *)
ListSamples ==
  /\ Begin([NoTask EXCEPT !.command = "sample"], "list")
  /\ printed' = NothingPrinted /\ repositories' = NotRead
  /\ UNCHANGED project /\ UNCHANGED ionicVars /\ UNCHANGED remoteVars

PrintSamples ==
  /\ pc = "list"
  /\ LET i == CHOOSE i \in 1..2 : printed[Frameworks[i]] = "none" /\ (i = 1 \/ printed[Frameworks[1]] # "none")
     IN /\ GetRepositories(printed' = [printed EXCEPT ![Frameworks[i]] = IF repositories'.pages = Pages THEN "all" ELSE "some"],
                           printed' = [printed EXCEPT ![Frameworks[i]] = "failed"])
        /\ IF i = 2 THEN End("listed") ELSE Goto("list")
  /\ UNCHANGED project /\ UNCHANGED ionicVars /\ UNCHANGED remoteVars

(* sample clone *)
CloneSample ==
  /\ LET new == [NoTask EXCEPT !.command = "clone"]
     IN IF ~Empty THEN Refuse(new) ELSE Begin(new, "find sample")
  /\ UNCHANGED project /\ NewProcess

(* The sample is found among those listed, downloaded to a temporary        *)
(* directory and unpacked there, if there is a project in it.              *)
FindSample ==
  /\ pc = "find sample"
  /\ GetRepositories(Goto("copy sample"), End("failed"))
  /\ UNCHANGED <<project, printed>> /\ UNCHANGED ionicVars /\ UNCHANGED remoteVars

CopySample ==
  /\ pc = "copy sample"
  /\ \/ End("failed") /\ \E some \in SUBSET SampleFiles : project' = Put(some, Template)
     \/ End("cloned") /\ project' = Put(SampleFiles, Template)
  /\ UNCHANGED ionicVars /\ UNCHANGED otherVars

--------------------------------------------------------------------------
(* The process may be killed between any two steps. *)
Kill == pc # "idle" /\ End("killed") /\ UNCHANGED project /\ UNCHANGED ionicVars /\ UNCHANGED otherVars

(* Told that the directory is a project already, the user deletes what the  *)
(* last init made of .abproject, to be able to give it again.              *)
DeleteProjectFile ==
  /\ pc = "idle" /\ task.command = "init" /\ outcome \in {"failed", "killed"} /\ Has(".abproject")
  /\ project' = Put({".abproject"}, Absent)
  /\ UNCHANGED <<pc, task, outcome, commands>> /\ before' = project'
  /\ UNCHANGED ionicVars /\ UNCHANGED otherVars

(* Bound: exports are given only where there is nothing else. *)
ExportsWhereEmpty == Existing = {} /\ backup = NoBackup

Give ==
  \/ \E template \in {"Blank", "screenbuilder"} : Create(template)
  \/ \E framework \in {"Cordova", "NativeScript", "unknown"}, elsewhere, backupWanted \in BOOLEAN :
       InitializeProject(framework, elsewhere, backupWanted)
  \/ ListSamples \/ CloneSample
  \/ ExportsWhereEmpty /\ \E key \in Keys, identity \in Identities :
       StartExport(key, identity) /\ UNCHANGED ionicVars /\ UNCHANGED sampleVars

Step ==
  \/ Extract \/ SaveProperties \/ RemoveExtraFiles \/ ReadAnswers \/ Generate \/ CleanUp
  \/ UnpackBlank \/ CreateProjectFile \/ (Transform /\ UNCHANGED otherVars)
  \/ PrintSamples \/ FindSample \/ CopySample
  \/ (RemoteStep /\ UNCHANGED ionicVars /\ UNCHANGED sampleVars)

Next == Give \/ Step \/ Kill \/ DeleteProjectFile
Spec == Init /\ [][Next]_vars

--------------------------------------------------------------------------
TypeOK ==
  /\ DirectoryTypeOK
  /\ pc \in {"idle", "extract", "properties", "extra files", "answers", "generate", "clean up", "blank", "existing",
             "backup", "ignore", "index", "config", "resources", "plugins", "assorted", "list", "find sample", "copy sample",
             "export", "project files"}
  /\ outcome \in {"none", "refused", "failed", "killed", "created", "initialized", "listed", "cloned", "exported"}
  /\ backup \in [Paths -> Contents] /\ ignored \in BOOLEAN /\ configXml \in ConfigXmls \cup {<<>>}
  /\ \A p \in PlatformNames : configs[p].made \in BOOLEAN /\ Cardinality(appResources[p]) <= Cardinality(DOMAIN Resources)
  /\ repositories.pages \in 0..Pages
  /\ migrating \in BOOLEAN /\ export.left \subseteq export.projects
  /\ printed \in [Range(Frameworks) -> {"none", "all", "some", "failed"}]

(* What an Ionic project loses without a backup. *)
Replaceable == {"index.html"} \cup AssortedFiles \cup CorePlugins

(* Whatever a command does, fails to do or is killed at, the files that     *)
(* were there before it are there still, or in the backup the user wanted; *)
(* without a backup only those an Ionic project is said to lose are gone.  *)
(* Files whose copy failed without an error are excepted.                  *)
FilesKept ==
  \A path \in Paths :
    before[path] # Absent /\ path # ".abproject" =>
      \/ project[path] = before[path]
      \/ /\ task.command = "init" /\ task.ionic /\ path \in Replaceable
         /\ \/ ~task.backup \/ path \in task.silent
            \/ backup[path] = before[path]

(* A creation that fails leaves the directory as empty as it was, unless    *)
(* the answers for Screen Builder could not be read, or the directory not  *)
(* be deleted.                                                             *)
FailedLeavesNothing ==
  task.command = "create" /\ outcome = "failed" /\ ~task.leftovers => Existing = {}

(* A config.xml as Ionic makes it: what it names has the extension of the   *)
(* file, Android's are for screens that are supported, and the name of no   *)
(* icon of Windows Phone is a part of that of a splash screen.             *)
NamedAsFiles ==
  \A config \in ConfigXmls : \A i \in DOMAIN config : \A path \in DOMAIN Resources :
    LET resource == Resources[path]
        Of(names) == {r \in names : r.name = resource.name /\ r.folder = resource.folder}
        entry == config[i]
    IN resource.platform = entry.name =>
         /\ \A r \in Of(entry.icon \cup entry.splash) :
              r.ext = resource.ext /\ (entry.name = "android" => r.folder \in SupportedScreens)
         /\ entry.name = "wp8" => Of(entry.icon) = {} \/ \A s \in entry.splash : <<resource.name, s.name>> \notin PartOf

(* What the config.xml of a platform names, and the Ionic project had, is   *)
(* in App_Resources by that name; for Windows Phone only if wp8 is the last *)
(* platform of Ionic's config.xml.  Files shelljs.cp could not copy, which  *)
(* it does not tell, are excepted: the project is initialized without.     *)
NamedIsThere ==
  task.command = "init" /\ task.ionic /\ outcome = "initialized" =>
    \A p \in PlatformNames :
      (p = "wp8" => configXml # <<>> /\ Last(configXml).name = "wp8") =>
      \A named \in configs[p].icon \cup configs[p].splash :
        (\E path \in DOMAIN Resources :
           /\ before[path] # Absent /\ path \notin task.notCloned
           /\ Resources[path].platform = p /\ Resources[path].name = named.name /\ Resources[path].folder = named.folder)
        => named \in appResources[p]

(* The backup of an initialized project is not uploaded with it. *)
BackupIgnored ==
  task.command = "init" /\ outcome = "initialized" /\ task.backup => ignored

(* The state is of its type, and no file of the user's is lost by making a *)
(* project around it, nor sent where it does not belong.                   *)
UserFilesSafe == TypeOK /\ FilesKept /\ BackupIgnored

(* A list with samples missing is printed only after a list that failed. *)
ListedWhole ==
  \A i \in 1..2 : printed[Frameworks[i]] = "some" => \E j \in 1..(i - 1) : printed[Frameworks[j]] = "failed"

(* Names that tell solutions apart, and apps: no two have the same one, none *)
(* is the id of another, and of the projects whose names begin with that of *)
(* a project it is the first, as it is when they are in order.              *)
NamesTellApart ==
  /\ \A s, r \in Range(Solutions) \cup Range(Apps) :
       /\ s # r => s.name # r.id
       /\ s.isApp = r.isApp /\ s.name = r.name => s = r
  /\ \A s \in Range(Solutions) \cup Range(Apps) : \A i, j \in DOMAIN s.projects :
       /\ <<s.projects[i], s.projects[i]>> \in Begins
       /\ <<s.projects[i], s.projects[j]>> \in Begins => i <= j

(* The properties of an exported project are its own, also when names and   *)
(* numbers are prefixes of others; not those of one project of a solution   *)
(* that an app has the name of, while the migration lists both.            *)
PropertiesOfExported ==
  pc = "project files" /\ ~(export.single /\ migrating /\ ~export.app.isApp /\
                            \E app \in Range(Apps) : app.name = export.app.name) =>
    \A file \in folders[export.app.name].files : file.of = <<export.app.id, file.project>>

(* Of an export that succeeded each project has a project file, or the      *)
(* user was warned that it has none.                                       *)
ExportedWhole ==
  outcome = "exported" =>
    LET folder == folders[export.app.name]
    IN folder.projects = export.projects /\ {file.project : file \in folder.files} \cup folder.warned = export.projects

(* What is listed of the cloud, or exported from it, is whole and what was *)
(* asked for.                                                              *)
FromCloudWhole == ListedWhole /\ PropertiesOfExported /\ ExportedWhole

==========================================================================
