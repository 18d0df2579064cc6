----------------------- MODULE ProjectCreationProofs -----------------------
(***************************************************************************)
(* Proofs about ProjectCreation, for any files, templates, resources and   *)
(* number of commands: no file of the user's is lost by making a project   *)
(* around it, a creation that fails leaves nothing, the resources that a   *)
(* config.xml names are there, and a project from the cloud is the one it  *)
(* is said to be.                                                          *)
(***************************************************************************)
EXTENDS ProjectCreation, FiniteSetTheorems, WellFoundedInduction, TLAPS

(* The steps of each command, those of init apart that change an Ionic      *)
(* project.                                                                *)
CreatePc == {"extract", "properties", "extra files", "answers", "generate", "clean up"}
TransformPc == {"index", "config", "resources", "plugins", "assorted"}
UntouchedPc == {"blank", "existing", "backup", "ignore"}
ClonePc == {"find sample", "copy sample"}
ExportPc == {"export", "project files"}

(* What a command knows. *)
Task ==
  [command : {"none", "create", "init", "sample", "clone", "export"},
   framework : {"none", "Cordova", "NativeScript"}, template : {"none", "Blank", "screenbuilder"},
   ionic : BOOLEAN, backup : BOOLEAN, properties : Range(Listing) \cup {"none"},
   silent : SUBSET Paths, notCloned : SUBSET Paths, leftovers : BOOLEAN]

(* The type invariant of what a command on the directory changes. *)
TypeInv ==
  /\ project \in [Paths -> Contents] /\ before \in [Paths -> Contents] /\ backup \in [Paths -> Contents]
  /\ commands \in 0..MaxCommands
  /\ pc \in {"idle", "list"} \cup CreatePc \cup UntouchedPc \cup TransformPc \cup ClonePc \cup ExportPc
  /\ task \in Task
  /\ outcome \in {"none", "refused", "failed", "killed", "created", "initialized", "listed", "cloned", "exported"}
  /\ ignored \in BOOLEAN

(* Each step is of its command; a backup is of an Ionic project. *)
CommandInv ==
  /\ pc \in CreatePc => task.command = "create"
  /\ pc \in UntouchedPc \cup TransformPc => task.command = "init"
  /\ pc = "list" => task.command = "sample"
  /\ pc \in ClonePc => task.command = "clone"
  /\ pc \in ExportPc => task.command = "export"
  /\ pc # "idle" => outcome = "none"
  /\ task.backup => task.ionic
  /\ pc \in {"backup", "ignore"} => task.backup
  /\ pc \in TransformPc => task.ionic

(* The files there were before a command are as they were but for some. *)
KeptBut(some) ==
  \A path \in Paths : before[path] # Absent /\ path \notin {".abproject"} \cup some => project[path] = before[path]

(* The backup has what is going to be replaced. *)
SavedInv ==
  \A path \in Replaceable : before[path] # Absent /\ path \notin task.silent => backup[path] = before[path]

(* Where nothing was, nothing is lost; init adds missing files first, and   *)
(* replaces files of Ionic only when they were saved.                      *)
KeptInv ==
  /\ task.command \in {"create", "clone"} /\ outcome # "refused" => \A path \in Paths : before[path] = Absent
  /\ pc \in UntouchedPc \cup {"list"} \cup ExportPc => KeptBut({})
  /\ pc \in {"index", "config", "resources"} => KeptBut({"index.html"})
  /\ pc \in TransformPc => KeptBut(Replaceable)
  /\ pc \in TransformPc \cup {"ignore"} /\ task.backup => SavedInv
  /\ pc \in TransformPc /\ task.backup => ignored

(* The inductive invariant for the files of the user. *)
FilesInv == TypeInv /\ CommandInv /\ KeptInv /\ FilesKept /\ BackupIgnored /\ FailedLeavesNothing

(* Where a file of resources is cloned to: the same for every command on    *)
(* the same config.xml.                                                    *)
LastOfWidget == Cloned(configXml[Len(configXml)])
LastSplashes == IF configXml # <<>> /\ LastOfWidget.name = "wp8" THEN LastOfWidget.splash ELSE {}

CloneOf(platform, resource) ==
  IF platform = "wp8" /\ resource.ext = "png" /\ \E s \in LastSplashes : <<resource.name, s.name>> \in PartOf
  THEN [BackupFile(resource) EXCEPT !.ext = "jpg"] ELSE BackupFile(resource)

(* What App_Resources has are clones, and the widget in memory is the one   *)
(* of the last platform when resources are cloned.                         *)
ClonesInv ==
  /\ configXml \in ConfigXmls \cup {<<>>}
  /\ \A p \in PlatformNames : configs[p].made \in BOOLEAN
  /\ \A p \in PlatformNames : appResources[p] \subseteq {CloneOf(p, Resources[path]) : path \in DOMAIN Resources}
  /\ pc = "resources" => widget = IF configXml = <<>> THEN <<>> ELSE <<LastOfWidget>>

(* An init of an Ionic project, past the cloning of config.xml and past     *)
(* that of the resources; of the files it had only resources matter.       *)
Initialized == task.command = "init" /\ task.ionic /\ outcome = "initialized"
PastConfig == pc \in {"resources", "plugins", "assorted"} \/ Initialized
PastResources == pc \in {"plugins", "assorted"} \/ Initialized
HadResources == {path \in DOMAIN Resources : before[path] # Absent}

(* The last of the platforms is the one whose config.xml is left. *)
LastOf(platform) ==
  {i \in DOMAIN configXml : configXml[i].name = platform /\ \A j \in (i + 1)..Len(configXml) : configXml[j].name # platform}

(* Each platform's config.xml names what the last entry of it names, once   *)
(* it is cloned, and each resource it had and could copy is copied, but     *)
(* those whose copy failed without an error.                               *)
NamedInv ==
  /\ \A p \in PlatformNames : (\A i \in DOMAIN configXml : configXml[i].name # p) => configs[p] = NoConfig
  /\ PastConfig /\ HadResources # {} =>
       \A p \in PlatformNames :
         configs[p] = NoConfig \/ \E i \in LastOf(p) : configs[p].icon = Cloned(configXml[i]).icon
                                                       /\ configs[p].splash = Cloned(configXml[i]).splash
  /\ PastResources =>
       \A p \in PlatformNames : \A path \in HadResources \ task.notCloned :
         Resources[path].platform = p /\ (p = "android" => Resources[path].folder \in SupportedScreens)
           => CloneOf(p, Resources[path]) \in appResources[p]

(* A list that failed is not printed again as if it were whole: the first   *)
(* list of a process is read, and the second is the same.                  *)
SamplesInv ==
  /\ repositories \in [read : BOOLEAN, pages : 0..Pages]
  /\ printed \in [Range(Frameworks) -> {"none", "all", "some", "failed"}]
  /\ pc = "list" =>
       /\ printed["NativeScript"] = "none" /\ printed["Cordova"] \in {"none", "all", "failed"}
       /\ repositories.read <=> printed["Cordova"] # "none"
       /\ printed["Cordova"] = "all" => repositories.pages = Pages
  /\ ListedWhole

(* An export is a record of its fields. *)
ExportInv ==
  /\ migrating \in BOOLEAN
  /\ export = [key |-> export.key, app |-> export.app, single |-> export.single, projects |-> export.projects, left |-> export.left]
  /\ export.left \subseteq export.projects

(* What is exported is what was found by what was typed, ... *)
FoundInv ==
  pc \in ExportPc =>
    /\ export.app = GetApp(export.key) /\ export.app \in Range(Available)
    /\ export.projects \subseteq Range(export.app.projects)

(* ... to a directory of its name, ... *)
FoldersInv ==
  /\ DOMAIN folders = SolutionNames
  /\ \A name \in SolutionNames :
       LET folder == folders[name]
       IN folder = [there |-> folder.there, projects |-> folder.projects, files |-> folder.files, warned |-> folder.warned]

(* ... with what there is to say of the projects that have been looked at. *)
LookedAtInv ==
  pc = "project files" =>
    LET folder == folders[export.app.name]
    IN /\ folder.projects = export.projects
       /\ {file.project : file \in folder.files} \cup folder.warned = export.projects \ export.left

ExportedInv == FoundInv /\ FoldersInv /\ LookedAtInv /\ ExportedWhole

--------------------------------------------------------------------------
(* A set of numbers that is not empty has a least one. *)
LEMMA LeastIsOne ==
  ASSUME NEW S \in SUBSET Nat, S # {}
  PROVE  Min(S) \in S /\ \A i \in S : Min(S) <= i
<1> DEFINE less == {ss \in Nat \X Nat : ss[1] < ss[2]}
<1>1. IsWellFoundedOn(less, Nat)
  BY NatLessThanWellFounded, Zenon DEF OpToRel
<1> HIDE DEF less
<1>2. PICK i \in S : \A j \in S : ~ (<<j, i>> \in less)
  BY <1>1, WFMin
<1>3. \A j \in S : ~ (j < i)
  BY <1>2 DEF less
<1>4. \A j \in S : i <= j
  BY <1>3
<1> QED
  BY <1>4 DEF Min

(* The project file found is one that the directory lists. *)
LEMMA ProjectFileIsListed ==
  ExistingProjectFile \in Range(Listing) \cup {"none"}
<1> DEFINE found == {i \in DOMAIN Listing : Listing[i] \in OldProjectFiles \cup {".abproject"} /\ Has(Listing[i])}
<1>1. found \in SUBSET Nat
  BY CreationAssumption
<1>2. found # {} => Min(found) \in found
  BY <1>1, LeastIsOne
<1> QED
  BY <1>2 DEF ExistingProjectFile, Range

(* Files are put, and put where they are missing. *)
LEMMA PutTypes ==
  ASSUME NEW paths, NEW content \in Contents, project \in [Paths -> Contents]
  PROVE  /\ Put(paths, content) \in [Paths -> Contents]
         /\ PutMissing(paths, content) \in [Paths -> Contents]
         /\ \A path \in Paths : path \notin paths => Put(paths, content)[path] = project[path]
         /\ \A path \in paths \cap Paths : Put(paths, content)[path] = content
         /\ \A path \in Paths : Has(path) => PutMissing(paths, content)[path] = project[path]
BY DEF Put, PutMissing, Has

(* What is kept of a new command's task. *)
LEMMA NoTaskIsTask == NoTask \in Task
BY DEF NoTask, Task

(* What FilesInv says depends on these variables only. *)
LEMMA NothingChanges ==
  ASSUME FilesInv, UNCHANGED <<directoryVars, backup, ignored>>
  PROVE  FilesInv'
<1> USE DEF directoryVars
<1>1. TypeInv' /\ CommandInv'
  BY DEF FilesInv, TypeInv, CommandInv
<1>2. KeptInv'
  BY DEF FilesInv, KeptInv, KeptBut, SavedInv
<1>3. FilesKept' /\ BackupIgnored' /\ FailedLeavesNothing'
  BY DEF FilesInv, FilesKept, BackupIgnored, FailedLeavesNothing, Existing, Has
<1> QED
  BY <1>1, <1>2, <1>3 DEF FilesInv

(* A step that ends a command without a change to the files. *)
LEMMA EndKeeps ==
  ASSUME FilesInv, pc # "idle", NEW result \in {"failed", "killed", "created", "initialized", "listed", "cloned", "exported"},
         End(result), UNCHANGED <<project, backup, ignored>>,
         result = "initialized" /\ task.backup => ignored,
         result = "failed" => task.command # "create"
  PROVE  FilesInv'
<1>1. TypeInv' /\ CommandInv'
  BY DEF FilesInv, TypeInv, CommandInv, End, CreatePc, UntouchedPc, TransformPc, ClonePc, ExportPc
<1>2. KeptInv'
  BY DEF FilesInv, KeptInv, CommandInv, End, UntouchedPc, TransformPc, ExportPc
<1>3. FilesKept' /\ BackupIgnored' /\ FailedLeavesNothing'
  BY DEF FilesInv, FilesKept, BackupIgnored, FailedLeavesNothing, End
<1> QED
  BY <1>1, <1>2, <1>3 DEF FilesInv

(* The bound on commands holds when there is one more. *)
LEMMA OneCommandMore ==
  ASSUME NEW n \in 0..MaxCommands, n < MaxCommands
  PROVE  n + 1 \in 0..MaxCommands
BY MaxCommandsAssumption

(* A command that is begun, or refused, finds its files as they are. *)
LEMMA BeginKeeps ==
  ASSUME FilesInv, NEW new \in Task, NEW first, Begin(new, first), UNCHANGED <<project, backup, ignored>>,
         first \in {"extract", "blank", "list", "find sample", "export"},
         first = "extract" => new.command = "create", first = "blank" => new.command = "init",
         first = "list" => new.command = "sample", first = "find sample" => new.command = "clone",
         first = "export" => new.command = "export",
         new.backup => new.ionic,
         new.command \in {"create", "clone"} => Existing = {}
  PROVE  FilesInv'
<1>5. pc' \in {"idle", "list"} \cup CreatePc \cup UntouchedPc \cup TransformPc \cup ClonePc \cup ExportPc
  BY DEF Begin, CreatePc, UntouchedPc, ClonePc, ExportPc
<1>7. commands \in 0..MaxCommands /\ commands < MaxCommands /\ commands' = commands + 1
  BY DEF FilesInv, TypeInv, Begin
<1>6. commands' \in 0..MaxCommands
  BY <1>7, OneCommandMore
<1>1. TypeInv'
  BY <1>5, <1>6 DEF FilesInv, TypeInv, Begin
<1>4. CommandInv'
  BY DEF CommandInv, Begin, CreatePc, UntouchedPc, TransformPc, ClonePc, ExportPc
<1>2. KeptInv'
  BY DEF FilesInv, KeptInv, KeptBut, Begin, TransformPc, UntouchedPc, ExportPc, Existing, Has
<1>3. FilesKept' /\ BackupIgnored' /\ FailedLeavesNothing'
  BY DEF FilesInv, FilesKept, BackupIgnored, FailedLeavesNothing, Begin
<1> QED
  BY <1>1, <1>2, <1>3, <1>4 DEF FilesInv

LEMMA RefuseKeeps ==
  ASSUME FilesInv, NEW new \in Task, Refuse(new), UNCHANGED <<project, backup, ignored>>, new.backup => new.ionic
  PROVE  FilesInv'
<1>1. TypeInv' /\ CommandInv'
  BY MaxCommandsAssumption DEF FilesInv, TypeInv, CommandInv, Refuse, CreatePc, UntouchedPc, TransformPc, ClonePc, ExportPc
<1>2. KeptInv'
  BY DEF FilesInv, KeptInv, Refuse, TransformPc, UntouchedPc, ExportPc
<1>3. FilesKept' /\ BackupIgnored' /\ FailedLeavesNothing'
  BY DEF FilesInv, FilesKept, BackupIgnored, FailedLeavesNothing, Refuse
<1> QED
  BY <1>1, <1>2, <1>3 DEF FilesInv

(* Where there was no file, whatever a step does to files loses none. *)
LEMMA NothingToLose ==
  ASSUME FilesInv, task.command \in {"create", "clone"}, outcome # "refused",
         project' \in [Paths -> Contents], task' \in Task, task'.command = task.command, task'.backup = task.backup,
         task'.ionic = task.ionic,
         UNCHANGED <<before, commands, backup, ignored>>,
         pc' \in {"idle"} \cup CreatePc \cup ClonePc, outcome' \in {"none", "failed", "created", "cloned"},
         pc' \in CreatePc => task.command = "create", pc' \in ClonePc => task.command = "clone", pc' # "idle" => outcome' = "none",
         outcome' = "failed" /\ task.command = "create" => task'.leftovers \/ \A path \in Paths : project'[path] = Absent
  PROVE  FilesInv'
<1>1. TypeInv' /\ CommandInv'
  BY DEF FilesInv, TypeInv, CommandInv, CreatePc, UntouchedPc, TransformPc, ClonePc, ExportPc
<1>2. KeptInv'
  BY DEF FilesInv, KeptInv, CreatePc, TransformPc, UntouchedPc, ClonePc, ExportPc
<1>3. FilesKept' /\ BackupIgnored'
  BY <1>2 DEF FilesInv, KeptInv, FilesKept, BackupIgnored
<1>4. FailedLeavesNothing'
  BY DEF FailedLeavesNothing, Existing, Has
<1> QED
  BY <1>1, <1>2, <1>3, <1>4 DEF FilesInv

--------------------------------------------------------------------------
(* create, and sample clone: nothing was there. *)
LEMMA CreateKeeps ==
  ASSUME FilesInv, NEW template \in {"Blank", "screenbuilder"}, Create(template)
  PROVE  FilesInv'
<1> DEFINE new == [NoTask EXCEPT !.command = "create", !.template = template]
<1>1. new \in Task /\ new.command = "create" /\ ~new.backup
  BY DEF NoTask, Task
<1>2. UNCHANGED <<project, backup, ignored>>
  BY DEF Create, NewProcess
<1> HIDE DEF new
<1>3. CASE Refuse(new)
  BY <1>1, <1>2, <1>3, RefuseKeeps
<1>4. CASE Begin(new, "extract") /\ Existing = {}
  BY <1>1, <1>2, <1>4, BeginKeeps
<1> QED
  BY <1>3, <1>4 DEF Create, Empty, new

LEMMA CloneSampleKeeps ==
  ASSUME FilesInv, CloneSample
  PROVE  FilesInv'
<1> DEFINE new == [NoTask EXCEPT !.command = "clone"]
<1>1. new \in Task /\ new.command = "clone" /\ ~new.backup
  BY DEF NoTask, Task
<1>2. UNCHANGED <<project, backup, ignored>>
  BY DEF CloneSample, NewProcess
<1> HIDE DEF new
<1>3. CASE Refuse(new)
  BY <1>1, <1>2, <1>3, RefuseKeeps
<1>4. CASE Begin(new, "find sample") /\ Existing = {}
  BY <1>1, <1>2, <1>4, BeginKeeps
<1> QED
  BY <1>3, <1>4 DEF CloneSample, Empty, new

(* The steps of create. *)
LEMMA CreateStepKeeps ==
  ASSUME FilesInv, Extract \/ SaveProperties \/ RemoveExtraFiles \/ ReadAnswers \/ Generate
  PROVE  FilesInv'
<1>1. pc \in CreatePc /\ task.command = "create" /\ outcome = "none" /\ task \in Task /\ project \in [Paths -> Contents]
  BY DEF Extract, SaveProperties, RemoveExtraFiles, ReadAnswers, Generate, FilesInv, CommandInv, TypeInv, CreatePc
<1>2. UNCHANGED <<before, commands, backup, ignored>>
  BY DEF Extract, SaveProperties, RemoveExtraFiles, ReadAnswers, Generate, Fails, Goto, End, ionicVars
<1>6. \A paths : \A content \in Contents : Put(paths, content) \in [Paths -> Contents]
  BY <1>1, PutTypes
<1>3. project' \in [Paths -> Contents]
  BY <1>1, <1>6 DEF Extract, SaveProperties, RemoveExtraFiles, ReadAnswers, Generate, Contents
<1>4. CASE ReadAnswers /\ pc' = "idle"
  <2>1. task' = [task EXCEPT !.leftovers = TRUE] /\ outcome' = "failed"
    BY <1>4 DEF ReadAnswers, Goto
  <2>2. task' \in Task /\ task'.command = task.command /\ task'.backup = task.backup /\ task'.ionic = task.ionic /\ task'.leftovers
    BY <1>1, <2>1 DEF Task
  <2>3. pc' \notin CreatePc \cup ClonePc
    BY <1>4 DEF CreatePc, ClonePc
  <2> QED
    BY <1>1, <1>2, <1>3, <1>4, <2>1, <2>2, <2>3, NothingToLose
<1>5. CASE ~(ReadAnswers /\ pc' = "idle")
  <2>1. task' = task
    BY <1>5 DEF Extract, SaveProperties, RemoveExtraFiles, ReadAnswers, Generate, Fails, Goto, End
  <2>2. pc' \in {"idle"} \cup CreatePc /\ outcome' \in {"none", "created"} /\ (pc' # "idle" => outcome' = "none")
    BY <1>1, <1>5 DEF Extract, SaveProperties, RemoveExtraFiles, ReadAnswers, Generate, Fails, Goto, End, CreatePc
  <2>3. pc' \in ClonePc => task.command = "clone"
    BY <2>2 DEF CreatePc, ClonePc
  <2> QED
    BY <1>1, <1>2, <1>3, <2>1, <2>2, <2>3, NothingToLose
<1> QED
  BY <1>4, <1>5

LEMMA CleanUpKeeps ==
  ASSUME FilesInv, CleanUp
  PROVE  FilesInv'
<1>1. pc \in CreatePc /\ task.command = "create" /\ outcome = "none" /\ task \in Task /\ project \in [Paths -> Contents]
  BY DEF CleanUp, FilesInv, CommandInv, TypeInv, CreatePc
<1>2. UNCHANGED <<before, commands, backup, ignored>> /\ pc' = "idle" /\ outcome' = "failed"
  BY DEF CleanUp, ionicVars
<1>3. CASE project' = Put(Paths, Absent) /\ task' = task
  <2>1. project' \in [Paths -> Contents] /\ \A path \in Paths : project'[path] = Absent
    BY <1>1, <1>3, PutTypes DEF Contents
  <2>2. pc' \notin CreatePc \cup ClonePc
    BY <1>2 DEF CreatePc, ClonePc
  <2> QED
    BY <1>1, <1>2, <1>3, <2>1, <2>2, NothingToLose
<1>4. CASE project' = project /\ task' = [task EXCEPT !.leftovers = TRUE]
  <2>1. task' \in Task /\ task'.command = task.command /\ task'.backup = task.backup /\ task'.ionic = task.ionic /\ task'.leftovers
    BY <1>1, <1>4 DEF Task
  <2>2. pc' \notin CreatePc \cup ClonePc
    BY <1>2 DEF CreatePc, ClonePc
  <2> QED
    BY <1>1, <1>2, <1>4, <2>1, <2>2, NothingToLose
<1> QED
  BY <1>3, <1>4 DEF CleanUp

(* The steps of sample clone, and of sample. *)
LEMMA FindSampleKeeps ==
  ASSUME FilesInv, FindSample
  PROVE  FilesInv'
<1>1. pc \in ClonePc /\ task.command = "clone" /\ outcome = "none" /\ task \in Task /\ project \in [Paths -> Contents]
  BY DEF FindSample, FilesInv, CommandInv, TypeInv, ClonePc
<1>2. UNCHANGED <<project, task, before, commands, backup, ignored>>
  BY DEF FindSample, ionicVars, GetRepositories, Goto, End
<1>3. (pc' = "copy sample" /\ outcome' = "none") \/ (pc' = "idle" /\ outcome' = "failed")
  BY <1>1 DEF FindSample, GetRepositories, Goto, End
<1>4. pc' \notin CreatePc
  BY <1>3 DEF CreatePc
<1>5. pc' \in {"idle"} \cup ClonePc
  BY <1>3 DEF ClonePc
<1> QED
  BY <1>1, <1>2, <1>3, <1>4, <1>5, NothingToLose

LEMMA CopySampleKeeps ==
  ASSUME FilesInv, CopySample
  PROVE  FilesInv'
<1>1. pc \in ClonePc /\ task.command = "clone" /\ outcome = "none" /\ task \in Task /\ project \in [Paths -> Contents]
  BY DEF CopySample, FilesInv, CommandInv, TypeInv, ClonePc
<1>2. UNCHANGED <<task, before, commands, backup, ignored>> /\ pc' = "idle" /\ outcome' \in {"failed", "cloned"}
  BY DEF CopySample, ionicVars, End
<1>5. \A paths : \A content \in Contents : Put(paths, content) \in [Paths -> Contents]
  BY <1>1, PutTypes
<1>3. project' \in [Paths -> Contents]
  BY <1>5 DEF CopySample, Contents
<1>4. pc' \notin CreatePc \cup ClonePc
  BY <1>2 DEF CreatePc, ClonePc
<1> QED
  BY <1>1, <1>2, <1>3, <1>4, NothingToLose

LEMMA SampleKeeps ==
  ASSUME FilesInv, ListSamples \/ PrintSamples
  PROVE  FilesInv'
<1>1. CASE ListSamples
  <2> DEFINE new == [NoTask EXCEPT !.command = "sample"]
  <2>1. new \in Task /\ new.command = "sample" /\ ~new.backup
    BY DEF NoTask, Task
  <2>2. UNCHANGED <<project, backup, ignored>> /\ Begin(new, "list")
    BY <1>1 DEF ListSamples, ionicVars
  <2> HIDE DEF new
  <2> QED
    BY <2>1, <2>2, BeginKeeps
<1>2. CASE PrintSamples
  <2>1. UNCHANGED <<project, backup, ignored>> /\ pc = "list" /\ (End("listed") \/ Goto("list"))
    BY <1>2 DEF PrintSamples, ionicVars
  <2>2. CASE End("listed")
    BY <2>1, <2>2, EndKeeps DEF FilesInv, CommandInv
  <2>3. CASE Goto("list")
    BY <2>1, <2>3, NothingChanges DEF Goto, directoryVars
  <2> QED
    BY <2>1, <2>2, <2>3
<1> QED
  BY <1>1, <1>2

--------------------------------------------------------------------------
(* init: an Ionic project is the only one that may be backed up. *)
LEMMA InitializeKeeps ==
  ASSUME FilesInv, NEW framework \in {"Cordova", "NativeScript", "unknown"}, NEW elsewhere \in BOOLEAN,
         NEW backupWanted \in BOOLEAN, InitializeProject(framework, elsewhere, backupWanted)
  PROVE  FilesInv'
<1> DEFINE type == IF framework = "unknown" THEN Detected(elsewhere) ELSE framework
           new == [NoTask EXCEPT !.command = "init", !.framework = type, !.ionic = IsIonicProject,
                                 !.backup = IsIonicProject /\ backupWanted]
           none == [NoTask EXCEPT !.command = "init"]
<1>1. none \in Task /\ ~none.backup
  BY DEF NoTask, Task
<1>2. UNCHANGED <<project, backup, ignored>>
  BY DEF InitializeProject, NewProcess
<1>3. type \in {"Cordova", "NativeScript", "none"}
  BY DEF Detected
<1>4. IsIonicProject \in BOOLEAN
  BY DEF IsIonicProject, Has
<1> HIDE DEF type
<1>5. type # "none" => new \in Task /\ new.command = "init" /\ (new.backup => new.ionic)
  BY <1>3, <1>4 DEF NoTask, Task
<1> HIDE DEF new, none
<1>6. CASE type = "none"
  BY <1>1, <1>2, <1>6, RefuseKeeps DEF InitializeProject, type, none
<1>7. CASE type # "none"
  <2>1. Refuse(new) \/ Begin(new, "blank")
    BY <1>7 DEF InitializeProject, Initialize, type, new
  <2> QED
    BY <1>2, <1>5, <1>7, <2>1, RefuseKeeps, BeginKeeps
<1> QED
  BY <1>6, <1>7

(* A step that changes no file there was before, whose files are kept. *)
LEMMA UntouchedFilesKept ==
  ASSUME KeptBut({}), before' = before, NEW other \in [Paths -> Contents], project' = other,
         \A path \in Paths : project[path] # Absent /\ path # ".abproject" => other[path] = project[path]
  PROVE  KeptBut({})' /\ KeptBut({"index.html"})' /\ KeptBut(Replaceable)' /\ FilesKept'
BY DEF KeptBut, FilesKept

(* A step that changes files that may be lost, or have been saved. *)
LEMMA ReplacedFilesKept ==
  ASSUME KeptBut(Replaceable)', task'.command = "init", task'.ionic, task'.backup => SavedInv'
  PROVE  FilesKept'
BY DEF KeptBut, FilesKept, SavedInv

(* unpack of the Blank template, and the project file. *)
LEMMA UnpackBlankKeeps ==
  ASSUME FilesInv, UnpackBlank
  PROVE  FilesInv'
<1>1. pc = "blank" /\ task.command = "init" /\ outcome = "none" /\ KeptBut({}) /\ TypeInv
  BY DEF UnpackBlank, FilesInv, CommandInv, KeptInv, UntouchedPc
<1>2. UNCHANGED <<task, before, commands, backup, ignored>>
      /\ \/ pc' = "idle" /\ outcome' = "failed"
         \/ pc' = "existing" /\ outcome' = "none"
  BY <1>1 DEF UnpackBlank, ionicVars, Goto, End
<1>3. PICK some : project' = PutMissing(some, Template)
  BY DEF UnpackBlank
<1>4. /\ project' \in [Paths -> Contents]
      /\ \A path \in Paths : project[path] # Absent => project'[path] = project[path]
  BY <1>1, <1>3, PutTypes DEF TypeInv, Contents, Has
<1>5. TypeInv'
  BY <1>1, <1>2, <1>4 DEF TypeInv, UntouchedPc
<1>6. CommandInv'
  BY <1>1, <1>2 DEF FilesInv, CommandInv, CreatePc, UntouchedPc, TransformPc, ClonePc, ExportPc
<1>7. KeptBut({})' /\ FilesKept'
  BY <1>1, <1>2, <1>4, UntouchedFilesKept
<1>8. KeptInv' /\ BackupIgnored' /\ FailedLeavesNothing'
  BY <1>1, <1>2, <1>7 DEF KeptInv, BackupIgnored, FailedLeavesNothing, TransformPc
<1> QED
  BY <1>5, <1>6, <1>7, <1>8 DEF FilesInv

LEMMA CreateProjectFileKeeps ==
  ASSUME FilesInv, CreateProjectFile
  PROVE  FilesInv'
<1>1. pc = "existing" /\ task.command = "init" /\ outcome = "none" /\ KeptBut({}) /\ TypeInv /\ task \in Task
      /\ (task.backup => task.ionic)
  BY DEF CreateProjectFile, FilesInv, CommandInv, KeptInv, UntouchedPc, TypeInv
<1>2. CASE End("failed") /\ UNCHANGED project
  BY <1>1, <1>2, EndKeeps DEF CreateProjectFile, ionicVars
<1>3. CASE ~(End("failed") /\ UNCHANGED project)
  <2>1. /\ UNCHANGED <<before, commands, backup, ignored>>
        /\ project' = Put({".abproject"}, Cli) /\ task' = [task EXCEPT !.properties = ExistingProjectFile]
        /\ \/ task.backup /\ pc' = "backup" /\ outcome' = "none"
           \/ task.ionic /\ ~task.backup /\ pc' = "index" /\ outcome' = "none"
           \/ ~task.ionic /\ ~task.backup /\ pc' = "idle" /\ outcome' = "initialized"
    BY <1>1, <1>3 DEF CreateProjectFile, ionicVars
  <2>2. task' \in Task /\ task'.command = "init" /\ task'.backup = task.backup /\ task'.ionic = task.ionic
    BY <1>1, <2>1, ProjectFileIsListed DEF Task
  <2>3. /\ project' \in [Paths -> Contents]
        /\ \A path \in Paths : path # ".abproject" => project'[path] = project[path]
    BY <1>1, <2>1, PutTypes DEF TypeInv, Contents
  <2>4. pc' \in {"idle", "backup", "index"} /\ outcome' \in {"none", "initialized"}
    BY <2>1
  <2>5. TypeInv'
    BY <1>1, <2>1, <2>2, <2>3, <2>4 DEF TypeInv, UntouchedPc, TransformPc
  <2>6. CommandInv'
    BY <1>1, <2>1, <2>2 DEF CommandInv, CreatePc, UntouchedPc, TransformPc, ClonePc, ExportPc
  <2>7. KeptBut({})' /\ KeptBut({"index.html"})' /\ KeptBut(Replaceable)' /\ FilesKept'
    BY <1>1, <2>1, <2>3, UntouchedFilesKept
  <2>8. KeptInv' /\ BackupIgnored' /\ FailedLeavesNothing'
    BY <2>1, <2>2, <2>7 DEF KeptInv, BackupIgnored, FailedLeavesNothing, TransformPc
  <2> QED
    BY <2>5, <2>6, <2>7, <2>8 DEF FilesInv
<1> QED
  BY <1>2, <1>3

--------------------------------------------------------------------------
(* The files of the project itself are none of those Ionic replaces. *)
LEMMA ProjectFilesAreNotReplaced ==
  Replaceable \cap ProjectFiles = {}
BY TopAssumption DEF Replaceable, ProjectFiles, AssortedFiles, In

LEMMA ReplaceableAreFiles ==
  Replaceable \subseteq Paths
BY PathsAssumption, TopAssumption DEF Replaceable, AssortedFiles, In

(* What was copied, and is not known to be missing, is in the backup. *)
LEMMA BackupKeeps ==
  ASSUME FilesInv, Backup
  PROVE  FilesInv'
<1>1. pc = "backup" /\ task.command = "init" /\ outcome = "none" /\ KeptBut({}) /\ TypeInv /\ task \in Task /\ task.backup
      /\ task.ionic /\ project \in [Paths -> Contents] /\ backup \in [Paths -> Contents]
  BY DEF Backup, FilesInv, CommandInv, KeptInv, UntouchedPc, TypeInv
<1>2. UNCHANGED <<project, before, commands, ignored>>
  BY DEF Backup, End
<1>3. KeptBut({})' /\ KeptBut({"index.html"})' /\ KeptBut(Replaceable)' /\ FilesKept'
  BY <1>1, <1>2, UntouchedFilesKept
<1>4. CASE End("failed")
  <2>1. pc' = "idle" /\ outcome' = "failed" /\ task' = task
    BY <1>4 DEF End
  <2>2. backup' \in [Paths -> Contents]
    BY <1>1, <1>4 DEF Backup, NoBackup, Contents
  <2>3. TypeInv' /\ CommandInv'
    BY <1>1, <1>2, <2>1, <2>2 DEF TypeInv, CommandInv, CreatePc, UntouchedPc, TransformPc, ClonePc, ExportPc
  <2>4. KeptInv' /\ BackupIgnored' /\ FailedLeavesNothing'
    BY <1>1, <2>1 DEF KeptInv, BackupIgnored, FailedLeavesNothing, TransformPc, UntouchedPc, ExportPc
  <2> QED
    BY <1>3, <2>3, <2>4 DEF FilesInv
<1>5. CASE ~End("failed")
  <2>1. PICK copied \in SUBSET BackedUp :
          /\ backup' = [path \in Paths |-> IF path \in copied THEN project[path] ELSE Absent]
          /\ task' = [task EXCEPT !.silent = BackedUp \ copied]
          /\ pc' = "ignore" /\ outcome' = "none"
    <3>1. PICK missed \in {NoDirectory, "resources", "plugins"} :
            LET copied == BackedUp \ (IF missed = NoDirectory THEN {} ELSE In(missed))
            IN /\ backup' = [path \in Paths |-> IF path \in copied THEN project[path] ELSE Absent]
               /\ task' = [task EXCEPT !.silent = BackedUp \ copied]
               /\ pc' = "ignore" /\ outcome' = "none"
      BY <1>1, <1>5 DEF Backup
    <3> WITNESS BackedUp \ (IF missed = NoDirectory THEN {} ELSE In(missed)) \in SUBSET BackedUp
    <3> QED
      BY <3>1
  <2>2. backup' \in [Paths -> Contents]
    BY <1>1, <2>1 DEF Contents
  <2>3. BackedUp \subseteq Paths
    BY DEF BackedUp, Existing
  <2>4. task' \in Task /\ task'.command = "init" /\ task'.backup /\ task'.ionic /\ task'.silent = BackedUp \ copied
    BY <1>1, <2>1, <2>3 DEF Task
  <2>5. SavedInv'
    <3> SUFFICES ASSUME NEW path \in Paths, path \in Replaceable, before[path] # Absent, path \notin task'.silent
                 PROVE  backup'[path] = before[path]
      BY <1>2, ReplaceableAreFiles DEF SavedInv
    <3>1. path \notin ProjectFiles /\ path # ".abproject"
      BY ProjectFilesAreNotReplaced DEF ProjectFiles
    <3>2. project[path] = before[path] /\ path \in BackedUp
      BY <1>1, <3>1 DEF KeptBut, BackedUp, Existing, Has
    <3> QED
      BY <2>1, <2>4, <3>2
  <2>6. TypeInv'
    BY <1>1, <1>2, <2>1, <2>2, <2>4 DEF TypeInv, UntouchedPc
  <2>7. CommandInv'
    BY <1>1, <2>1, <2>4 DEF CommandInv, CreatePc, UntouchedPc, TransformPc, ClonePc, ExportPc
  <2>8. KeptInv' /\ BackupIgnored' /\ FailedLeavesNothing'
    BY <1>3, <2>1, <2>4, <2>5 DEF KeptInv, BackupIgnored, FailedLeavesNothing, TransformPc
  <2> QED
    BY <1>3, <2>6, <2>7, <2>8 DEF FilesInv
<1> QED
  BY <1>4, <1>5

LEMMA IgnoreKeeps ==
  ASSUME FilesInv, Ignore
  PROVE  FilesInv'
<1>1. pc = "ignore" /\ task.command = "init" /\ outcome = "none" /\ KeptBut({}) /\ TypeInv /\ task.backup /\ task.ionic /\ SavedInv
  BY DEF Ignore, FilesInv, CommandInv, KeptInv, UntouchedPc
<1>2. CASE End("failed") /\ UNCHANGED ignored
  BY <1>1, <1>2, EndKeeps DEF Ignore
<1>3. CASE Goto("index") /\ ignored' = TRUE
  <2>1. UNCHANGED <<project, backup, task, outcome, before, commands>> /\ pc' = "index" /\ ignored'
    BY <1>3 DEF Ignore, Goto
  <2>2. KeptBut({})' /\ KeptBut({"index.html"})' /\ KeptBut(Replaceable)' /\ FilesKept'
    BY <1>1, <2>1, UntouchedFilesKept DEF TypeInv
  <2>3. SavedInv'
    BY <1>1, <2>1 DEF SavedInv
  <2>4. TypeInv'
    BY <1>1, <1>3, <2>1 DEF TypeInv, TransformPc
  <2>5. CommandInv'
    BY <1>1, <2>1 DEF CommandInv, CreatePc, UntouchedPc, TransformPc, ClonePc, ExportPc
  <2>6. KeptInv' /\ BackupIgnored' /\ FailedLeavesNothing'
    BY <1>1, <2>1, <2>2, <2>3 DEF KeptInv, BackupIgnored, FailedLeavesNothing, UntouchedPc, ExportPc
  <2> QED
    BY <2>2, <2>4, <2>5, <2>6 DEF FilesInv
<1> QED
  BY <1>2, <1>3 DEF Ignore

(* A step of the transformation: the files of Ionic it changes were saved.  *)
LEMMA TransformedKeeps ==
  ASSUME FilesInv, pc \in TransformPc,
         project' \in [Paths -> Contents], KeptBut(Replaceable)',
         pc' \in {"config", "resources"} => KeptBut({"index.html"})',
         UNCHANGED <<before, commands, backup, ignored>>,
         task \in Task => task' \in Task, UNCHANGED <<task.command, task.ionic, task.backup, task.silent>>,
         \/ pc' \in {"config", "resources", "plugins", "assorted"} /\ outcome' = outcome
         \/ pc' = "idle" /\ outcome' \in {"failed", "initialized"}
  PROVE  FilesInv'
<1>1. task.command = "init" /\ outcome = "none" /\ TypeInv /\ task.ionic /\ (task.backup => SavedInv /\ ignored)
  <2>1. pc # "idle"
    BY DEF TransformPc
  <2> QED
    BY <2>1 DEF FilesInv, CommandInv, KeptInv
<1>2. SavedInv <=> SavedInv'
  BY DEF SavedInv
<1>3. pc' \in {"idle"} \cup TransformPc /\ pc' # "index" /\ outcome' \in {"none", "failed", "initialized"}
  BY <1>1 DEF TransformPc
<1>4. TypeInv'
  BY <1>1, <1>3 DEF TypeInv
<1>5. CommandInv'
  BY <1>1, <1>3 DEF CommandInv, CreatePc, UntouchedPc, TransformPc, ClonePc, ExportPc
<1>6. FilesKept'
  BY <1>1, <1>2, ReplacedFilesKept
<1>7. KeptInv'
  BY <1>1, <1>2, <1>3 DEF KeptInv, UntouchedPc, TransformPc, ExportPc
<1>8. BackupIgnored' /\ FailedLeavesNothing'
  BY <1>1, <1>3 DEF BackupIgnored, FailedLeavesNothing
<1> QED
  BY <1>4, <1>5, <1>6, <1>7, <1>8 DEF FilesInv

LEMMA IndexKeeps ==
  ASSUME FilesInv, CreateReroutingIndexHtml
  PROVE  FilesInv'
<1>1. pc = "index" /\ task.command = "init" /\ KeptBut({"index.html"}) /\ project \in [Paths -> Contents]
  BY DEF CreateReroutingIndexHtml, FilesInv, CommandInv, KeptInv, TypeInv, TransformPc
<1>2. CASE End("failed") /\ UNCHANGED project
  BY <1>1, <1>2, EndKeeps DEF CreateReroutingIndexHtml, ionicVars
<1>3. CASE Goto("config") /\ project' = Put({"index.html"}, Cli)
  <2>1. /\ project' \in [Paths -> Contents]
        /\ \A path \in Paths : path # "index.html" => project'[path] = project[path]
    BY <1>1, <1>3, PutTypes DEF Contents
  <2>2. KeptBut({"index.html"})' /\ KeptBut(Replaceable)'
    BY <1>1, <1>3, <2>1 DEF KeptBut, Goto, Replaceable
  <2>3. UNCHANGED <<task, before, commands, backup, ignored, outcome>> /\ pc' = "config"
    BY <1>3 DEF CreateReroutingIndexHtml, Goto, ionicVars
  <2> QED
    BY <1>1, <2>1, <2>2, <2>3, TransformedKeeps DEF TransformPc
<1> QED
  BY <1>2, <1>3 DEF CreateReroutingIndexHtml

LEMMA CloneStepKeeps ==
  ASSUME FilesInv, CloneConfigXml \/ CloneResources
  PROVE  FilesInv'
<1>1. pc \in {"config", "resources"} /\ KeptBut({"index.html"}) /\ KeptBut(Replaceable) /\ project \in [Paths -> Contents]
  BY DEF CloneConfigXml, CloneResources, FilesInv, KeptInv, TypeInv, TransformPc
<1>2. UNCHANGED <<project, before, commands, backup, ignored>>
  BY DEF CloneConfigXml, CloneResources, Goto, End
<1>3. \/ pc' \in {"resources", "plugins"} /\ outcome' = outcome
      \/ pc' = "idle" /\ outcome' = "failed"
  BY DEF CloneConfigXml, CloneResources, Goto, End
<1>4. (task \in Task => task' \in Task) /\ UNCHANGED <<task.command, task.ionic, task.backup, task.silent>>
  <2>1. CASE CloneConfigXml
    BY <2>1 DEF CloneConfigXml, Goto, End
  <2>2. CASE CloneResources
    <3>1. PICK missed \in SUBSET CopiedAsTheyAre : task' = [task EXCEPT !.notCloned = missed]
      BY <2>2 DEF CloneResources
    <3>2. missed \in SUBSET Paths
      BY <3>1, ResourcesAssumption DEF CopiedAsTheyAre, FilesOf, In
    <3>3. task \in Task => task' \in Task
      BY <3>1, <3>2 DEF Task
    <3>4. UNCHANGED <<task.command, task.ionic, task.backup, task.silent>>
      BY <3>1
    <3> QED
      BY <3>3, <3>4
  <2> QED
    BY <2>1, <2>2
<1>5. KeptBut({"index.html"})' /\ KeptBut(Replaceable)'
  BY <1>1, <1>2 DEF KeptBut
<1> QED
  BY <1>1, <1>2, <1>3, <1>4, <1>5, TransformedKeeps DEF TransformPc

LEMMA DeleteKeeps ==
  ASSUME FilesInv, DeleteEnabledPlugins \/ DeleteAssorted
  PROVE  FilesInv'
<1>1. pc \in TransformPc /\ task.command = "init" /\ KeptBut(Replaceable) /\ project \in [Paths -> Contents]
  BY DEF DeleteEnabledPlugins, DeleteAssorted, FilesInv, CommandInv, KeptInv, TypeInv, TransformPc
<1>2. PICK some \in SUBSET Replaceable : project' = Put(some, Absent)
  <2>1. CorePlugins \subseteq Replaceable /\ AssortedFiles \subseteq Replaceable
    BY DEF Replaceable
  <2>2. project = Put({}, Absent)
    BY <1>1 DEF Put
  <2>3. (\E some \in SUBSET CorePlugins : project' = Put(some, Absent)) \/ project' = Put(AssortedFiles, Absent) \/ project' = project
    BY DEF DeleteEnabledPlugins, DeleteAssorted
  <2> QED
    BY <2>1, <2>2, <2>3
<1>3. /\ project' \in [Paths -> Contents]
      /\ \A path \in Paths : path \notin some => project'[path] = project[path]
  BY <1>1, <1>2, PutTypes DEF Contents
<1>4. UNCHANGED <<task, before, commands, backup, ignored>>
      /\ \/ pc' = "assorted" /\ outcome' = outcome
         \/ pc' = "idle" /\ outcome' \in {"failed", "initialized"}
  BY DEF DeleteEnabledPlugins, DeleteAssorted, ionicVars, Goto, End
<1>5. KeptBut(Replaceable)'
  BY <1>1, <1>3, <1>4 DEF KeptBut
<1> QED
  BY <1>1, <1>3, <1>4, <1>5, TransformedKeeps

--------------------------------------------------------------------------
(* cloud export changes none of the directory's files. *)
LEMMA ExportKeeps ==
  ASSUME FilesInv, UNCHANGED ionicVars, RemoteStep \/ \E key, identity : StartExport(key, identity)
  PROVE  FilesInv'
<1>1. UNCHANGED <<backup, ignored>>
  BY DEF ionicVars
<1>2. CASE RemoteStep
  <2>1. UNCHANGED project /\ pc \in ExportPc /\ (End("failed") \/ End("exported") \/ Goto("project files") \/ UNCHANGED directoryVars)
    BY <1>2 DEF RemoteStep, Export, CreateRemoteProjectFile, ExportEnds, directoryVars, ExportPc
  <2>2. pc # "idle" /\ task.command = "export" /\ outcome = "none" /\ task.backup \in BOOLEAN /\ TypeInv
    BY <2>1 DEF FilesInv, CommandInv, TypeInv, Task, ExportPc
  <2>3. CASE End("failed") \/ End("exported")
    BY <1>1, <2>1, <2>2, <2>3, EndKeeps
  <2>4. CASE UNCHANGED directoryVars
    BY <1>1, <2>4, NothingChanges
  <2>5. CASE Goto("project files")
    <3>1. pc' = "project files" /\ UNCHANGED <<project, task, outcome, before, commands>>
      BY <2>1, <2>5 DEF Goto
    <3>2. TypeInv'
      BY <1>1, <2>2, <3>1 DEF TypeInv, ExportPc
    <3>3. CommandInv'
      BY <2>2, <3>1 DEF FilesInv, CommandInv, CreatePc, UntouchedPc, TransformPc, ClonePc, ExportPc
    <3>4. KeptInv'
      BY <2>1, <2>2, <3>1 DEF FilesInv, KeptInv, KeptBut, TransformPc
    <3>5. FilesKept' /\ BackupIgnored' /\ FailedLeavesNothing'
      BY <1>1, <2>2, <3>1 DEF FilesInv, FilesKept, BackupIgnored, FailedLeavesNothing
    <3> QED
      BY <3>2, <3>3, <3>4, <3>5 DEF FilesInv
  <2> QED
    BY <2>1, <2>3, <2>4, <2>5
<1>3. CASE \E key, identity : StartExport(key, identity)
  <2> DEFINE new == [NoTask EXCEPT !.command = "export"]
  <2>1. new \in Task /\ new.command = "export" /\ ~new.backup
    BY DEF NoTask, Task
  <2>2. UNCHANGED project /\ (Refuse(new) \/ Begin(new, "export"))
    BY <1>3 DEF StartExport
  <2> HIDE DEF new
  <2> QED
    BY <1>1, <2>1, <2>2, RefuseKeeps, BeginKeeps
<1> QED
  BY <1>2, <1>3

(* The user deletes the project file of an init that did not end well. *)
LEMMA DeleteProjectFileKeeps ==
  ASSUME FilesInv, DeleteProjectFile
  PROVE  FilesInv'
<1>1. /\ pc = "idle" /\ task.command = "init" /\ outcome \in {"failed", "killed"}
      /\ project \in [Paths -> Contents] /\ project' = Put({".abproject"}, Absent) /\ before' = project'
      /\ UNCHANGED <<pc, task, outcome, commands, backup, ignored>>
  BY DEF DeleteProjectFile, ionicVars, FilesInv, TypeInv
<1>2. project' \in [Paths -> Contents]
  BY <1>1, PutTypes DEF Contents
<1>3. TypeInv' /\ CommandInv'
  BY <1>1, <1>2 DEF FilesInv, TypeInv, CommandInv
<1>4. KeptInv'
  BY <1>1 DEF KeptInv, UntouchedPc, TransformPc, ExportPc
<1>5. FilesKept' /\ BackupIgnored' /\ FailedLeavesNothing'
  BY <1>1 DEF FilesKept, BackupIgnored, FailedLeavesNothing
<1> QED
  BY <1>3, <1>4, <1>5 DEF FilesInv

LEMMA FilesInit == Init => FilesInv
<1> SUFFICES ASSUME Init
             PROVE  FilesInv
  OBVIOUS
<1>1. /\ pc = "idle" /\ task = NoTask /\ outcome = "none" /\ before = project /\ commands = 0
      /\ backup = NoBackup /\ ignored = FALSE
  BY DEF Init, DirectoryInit, IonicInit
<1>2. project \in [Paths -> Contents] /\ backup \in [Paths -> Contents]
  BY <1>1 DEF Init, DirectoryInit, Contents, NoBackup
<1>3. commands \in 0..MaxCommands
  BY <1>1, MaxCommandsAssumption
<1>4. TypeInv
  BY <1>1, <1>2, <1>3, NoTaskIsTask DEF TypeInv
<1>5. CommandInv /\ KeptInv
  BY <1>1 DEF CommandInv, KeptInv, NoTask, CreatePc, UntouchedPc, TransformPc, ClonePc, ExportPc
<1>6. FilesKept /\ BackupIgnored /\ FailedLeavesNothing
  BY <1>1 DEF FilesKept, BackupIgnored, FailedLeavesNothing, NoTask
<1> QED
  BY <1>4, <1>5, <1>6 DEF FilesInv

LEMMA FilesNext == FilesInv /\ [Next]_vars => FilesInv'
<1> SUFFICES ASSUME FilesInv, [Next]_vars
             PROVE  FilesInv'
  OBVIOUS
<1>1. CASE UNCHANGED vars
  BY <1>1, NothingChanges DEF vars, ionicVars
<1>2. CASE Give
  <2>1. CASE \E template \in {"Blank", "screenbuilder"} : Create(template)
    BY <2>1, CreateKeeps
  <2>2. CASE \E framework \in {"Cordova", "NativeScript", "unknown"}, elsewhere, backupWanted \in BOOLEAN :
               InitializeProject(framework, elsewhere, backupWanted)
    BY <2>2, InitializeKeeps
  <2>3. CASE ListSamples \/ CloneSample
    BY <2>3, SampleKeeps, CloneSampleKeeps
  <2>4. CASE \E key \in Keys, identity \in Identities : StartExport(key, identity) /\ UNCHANGED ionicVars
    BY <2>4, ExportKeeps
  <2> QED
    BY <1>2, <2>1, <2>2, <2>3, <2>4 DEF Give
<1>3. CASE Step
  <2>1. CASE Extract \/ SaveProperties \/ RemoveExtraFiles \/ ReadAnswers \/ Generate
    BY <2>1, CreateStepKeeps
  <2>2. CASE CleanUp
    BY <2>2, CleanUpKeeps
  <2>3. CASE UnpackBlank
    BY <2>3, UnpackBlankKeeps
  <2>4. CASE CreateProjectFile
    BY <2>4, CreateProjectFileKeeps
  <2>5. CASE Transform
    BY <2>5, BackupKeeps, IgnoreKeeps, IndexKeeps, CloneStepKeeps, DeleteKeeps DEF Transform
  <2>6. CASE PrintSamples
    BY <2>6, SampleKeeps
  <2>7. CASE FindSample \/ CopySample
    BY <2>7, FindSampleKeeps, CopySampleKeeps
  <2>8. CASE RemoteStep /\ UNCHANGED ionicVars
    BY <2>8, ExportKeeps
  <2> QED
    BY <1>3, <2>1, <2>2, <2>3, <2>4, <2>5, <2>6, <2>7, <2>8 DEF Step
<1>4. CASE Kill
  BY <1>4, EndKeeps DEF Kill, ionicVars
<1>5. CASE DeleteProjectFile
  BY <1>5, DeleteProjectFileKeeps
<1> QED
  BY <1>1, <1>2, <1>3, <1>4, <1>5 DEF Next

LEMMA FilesAlways == Spec => []FilesInv
BY FilesInit, FilesNext, PTL DEF Spec

(* A creation that fails leaves the directory as empty as it was: it starts *)
(* where nothing is, and when a step fails its whole directory is deleted,  *)
(* except where the answers of Screen Builder cannot be read or the        *)
(* deletion itself fails.                                                  *)
THEOREM FailureLeavesNothing == Spec => []FailedLeavesNothing
<1>1. FilesInv => FailedLeavesNothing
  BY DEF FilesInv
<1> QED
  BY <1>1, FilesAlways, PTL

--------------------------------------------------------------------------
(* All but the two steps that clone leave what was cloned as it is, and no  *)
(* other goes on to the resources.                                         *)
LEMMA ClonesUntouched ==
  ASSUME ClonesInv, UNCHANGED <<configXml, configs, appResources>>,
         pc' # "resources" \/ (pc = "resources" /\ UNCHANGED widget)
  PROVE  ClonesInv'
<1>1. \A p \in PlatformNames : \A r : CloneOf(p, r) = CloneOf(p, r)'
  BY DEF CloneOf, LastSplashes, LastOfWidget
<1> QED
  BY <1>1 DEF ClonesInv, LastOfWidget

LEMMA OthersCloneNothing ==
  ASSUME [Next]_vars, ~CloneConfigXml, ~CloneResources
  PROVE  /\ UNCHANGED <<configXml, configs, appResources>>
         /\ pc' # "resources" \/ (pc = "resources" /\ UNCHANGED widget)
<1>1. CASE UNCHANGED vars
  BY <1>1 DEF vars, ionicVars, directoryVars
<1>2. CASE Give
  <2>1. UNCHANGED <<configXml, configs, appResources>>
    BY <1>2 DEF Give, Create, InitializeProject, ListSamples, CloneSample, NewProcess, ionicVars
  <2>2. pc' \in {"idle", "extract", "blank", "list", "find sample", "export"}
    BY <1>2 DEF Give, Create, InitializeProject, Initialize, ListSamples, CloneSample, StartExport, Begin, Refuse
  <2> QED
    BY <2>1, <2>2
<1>3. CASE Transform
  <2>1. UNCHANGED <<configXml, configs, appResources>>
    BY <1>3 DEF Transform, Backup, Ignore, CreateReroutingIndexHtml, DeleteEnabledPlugins, DeleteAssorted, ionicVars, cloneVars
  <2>2. pc' \in {"idle", "ignore", "index", "config", "assorted"}
    BY <1>3 DEF Transform, Backup, Ignore, CreateReroutingIndexHtml, DeleteEnabledPlugins, DeleteAssorted, Goto, End
  <2> QED
    BY <2>1, <2>2
<1>4. CASE Step /\ ~Transform
  <2>1. UNCHANGED ionicVars
    BY <1>4 DEF Step, Extract, SaveProperties, RemoveExtraFiles, ReadAnswers, Generate, CleanUp, UnpackBlank, CreateProjectFile,
                PrintSamples, FindSample, CopySample
  <2>2. CASE CreateRemoteProjectFile
    BY <2>1, <2>2 DEF CreateRemoteProjectFile, directoryVars, ionicVars
  <2>3. CASE ~CreateRemoteProjectFile
    <3>1. pc' # "resources"
      BY <1>4, <2>3
      DEF Step, Extract, SaveProperties, RemoveExtraFiles, ReadAnswers, Generate, CleanUp, UnpackBlank, CreateProjectFile,
          PrintSamples, FindSample, CopySample, GetRepositories, RemoteStep, Export, ExportEnds, Fails, Goto, End
    <3> QED
      BY <2>1, <3>1 DEF ionicVars
  <2> QED
    BY <2>2, <2>3
<1>5. CASE Kill \/ DeleteProjectFile
  BY <1>5 DEF Kill, DeleteProjectFile, End, ionicVars
<1> QED
  BY <1>1, <1>2, <1>3, <1>4, <1>5 DEF Next

(* config.xml is cloned. *)
LEMMA ConfigsCloned ==
  ASSUME ClonesInv, CloneConfigXml
  PROVE  ClonesInv'
<1>1. pc = "config" /\ UNCHANGED <<configXml, appResources>>
  BY DEF CloneConfigXml
<1>2. \A p \in PlatformNames : \A r : CloneOf(p, r) = CloneOf(p, r)'
  BY <1>1 DEF CloneOf, LastSplashes, LastOfWidget
<1>3. \A p \in PlatformNames : configs'[p].made \in BOOLEAN
  <2>1. CASE configs' = configs
    BY <2>1 DEF ClonesInv
  <2>2. CASE configs' # configs
    <3>1. PICK n \in 0..Len(configXml) :
            configs' = [p \in PlatformNames |->
                             IF \E i \in 1..n : configXml[i].name = p
                             THEN LET i == CHOOSE i \in 1..n : configXml[i].name = p /\ \A j \in (i + 1)..n : configXml[j].name # p
                                      entry == Cloned(configXml[i])
                                  IN [made |-> TRUE, icon |-> entry.icon, splash |-> entry.splash]
                             ELSE configs[p]]
      BY <2>2 DEF CloneConfigXml
    <3>2. \A p \in PlatformNames : configs'[p].made = TRUE \/ configs'[p] = configs[p]
      BY <3>1
    <3> QED
      BY <3>2 DEF ClonesInv
  <2> QED
    BY <2>1, <2>2
<1>4. pc' = "resources" => widget' = IF configXml = <<>> THEN <<>> ELSE <<LastOfWidget>>
  <2> SUFFICES ASSUME pc' = "resources"
               PROVE  widget' = IF configXml = <<>> THEN <<>> ELSE <<LastOfWidget>>
    OBVIOUS
  <2>1. widget' = IF Len(configXml) = 0 THEN configXml ELSE <<Cloned(configXml[Len(configXml)])>>
    BY <1>1 DEF CloneConfigXml, Goto, End
  <2>2. configXml \in Seq(UNION {Range(config) : config \in ConfigXmls})
    <3>1. <<>> \in Seq(UNION {Range(config) : config \in ConfigXmls})
      OBVIOUS
    <3> QED
      BY <3>1, ConfigXmlsAssumption DEF ClonesInv
  <2>3. configXml = <<>> <=> Len(configXml) = 0
    BY <2>2
  <2> QED
    BY <2>1, <2>3 DEF LastOfWidget
<1> QED
  BY <1>1, <1>2, <1>3, <1>4 DEF ClonesInv, LastOfWidget

(* The splash screens of wp8 are those of the last platform. *)
LEMMA SplashesAreLast ==
  ASSUME ClonesInv, pc = "resources"
  PROVE  UNION {widget[i].splash : i \in WindowsPhoneConfig} = LastSplashes
<1>1. CASE configXml = <<>>
  <2>1. widget = <<>>
    BY <1>1 DEF ClonesInv
  <2>2. DOMAIN widget = {}
    BY <2>1
  <2> QED
    BY <1>1, <2>2 DEF LastSplashes, WindowsPhoneConfig
<1>2. CASE configXml # <<>>
  <2>1. widget = <<LastOfWidget>>
    BY <1>2 DEF ClonesInv
  <2>2. DOMAIN widget = {1} /\ widget[1] = LastOfWidget
    BY <2>1
  <2>3. UNION {widget[i].splash : i \in WindowsPhoneConfig}
        = IF LastOfWidget.name = "wp8" THEN LastOfWidget.splash ELSE {}
    BY <2>2 DEF WindowsPhoneConfig
  <2> QED
    BY <1>2, <2>3 DEF LastSplashes
<1> QED
  BY <1>1, <1>2

(* So a file of wp8 is copied by the name those splash screens give it. *)
LEMMA WindowsPhoneClones ==
  ASSUME ClonesInv, pc = "resources", NEW missed
  PROVE  CopyWindowsPhone(missed) = {CloneOf("wp8", Resources[path]) : path \in FilesOf("wp8") \ missed}
<1> DEFINE Copy(r) == [BackupFile(r) EXCEPT !.ext = IF @ = "png" /\ \E s \in LastSplashes : <<r.name, s.name>> \in PartOf THEN "jpg" ELSE @]
<1>1. CopyWindowsPhone(missed) = {Copy(Resources[path]) : path \in FilesOf("wp8") \ missed}
  BY SplashesAreLast DEF CopyWindowsPhone
<1>2. ASSUME NEW r
      PROVE  Copy(r) = CloneOf("wp8", r)
  <2>1. BackupFile(r).ext = r.ext
    BY DEF BackupFile
  <2>2. [BackupFile(r) EXCEPT !.ext = BackupFile(r).ext] = BackupFile(r)
    BY DEF BackupFile
  <2> QED
    BY <2>1, <2>2 DEF CloneOf
<1> HIDE DEF Copy
<1> QED
  BY <1>1, <1>2

(* Resources are cloned by what config.xml calls them. *)
LEMMA ResourcesCloned ==
  ASSUME ClonesInv, CloneResources
  PROVE  ClonesInv'
<1> DEFINE Clones(p) == {CloneOf(p, Resources[path]) : path \in DOMAIN Resources}
<1>1. pc = "resources" /\ UNCHANGED <<configXml, configs, widget>> /\ pc' # "resources"
  BY DEF CloneResources, Goto, End
<1>2. \A p \in PlatformNames : \A r : CloneOf(p, r) = CloneOf(p, r)'
  BY <1>1 DEF CloneOf, LastSplashes, LastOfWidget
<1>3. \A p : FilesOf(p) \subseteq DOMAIN Resources
  BY DEF FilesOf
<1>4. CopyAndroid \subseteq Clones("android")
  BY <1>3 DEF CopyAndroid, CloneOf
<1>5. \A missed : CopyIos(missed) \subseteq Clones("ios")
  BY <1>3 DEF CopyIos, CloneOf
<1>6. \A missed : CopyWindowsPhone(missed) \subseteq Clones("wp8")
  BY <1>1, <1>3, WindowsPhoneClones
<1> HIDE DEF Clones
<1>7. PICK done \in {{}, {"android"}, {"android", "ios"}, PlatformNames}, missed \in SUBSET CopiedAsTheyAre :
        appResources' = [p \in PlatformNames |->
                             IF p \notin done THEN appResources[p]
                             ELSE appResources[p] \cup CASE p = "android" -> CopyAndroid
                                                         [] p = "ios" -> CopyIos(missed)
                                                         [] p = "wp8" -> CopyWindowsPhone(missed)]
  BY DEF CloneResources
<1>8. ASSUME NEW p \in PlatformNames
      PROVE  appResources'[p] \subseteq Clones(p)
  <2>1. appResources[p] \subseteq Clones(p)
    BY DEF ClonesInv, Clones
  <2>2. p \in {"android", "ios", "wp8"}
    BY ResourcesAssumption
  <2> QED
    BY <1>4, <1>5, <1>6, <1>7, <2>1, <2>2
<1> QED
  BY <1>1, <1>2, <1>8 DEF ClonesInv, Clones

LEMMA ClonesAlways == Spec => []ClonesInv
<1>1. Init => ClonesInv
  <2> SUFFICES ASSUME Init
               PROVE  ClonesInv
    OBVIOUS
  <2> QED
    BY DEF Init, IonicInit, DirectoryInit, ClonesInv, NoConfig
<1>2. ClonesInv /\ [Next]_vars => ClonesInv'
  BY OthersCloneNothing, ClonesUntouched, ConfigsCloned, ResourcesCloned
<1> QED
  BY <1>1, <1>2, PTL DEF Spec

(* Not more is cloned than there is. *)
LEMMA ClonesCounted ==
  ASSUME ClonesInv, NEW p \in PlatformNames
  PROVE  Cardinality(appResources[p]) <= Cardinality(DOMAIN Resources)
<1> DEFINE clone == [path \in DOMAIN Resources |-> CloneOf(p, Resources[path])]
           clones == {CloneOf(p, Resources[path]) : path \in DOMAIN Resources}
<1>1. clone \in Surjection(DOMAIN Resources, clones)
  BY DEF Surjection
<1>2. IsFiniteSet(clones) /\ Cardinality(clones) <= Cardinality(DOMAIN Resources)
  BY <1>1, FS_Surjection, ResourcesAssumption
<1>3. appResources[p] \subseteq clones
  BY DEF ClonesInv
<1> HIDE DEF clones
<1>4. IsFiniteSet(appResources[p]) /\ Cardinality(appResources[p]) <= Cardinality(clones)
  BY <1>2, <1>3, FS_Subset
<1>5. Cardinality(appResources[p]) \in Nat /\ Cardinality(clones) \in Nat /\ Cardinality(DOMAIN Resources) \in Nat
  BY <1>2, <1>4, FS_CardinalityType, ResourcesAssumption
<1> QED
  BY <1>2, <1>4, <1>5

--------------------------------------------------------------------------
(* sample prints each framework's list in turn. *)
LEMMA SamplesPrinted ==
  ASSUME SamplesInv, PrintSamples
  PROVE  SamplesInv'
<1> DEFINE i == CHOOSE i \in 1..2 : printed[Frameworks[i]] = "none" /\ (i = 1 \/ printed[Frameworks[1]] # "none")
<1>1. /\ pc = "list" /\ printed["NativeScript"] = "none" /\ printed["Cordova"] \in {"none", "all", "failed"}
      /\ repositories.read <=> printed["Cordova"] # "none"
      /\ printed["Cordova"] = "all" => repositories.pages = Pages
      /\ repositories \in [read : BOOLEAN, pages : 0..Pages]
      /\ printed \in [Range(Frameworks) -> {"none", "all", "some", "failed"}]
  BY DEF PrintSamples, SamplesInv
<1>2. Frameworks[1] = "Cordova" /\ Frameworks[2] = "NativeScript" /\ Range(Frameworks) = {"Cordova", "NativeScript"}
  BY DEF Frameworks, Range
<1>3. i = IF printed["Cordova"] = "none" THEN 1 ELSE 2
  BY <1>1, <1>2
<1>4. /\ GetRepositories(printed' = [printed EXCEPT ![Frameworks[i]] = IF repositories'.pages = Pages THEN "all" ELSE "some"],
                         printed' = [printed EXCEPT ![Frameworks[i]] = "failed"])
      /\ IF i = 2 THEN End("listed") ELSE Goto("list")
  BY DEF PrintSamples
<1> HIDE DEF i
<1>5. Pages \in 0..Pages
  BY CreationAssumption
<1>6. CASE i = 1
  <2>1. printed["Cordova"] = "none" /\ ~repositories.read /\ pc' = "list"
    BY <1>1, <1>3, <1>4, <1>6 DEF Goto
  <2>2. \/ repositories' = [read |-> TRUE, pages |-> Pages] /\ printed' = [printed EXCEPT !["Cordova"] = "all"]
        \/ \E pages \in 0..Pages : repositories' = [read |-> TRUE, pages |-> pages] /\ printed' = [printed EXCEPT !["Cordova"] = "failed"]
    BY <1>2, <1>4, <1>6, <2>1 DEF GetRepositories
  <2>3. /\ repositories' \in [read : BOOLEAN, pages : 0..Pages] /\ repositories'.read
        /\ printed' \in [Range(Frameworks) -> {"none", "all", "some", "failed"}]
        /\ printed'["NativeScript"] = "none"
        /\ \/ printed'["Cordova"] = "all" /\ repositories'.pages = Pages
           \/ printed'["Cordova"] = "failed"
    <3>1. ASSUME NEW pages \in 0..Pages, repositories' = [read |-> TRUE, pages |-> pages]
          PROVE  repositories' \in [read : BOOLEAN, pages : 0..Pages] /\ repositories'.read = TRUE /\ repositories'.pages = pages
      BY <3>1
    <3>2. ASSUME NEW how \in {"all", "failed"}, printed' = [printed EXCEPT !["Cordova"] = how]
          PROVE  /\ printed' \in [Range(Frameworks) -> {"none", "all", "some", "failed"}]
                 /\ printed'["NativeScript"] = "none" /\ printed'["Cordova"] = how
      BY <1>1, <1>2, <3>2
    <3> QED
      BY <1>5, <2>2, <3>1, <3>2
  <2> QED
    BY <1>2, <2>1, <2>3 DEF SamplesInv, ListedWhole
<1>7. CASE i = 2
  <2>1. printed["Cordova"] \in {"all", "failed"} /\ repositories.read /\ pc' = "idle"
    BY <1>1, <1>3, <1>4, <1>7 DEF End
  <2>2. repositories' = repositories
        /\ printed' = [printed EXCEPT !["NativeScript"] = IF repositories.pages = Pages THEN "all" ELSE "some"]
    BY <1>2, <1>4, <1>7, <2>1 DEF GetRepositories
  <2>3. /\ printed' \in [Range(Frameworks) -> {"none", "all", "some", "failed"}]
        /\ printed'["Cordova"] = printed["Cordova"]
        /\ printed'["NativeScript"] = IF repositories.pages = Pages THEN "all" ELSE "some"
    BY <1>1, <1>2, <2>2
  <2>4. ListedWhole'
    <3>1. printed'["NativeScript"] = "some" => printed'["Cordova"] = "failed"
      BY <1>1, <2>1, <2>3
    <3>2. printed'["Cordova"] # "some"
      BY <2>1, <2>3
    <3> QED
      BY <1>2, <3>1, <3>2 DEF ListedWhole
  <2> QED
    BY <1>1, <2>1, <2>2, <2>3, <2>4 DEF SamplesInv
<1> QED
  BY <1>3, <1>6, <1>7

LEMMA SamplesListed ==
  ASSUME SamplesInv, ListSamples
  PROVE  SamplesInv'
<1>1. printed' = NothingPrinted /\ repositories' = NotRead
  BY DEF ListSamples
<1>2. Frameworks[1] = "Cordova" /\ Frameworks[2] = "NativeScript" /\ Range(Frameworks) = {"Cordova", "NativeScript"}
  BY DEF Frameworks, Range
<1>3. repositories' \in [read : BOOLEAN, pages : 0..Pages] /\ ~repositories'.read
  BY <1>1, CreationAssumption DEF NotRead
<1>4. /\ printed' \in [Range(Frameworks) -> {"none", "all", "some", "failed"}]
      /\ \A f \in {"Cordova", "NativeScript"} : printed'[f] = "none"
  BY <1>1, <1>2 DEF NothingPrinted
<1>5. ListedWhole'
  BY <1>2, <1>4 DEF ListedWhole
<1> QED
  BY <1>3, <1>4, <1>5 DEF SamplesInv

(* The others print nothing; they forget the list or begin to read it.      *)
LEMMA OthersPrintNothing ==
  ASSUME SamplesInv, [Next]_vars, ~PrintSamples, ~ListSamples
  PROVE  SamplesInv'
<1>1. UNCHANGED printed
  BY DEF Next, Give, Step, vars, sampleVars, otherVars, Create, InitializeProject, CloneSample, NewProcess,
         Extract, SaveProperties, RemoveExtraFiles, ReadAnswers, Generate, CleanUp, UnpackBlank, CreateProjectFile,
         FindSample, CopySample, Kill, DeleteProjectFile
<1>2. repositories' \in {repositories, NotRead} \/ FindSample
  BY DEF Next, Give, Step, vars, sampleVars, otherVars, Create, InitializeProject, CloneSample, NewProcess,
         Extract, SaveProperties, RemoveExtraFiles, ReadAnswers, Generate, CleanUp, UnpackBlank, CreateProjectFile,
         CopySample, Kill, DeleteProjectFile
<1>3. repositories' \in [read : BOOLEAN, pages : 0..Pages]
  <2>1. NotRead \in [read : BOOLEAN, pages : 0..Pages]
    BY CreationAssumption DEF NotRead
  <2>2. \A pages \in 0..Pages : [read |-> TRUE, pages |-> pages] \in [read : BOOLEAN, pages : 0..Pages]
    OBVIOUS
  <2>3. Pages \in 0..Pages
    BY CreationAssumption
  <2>4. FindSample => repositories' = repositories \/ \E pages \in 0..Pages : repositories' = [read |-> TRUE, pages |-> pages]
    BY <2>3 DEF FindSample, GetRepositories
  <2> QED
    BY <1>2, <2>1, <2>2, <2>4 DEF SamplesInv
<1>4. pc' = "list" => pc = "list" /\ UNCHANGED repositories
  <2>1. CASE UNCHANGED vars
    BY <2>1 DEF vars, directoryVars, sampleVars
  <2>2. CASE Give
    <3>1. pc' \in {"idle", "extract", "blank", "find sample", "export"}
      BY <2>2 DEF Give, Create, InitializeProject, Initialize, CloneSample, StartExport, Begin, Refuse
    <3> QED
      BY <3>1
  <2>3. CASE Transform
    <3>1. pc' # "list"
      BY <2>3 DEF Transform, Backup, Ignore, CreateReroutingIndexHtml, CloneConfigXml, CloneResources, DeleteEnabledPlugins,
                  DeleteAssorted, Goto, End
    <3> QED
      BY <3>1
  <2>4. CASE CreateRemoteProjectFile
    BY <2>4 DEF CreateRemoteProjectFile, directoryVars
  <2>5. CASE Step /\ ~Transform /\ ~CreateRemoteProjectFile
    <3>1. pc' # "list"
      BY <2>5
      DEF Step, Extract, SaveProperties, RemoveExtraFiles, ReadAnswers, Generate, CleanUp, UnpackBlank, CreateProjectFile,
          FindSample, CopySample, GetRepositories, RemoteStep, Export, ExportEnds, Fails, Goto, End
    <3> QED
      BY <3>1
  <2>6. CASE Kill \/ DeleteProjectFile
    BY <2>6 DEF Kill, DeleteProjectFile, End
  <2> QED
    BY <2>1, <2>2, <2>3, <2>4, <2>5, <2>6 DEF Next
<1> QED
  BY <1>1, <1>3, <1>4 DEF SamplesInv, ListedWhole

LEMMA SamplesAlways == Spec => []SamplesInv
<1>1. Init => SamplesInv
  <2> SUFFICES ASSUME Init
               PROVE  SamplesInv
    OBVIOUS
  <2>1. repositories = NotRead /\ printed = NothingPrinted /\ pc = "idle"
    BY DEF Init, DirectoryInit
  <2>2. repositories \in [read : BOOLEAN, pages : 0..Pages]
    BY <2>1, CreationAssumption DEF NotRead
  <2>3. Frameworks[1] \in Range(Frameworks) /\ Frameworks[2] \in Range(Frameworks)
    BY DEF Frameworks, Range
  <2> QED
    BY <2>1, <2>2, <2>3 DEF SamplesInv, NothingPrinted, ListedWhole
<1>2. SamplesInv /\ [Next]_vars => SamplesInv'
  BY OthersPrintNothing, SamplesPrinted, SamplesListed
<1> QED
  BY <1>1, <1>2, PTL DEF Spec

--------------------------------------------------------------------------
(* What is left to be looked at of an export is of the export. *)
LEMMA ExportAlways == Spec => []ExportInv
<1>1. Init => ExportInv
  <2> SUFFICES ASSUME Init
               PROVE  ExportInv
    OBVIOUS
  <2>1. migrating \in BOOLEAN
    <3>1. migrating \in Migrating \cup {FALSE}
      BY DEF Init, RemoteInit
    <3> QED
      BY <3>1, MigratingAssumption
  <2>2. export = NoExport
    BY DEF Init, RemoteInit
  <2> QED
    BY <2>1, <2>2 DEF ExportInv, NoExport
<1>2. ExportInv /\ [Next]_vars => ExportInv'
  <2> SUFFICES ASSUME ExportInv, [Next]_vars
               PROVE  ExportInv'
    OBVIOUS
  <2>1. UNCHANGED migrating
    BY DEF Next, Give, Step, vars, remoteVars, otherVars, Create, InitializeProject, CloneSample, NewProcess,
           ListSamples, PrintSamples, Extract, SaveProperties, RemoveExtraFiles, ReadAnswers, Generate, CleanUp, UnpackBlank,
           CreateProjectFile, FindSample, CopySample, Kill, DeleteProjectFile, RemoteStep, StartExport, Export,
           CreateRemoteProjectFile, ExportEnds
  <2>2. \/ UNCHANGED export
        \/ \E key, app, single, projects :
             export' = [key |-> key, app |-> app, single |-> single, projects |-> projects, left |-> {}]
        \/ export' = [export EXCEPT !.left = export.projects]
        \/ \E p : export' = [export EXCEPT !.left = @ \ {p}]
    <3>1. CASE Give
      BY <3>1 DEF Give, remoteVars, Create, InitializeProject, CloneSample, NewProcess, ListSamples, StartExport
    <3>2. CASE RemoteStep
      BY <3>2 DEF RemoteStep, remoteVars, Export, CreateRemoteProjectFile, ExportEnds
    <3>3. CASE Step /\ ~RemoteStep
      BY <3>3 DEF Step, remoteVars, otherVars, PrintSamples, Extract, SaveProperties, RemoveExtraFiles, ReadAnswers, Generate,
                  CleanUp, UnpackBlank, CreateProjectFile, FindSample, CopySample
    <3>4. CASE Kill \/ DeleteProjectFile \/ UNCHANGED vars
      BY <3>4 DEF vars, remoteVars, otherVars, Kill, DeleteProjectFile
    <3> QED
      BY <3>1, <3>2, <3>3, <3>4 DEF Next
  <2> QED
    BY <2>1, <2>2 DEF ExportInv
<1> QED
  BY <1>1, <1>2, PTL DEF Spec

(* No file of the user's is lost by making a project around it, and the     *)
(* backup he wanted is not uploaded: until init replaces a file of Ionic   *)
(* the files are as they were, and when it does they have been saved, but  *)
(* for those a copy left out without an error.                             *)
THEOREM UserFilesAreSafe == Spec => []UserFilesSafe
<1>1. FilesInv /\ ClonesInv /\ SamplesInv /\ ExportInv => UserFilesSafe
  <2> SUFFICES ASSUME FilesInv, ClonesInv, SamplesInv, ExportInv
               PROVE  UserFilesSafe
    OBVIOUS
  <2>1. DirectoryTypeOK /\ backup \in [Paths -> Contents] /\ ignored \in BOOLEAN
    BY DEF FilesInv, TypeInv, DirectoryTypeOK, Task
  <2>2. pc \in {"idle", "extract", "properties", "extra files", "answers", "generate", "clean up", "blank", "existing",
                "backup", "ignore", "index", "config", "resources", "plugins", "assorted", "list", "find sample", "copy sample",
                "export", "project files"}
        /\ outcome \in {"none", "refused", "failed", "killed", "created", "initialized", "listed", "cloned", "exported"}
    BY DEF FilesInv, TypeInv, CreatePc, UntouchedPc, TransformPc, ClonePc, ExportPc
  <2>3. configXml \in ConfigXmls \cup {<<>>}
        /\ \A p \in PlatformNames : configs[p].made \in BOOLEAN /\ Cardinality(appResources[p]) <= Cardinality(DOMAIN Resources)
    BY ClonesCounted DEF ClonesInv
  <2>4. repositories.pages \in 0..Pages /\ printed \in [Range(Frameworks) -> {"none", "all", "some", "failed"}]
    BY DEF SamplesInv
  <2>5. migrating \in BOOLEAN /\ export.left \subseteq export.projects
    BY DEF ExportInv
  <2>6. TypeOK
    BY <2>1, <2>2, <2>3, <2>4, <2>5 DEF TypeOK
  <2> QED
    BY <2>6 DEF UserFilesSafe, FilesInv
<1> QED
  BY <1>1, FilesAlways, ClonesAlways, SamplesAlways, ExportAlways, PTL

--------------------------------------------------------------------------
(* A platform that config.xml has, has a last entry there. *)
LEMMA LastEntry ==
  ASSUME NEW n \in Nat, NEW entries, \E i \in 1..n : i \in entries
  PROVE  \E i \in 1..n : i \in entries /\ \A j \in (i + 1)..n : j \notin entries
<1> DEFINE S == {k \in 1..n : n + 1 - k \in entries}
<1>1. S \in SUBSET Nat
  OBVIOUS
<1>2. S # {}
  <2>1. PICK i \in 1..n : i \in entries
    OBVIOUS
  <2>2. n + 1 - i \in 1..n /\ n + 1 - (n + 1 - i) = i
    OBVIOUS
  <2> QED
    BY <2>1, <2>2
<1>3. Min(S) \in S /\ \A k \in S : Min(S) <= k
  BY <1>1, <1>2, LeastIsOne
<1> DEFINE m == Min(S)
<1>4. m \in 1..n /\ n + 1 - m \in entries
  BY <1>3
<1> HIDE DEF m
<1>5. ASSUME NEW j \in ((n + 1 - m) + 1)..n, j \in entries
      PROVE  FALSE
  <2>1. n + 1 - j \in 1..n /\ n + 1 - (n + 1 - j) = j /\ n + 1 - j < m
    BY <1>4, <1>5
  <2>2. n + 1 - j \in S
    BY <1>5, <2>1
  <2> QED
    BY <1>3, <1>4, <2>1, <2>2 DEF m
<1> QED
  BY <1>4, <1>5

(* All but the two steps that clone leave what was cloned as it is, ... *)
LEMMA NamedUntouched ==
  ASSUME NamedInv, UNCHANGED <<configXml, configs, appResources>>,
         PastConfig' => PastConfig /\ UNCHANGED before,
         PastResources' => PastResources /\ UNCHANGED <<before, task>>
  PROVE  NamedInv'
<1>1. \A p \in PlatformNames : \A r : CloneOf(p, r) = CloneOf(p, r)'
  BY DEF CloneOf, LastSplashes, LastOfWidget
<1>2. \A p \in PlatformNames : LastOf(p)' = LastOf(p)
  BY DEF LastOf
<1>3. PastConfig' \/ PastResources' => HadResources' = HadResources
  BY DEF HadResources
<1> QED
  BY <1>1, <1>2, <1>3 DEF NamedInv

(* ... and none of them goes past them. *)
LEMMA OthersPassNothing ==
  ASSUME FilesInv, [Next]_vars, ~CloneConfigXml, ~CloneResources
  PROVE  /\ PastConfig' => PastConfig /\ UNCHANGED before
         /\ PastResources' => PastResources /\ UNCHANGED <<before, task>>
<1>1. CASE UNCHANGED vars
  BY <1>1 DEF vars, directoryVars, PastConfig, PastResources, Initialized
<1>2. CASE Give
  <2>1. pc' \in {"idle", "extract", "blank", "list", "find sample", "export"} /\ outcome' \in {"none", "refused"}
    BY <1>2 DEF Give, Create, InitializeProject, Initialize, ListSamples, CloneSample, StartExport, Begin, Refuse
  <2> QED
    BY <2>1 DEF PastConfig, PastResources, Initialized
<1>3. CASE Transform
  <2>1. UNCHANGED before
    BY <1>3 DEF Transform, Backup, Ignore, CreateReroutingIndexHtml, DeleteEnabledPlugins, DeleteAssorted, Goto, End
  <2>2. \/ pc' \in {"ignore", "index", "config"} /\ outcome' = outcome
        \/ pc' = "idle" /\ outcome' = "failed"
        \/ pc = "plugins" /\ pc' = "assorted" /\ outcome' = outcome /\ UNCHANGED task
        \/ pc = "assorted" /\ UNCHANGED task
    BY <1>3 DEF Transform, Backup, Ignore, CreateReroutingIndexHtml, DeleteEnabledPlugins, DeleteAssorted, Goto, End
  <2>3. pc # "idle" /\ outcome = "none"
    BY <1>3 DEF Transform, Backup, Ignore, CreateReroutingIndexHtml, DeleteEnabledPlugins, DeleteAssorted, FilesInv, CommandInv
  <2> QED
    BY <2>1, <2>2, <2>3 DEF PastConfig, PastResources, Initialized
<1>4. CASE Step /\ ~Transform
  <2>1. pc # "idle" /\ outcome = "none"
    BY <1>4 DEF Step, Extract, SaveProperties, RemoveExtraFiles, ReadAnswers, Generate, CleanUp, UnpackBlank, CreateProjectFile,
                PrintSamples, FindSample, CopySample, RemoteStep, Export, CreateRemoteProjectFile, ExportEnds, FilesInv, CommandInv
  <2>2. CASE CreateProjectFile
    BY <2>1, <2>2 DEF CreateProjectFile, End, PastConfig, PastResources, Initialized, FilesInv, TypeInv, Task
  <2>3. CASE CreateRemoteProjectFile
    BY <2>1, <2>3 DEF CreateRemoteProjectFile, directoryVars, PastConfig, PastResources, Initialized
  <2>4. CASE ~CreateProjectFile /\ ~CreateRemoteProjectFile
    <3>1. pc' \notin {"resources", "plugins", "assorted"} /\ outcome' # "initialized"
      BY <1>4, <2>1, <2>4
      DEF Step, Extract, SaveProperties, RemoveExtraFiles, ReadAnswers, Generate, CleanUp, UnpackBlank,
          PrintSamples, FindSample, CopySample, GetRepositories, RemoteStep, Export, ExportEnds, Fails, Goto, End
    <3> QED
      BY <3>1 DEF PastConfig, PastResources, Initialized
  <2> QED
    BY <2>2, <2>3, <2>4
<1>5. CASE Kill \/ DeleteProjectFile
  <2>1. pc' = "idle" /\ outcome' \in {"killed", "failed"}
    BY <1>5 DEF Kill, DeleteProjectFile, End
  <2> QED
    BY <2>1 DEF PastConfig, PastResources, Initialized
<1> QED
  BY <1>1, <1>2, <1>3, <1>4, <1>5 DEF Next

(* While an Ionic project is transformed, the resources it had are there. *)
LEMMA ResourcesThere ==
  ASSUME FilesInv, pc \in {"config", "resources"}, NEW path \in HadResources
  PROVE  Has(path) /\ path \in In("resources")
<1>1. path \in In("resources") /\ path \in Paths /\ before[path] # Absent
  BY ResourcesAssumption DEF HadResources, In
<1>2. path \notin {".abproject", "index.html"}
  BY <1>1, TopAssumption, PathsAssumption DEF In
<1> QED
  BY <1>1, <1>2 DEF FilesInv, KeptInv, KeptBut, Has

(* A step that clones config.xml leaves every platform the names of its     *)
(* last entry, if there is anything to be cloned.                          *)
LEMMA ConfigsNamed ==
  ASSUME FilesInv, ClonesInv, NamedInv, CloneConfigXml
  PROVE  NamedInv'
<1>1. /\ pc = "config" /\ UNCHANGED <<project, configXml, appResources, before>>
      /\ pc' \in {"idle", "resources", "plugins"} /\ outcome' \in {"none", "failed"}
  BY DEF CloneConfigXml, Goto, End, FilesInv, CommandInv
<1>2. /\ \A p \in PlatformNames : LastOf(p)' = LastOf(p)
      /\ \A entry : Cloned(entry)' = Cloned(entry)
      /\ HadResources' = HadResources
  BY <1>1 DEF LastOf, HadResources, Cloned, NewResourceItem
<1>3. Len(configXml) \in Nat /\ DOMAIN configXml = 1..Len(configXml)
  <2>1. <<>> \in Seq(UNION {Range(config) : config \in ConfigXmls})
    OBVIOUS
  <2>2. configXml \in Seq(UNION {Range(config) : config \in ConfigXmls})
    BY <2>1, ConfigXmlsAssumption DEF ClonesInv
  <2> QED
    BY <2>2
<1>4. CASE configs' = configs /\ ~HasDirectory("resources")
  <2>1. HadResources = {}
    BY <1>1, <1>4, ResourcesThere DEF HasDirectory
  <2> QED
    BY <1>1, <1>2, <1>4, <2>1 DEF NamedInv
<1>5. CASE HasDirectory("resources")
  <2> DEFINE IsLast(i, n, p) == i \in 1..n /\ configXml[i].name = p /\ \A j \in (i + 1)..n : configXml[j].name # p
             Config(i) == [made |-> TRUE, icon |-> Cloned(configXml[i]).icon, splash |-> Cloned(configXml[i]).splash]
  <2>1. PICK n \in 0..Len(configXml) :
          /\ configs' = [p \in PlatformNames |->
                             IF \E i \in 1..n : configXml[i].name = p
                             THEN LET i == CHOOSE i \in 1..n : configXml[i].name = p /\ \A j \in (i + 1)..n : configXml[j].name # p
                                      entry == Cloned(configXml[i])
                                  IN [made |-> TRUE, icon |-> entry.icon, splash |-> entry.splash]
                             ELSE configs[p]]
          /\ \/ n < Len(configXml) /\ End("failed")
             \/ n = Len(configXml) /\ Goto("resources")
    BY <1>5, Zenon DEF CloneConfigXml
  <2>6. n \in Nat /\ 1..n \subseteq DOMAIN configXml /\ (pc' = "resources" => n = Len(configXml))
    <3>1. (n < Len(configXml) /\ pc' = "idle") \/ n = Len(configXml)
      BY <2>1, Zenon DEF End
    <3>2. n \in 0..Len(configXml)
      OBVIOUS
    <3>3. n \in Nat /\ n <= Len(configXml)
      BY <1>3, <3>2
    <3>4. 1..n \subseteq 1..Len(configXml)
      BY <1>3, <3>3
    <3>5. pc' = "resources" => n = Len(configXml)
      BY <3>1
    <3> QED
      BY <1>3, <3>3, <3>4, <3>5
  <2>2. ASSUME NEW p \in PlatformNames
        PROVE  IF \E i \in 1..n : configXml[i].name = p THEN \E i : IsLast(i, n, p) /\ configs'[p] = Config(i)
               ELSE configs'[p] = configs[p]
    <3>1. CASE ~ \E i \in 1..n : configXml[i].name = p
      BY <2>1, <3>1
    <3>2. CASE \E i \in 1..n : configXml[i].name = p
      <4> DEFINE entries == {i \in 1..n : configXml[i].name = p}
      <4>1. \E i \in 1..n : i \in entries /\ \A j \in (i + 1)..n : j \notin entries
        BY <2>6, <3>2, LastEntry
      <4>2. \E i \in 1..n : configXml[i].name = p /\ \A j \in (i + 1)..n : configXml[j].name # p
        BY <4>1, <1>3
      <4> DEFINE i == CHOOSE i \in 1..n : configXml[i].name = p /\ \A j \in (i + 1)..n : configXml[j].name # p
      <4>3. IsLast(i, n, p)
        BY <4>2
      <4>4. configs'[p] = Config(i)
        BY <2>1, <3>2
      <4> HIDE DEF i
      <4> QED
        BY <3>2, <4>3, <4>4
    <3> QED
      BY <3>1, <3>2
  <2> HIDE DEF Config, IsLast
  <2>3. ASSUME NEW p \in PlatformNames, \A i \in DOMAIN configXml : configXml[i].name # p
        PROVE  configs'[p] = NoConfig
    <3>1. ~ \E i \in 1..n : configXml[i].name = p
      BY <2>3, <2>6
    <3> QED
      BY <2>2, <2>3, <3>1 DEF NamedInv
  <2>4. ASSUME NEW p \in PlatformNames, pc' = "resources"
        PROVE  configs'[p] = NoConfig \/ \E i \in LastOf(p) : configs'[p].icon = Cloned(configXml[i]).icon
                                                             /\ configs'[p].splash = Cloned(configXml[i]).splash
    <3>1. n = Len(configXml)
      BY <2>4, <2>6
    <3>2. CASE \E i \in 1..n : configXml[i].name = p
      <4>1. PICK i : IsLast(i, n, p) /\ configs'[p] = Config(i)
        BY <2>2, <3>2
      <4>2. i \in LastOf(p)
        BY <1>3, <3>1, <4>1 DEF IsLast, LastOf
      <4> QED
        BY <4>1, <4>2 DEF Config
    <3>3. CASE ~ \E i \in 1..n : configXml[i].name = p
      BY <1>3, <2>3, <3>1, <3>3
    <3> QED
      BY <3>2, <3>3
  <2>5. pc' # "plugins"
    BY <1>5 DEF CloneConfigXml, Goto, End
  <2>7. PastConfig' => pc' = "resources"
    BY <1>1, <2>5 DEF PastConfig, Initialized
  <2>8. ~PastResources'
    BY <1>1, <2>5 DEF PastResources, Initialized
  <2> QED
    BY <1>1, <1>2, <2>3, <2>4, <2>7, <2>8 DEF NamedInv
<1> QED
  BY <1>4, <1>5 DEF CloneConfigXml

(* A step that clones the resources clones those the project had. *)
LEMMA ResourcesNamed ==
  ASSUME FilesInv, ClonesInv, NamedInv, CloneResources
  PROVE  NamedInv'
<1>1. /\ pc = "resources" /\ UNCHANGED <<project, configXml, configs, widget, before>>
      /\ outcome = "none" /\ pc' \in {"idle", "plugins"} /\ (pc' = "idle" => outcome' = "failed")
  BY DEF CloneResources, Goto, End, FilesInv, CommandInv
<1>2. /\ \A p \in PlatformNames : LastOf(p)' = LastOf(p)
      /\ \A p \in PlatformNames : \A r : CloneOf(p, r) = CloneOf(p, r)'
      /\ HadResources' = HadResources
  BY <1>1 DEF LastOf, HadResources, CloneOf, LastSplashes, LastOfWidget
<1>3. ASSUME NEW path \in HadResources
      PROVE  path \in FilesOf(Resources[path].platform)
  BY <1>1, ResourcesThere DEF FilesOf, HadResources
<1>5. pc' = "plugins" =>
        appResources' = [p \in PlatformNames |->
                           appResources[p] \cup CASE p = "android" -> CopyAndroid
                                                   [] p = "ios" -> CopyIos(task'.notCloned)
                                                   [] p = "wp8" -> CopyWindowsPhone(task'.notCloned)]
  <2>1. task \in Task
    BY DEF FilesInv, TypeInv
  <2>2. PICK done \in {{}, {"android"}, {"android", "ios"}, PlatformNames}, missed \in SUBSET CopiedAsTheyAre :
          /\ appResources' = [p \in PlatformNames |->
                                IF p \notin done THEN appResources[p]
                                ELSE appResources[p] \cup CASE p = "android" -> CopyAndroid
                                                            [] p = "ios" -> CopyIos(missed)
                                                            [] p = "wp8" -> CopyWindowsPhone(missed)]
          /\ task' = [task EXCEPT !.notCloned = missed]
          /\ done # PlatformNames => pc' = "idle"
    BY DEF CloneResources
  <2>3. task'.notCloned = missed
    BY <2>1, <2>2 DEF Task
  <2> QED
    BY <2>2, <2>3
<1>4. ASSUME NEW p \in PlatformNames, NEW path \in HadResources \ task'.notCloned, Resources[path].platform = p,
             p = "android" => Resources[path].folder \in SupportedScreens, pc' = "plugins"
      PROVE  CloneOf(p, Resources[path]) \in appResources'[p]
  <2>1. path \in FilesOf(p) /\ path \notin task'.notCloned
    BY <1>3, <1>4
  <2>2. appResources'[p] = appResources[p] \cup CASE p = "android" -> CopyAndroid
                                                  [] p = "ios" -> CopyIos(task'.notCloned)
                                                  [] p = "wp8" -> CopyWindowsPhone(task'.notCloned)
    BY <1>4, <1>5
  <2>3. CASE p = "android"
    BY <1>4, <2>1, <2>2, <2>3 DEF CopyAndroid, CloneOf
  <2>4. CASE p = "ios"
    BY <2>1, <2>2, <2>4 DEF CopyIos, CloneOf
  <2>5. CASE p = "wp8"
    <3>1. CloneOf(p, Resources[path]) \in CopyWindowsPhone(task'.notCloned)
      BY <1>1, <2>1, <2>5, WindowsPhoneClones
    <3> QED
      BY <2>2, <2>5, <3>1
  <2> QED
    BY <2>3, <2>4, <2>5, ResourcesAssumption
<1> QED
  BY <1>1, <1>2, <1>4 DEF NamedInv, PastConfig, PastResources, Initialized

LEMMA NamedAlways == Spec => []NamedInv
<1>1. Init => NamedInv
  <2> SUFFICES ASSUME Init
               PROVE  NamedInv
    OBVIOUS
  <2>1. pc = "idle" /\ outcome = "none" /\ configs = [p \in PlatformNames |-> NoConfig]
    BY DEF Init, DirectoryInit, IonicInit
  <2> QED
    BY <2>1 DEF NamedInv, PastConfig, PastResources, Initialized
<1>2. FilesInv /\ ClonesInv /\ NamedInv /\ [Next]_vars => NamedInv'
  BY OthersPassNothing, OthersCloneNothing, NamedUntouched, ConfigsNamed, ResourcesNamed
<1> QED
  BY <1>1, <1>2, FilesAlways, ClonesAlways, PTL DEF Spec

(* What config.xml calls a resource of the project is what it is cloned as. *)
LEMMA NamedAsCloned ==
  ASSUME NamedAsFiles, ClonesInv, NEW p \in PlatformNames, NEW i \in LastOf(p), NEW path \in DOMAIN Resources,
         p = "wp8" => configXml # <<>> /\ Last(configXml).name = "wp8",
         NEW named \in Cloned(configXml[i]).icon \cup Cloned(configXml[i]).splash,
         Resources[path].platform = p, Resources[path].name = named.name, Resources[path].folder = named.folder
  PROVE  /\ named = CloneOf(p, Resources[path])
         /\ p = "android" => Resources[path].folder \in SupportedScreens
<1> DEFINE r == Resources[path]
           entry == configXml[i]
<1>1. /\ configXml \in ConfigXmls /\ i \in DOMAIN configXml /\ entry.name = p
      /\ entry = [name |-> entry.name, icon |-> entry.icon, splash |-> entry.splash]
      /\ \A item \in entry.icon \cup entry.splash : item = [folder |-> item.folder, name |-> item.name, ext |-> item.ext]
  <2>1. i \in DOMAIN configXml /\ configXml[i].name = p
    BY DEF LastOf
  <2>2. configXml # <<>>
    BY <2>1
  <2> QED
    BY <2>1, <2>2, ConfigXmlsAssumption DEF ClonesInv
<1>2. /\ Cloned(entry).icon = {NewResourceItem(p, "icon", item) : item \in entry.icon}
      /\ Cloned(entry).splash = {NewResourceItem(p, "splash", item) : item \in entry.splash}
      /\ Cloned(entry).name = p
  BY <1>1 DEF Cloned
<1>3. ASSUME NEW item \in entry.icon \cup entry.splash, NEW sort
      PROVE  /\ NewResourceItem(p, sort, item).name = item.name
             /\ NewResourceItem(p, sort, item).folder = item.folder
             /\ NewResourceItem(p, sort, item) =
                  IF p = "wp8" /\ sort = "splash" /\ item.ext = "png" THEN [item EXCEPT !.ext = "jpg"] ELSE item
  BY <1>1 DEF NewResourceItem
<1>4. PICK sort \in {"icon", "splash"} :
        \E item \in IF sort = "icon" THEN entry.icon ELSE entry.splash : named = NewResourceItem(p, sort, item)
  BY <1>2
<1>5. PICK item \in IF sort = "icon" THEN entry.icon ELSE entry.splash : named = NewResourceItem(p, sort, item)
  BY <1>4
<1>6. item \in entry.icon \cup entry.splash /\ item.name = r.name /\ item.folder = r.folder
  BY <1>3, <1>5
<1>7. item.ext = r.ext /\ (p = "android" => r.folder \in SupportedScreens) /\ item = BackupFile(r)
  BY <1>1, <1>6 DEF NamedAsFiles, BackupFile
<1>8. CASE p # "wp8"
  BY <1>3, <1>5, <1>6, <1>7, <1>8 DEF CloneOf
<1>9. CASE p = "wp8"
  <2>1. LastSplashes = Cloned(entry).splash
    <3>1. Len(configXml) \in Nat /\ DOMAIN configXml = 1..Len(configXml)
      BY <1>1, ConfigXmlsAssumption
    <3>2. i = Len(configXml)
      BY <1>9, <3>1 DEF LastOf, Last
    <3> QED
      BY <1>2, <1>9, <3>2 DEF LastSplashes, LastOfWidget
  <2>2. CASE sort = "splash"
    <3>1. named \in LastSplashes /\ <<r.name, named.name>> \in PartOf
      BY <1>2, <1>5, <2>1, <2>2, ResourcesAssumption
    <3> QED
      BY <1>3, <1>5, <1>6, <1>7, <1>9, <2>2, <3>1 DEF CloneOf
  <2>3. CASE sort = "icon"
    <3>1. \A s \in entry.splash : <<r.name, s.name>> \notin PartOf
      BY <1>1, <1>5, <1>6, <1>9, <2>3 DEF NamedAsFiles
    <3>2. \A s \in LastSplashes : <<r.name, s.name>> \notin PartOf
      BY <1>2, <1>3, <2>1, <3>1
    <3> QED
      BY <1>3, <1>5, <1>6, <1>7, <2>3, <3>2 DEF CloneOf
  <2> QED
    BY <2>2, <2>3
<1> QED
  BY <1>7, <1>8, <1>9

(* For a config.xml as Ionic makes it, each resource that the config.xml of *)
(* a platform names, and the Ionic project had, is in App_Resources by that *)
(* name, unless its copy failed without an error: as the shared widget is   *)
(* that of the last platform, what is renamed in the one is renamed in the *)
(* other.                                                                  *)
THEOREM NamedResourcesAreThere == NamedAsFiles => (Spec => []NamedIsThere)
<1> SUFFICES ASSUME NamedAsFiles
             PROVE  Spec => []NamedIsThere
  OBVIOUS
<1>1. ClonesInv /\ NamedInv => NamedIsThere
  <2> SUFFICES ASSUME ClonesInv, NamedInv, Initialized, NEW p \in PlatformNames,
                      p = "wp8" => configXml # <<>> /\ Last(configXml).name = "wp8",
                      NEW named \in configs[p].icon \cup configs[p].splash,
                      NEW path \in DOMAIN Resources,
                      before[path] # Absent, path \notin task.notCloned, Resources[path].platform = p,
                      Resources[path].name = named.name, Resources[path].folder = named.folder
               PROVE  named \in appResources[p]
    BY DEF NamedIsThere, Initialized
  <2>1. path \in HadResources \ task.notCloned
    BY DEF HadResources
  <2>2. PICK i \in LastOf(p) : named \in Cloned(configXml[i]).icon \cup Cloned(configXml[i]).splash
    BY <2>1 DEF NamedInv, PastConfig, NoConfig
  <2>3. named = CloneOf(p, Resources[path]) /\ (p = "android" => Resources[path].folder \in SupportedScreens)
    BY <2>2, NamedAsCloned
  <2> QED
    BY <2>1, <2>3 DEF NamedInv, PastResources
<1> QED
  BY <1>1, ClonesAlways, NamedAlways, PTL


--------------------------------------------------------------------------
(* The solutions and apps that are listed. *)
Listed == Range(Solutions) \cup Range(Apps)

LEMMA AvailableAre ==
  ASSUME migrating \in BOOLEAN
  PROVE  /\ DOMAIN Available \in SUBSET Nat
         /\ Range(Available) = Range(Solutions) \cup (IF migrating THEN Range(Apps) ELSE {})
         /\ Range(Available) \subseteq Listed
<1> DEFINE rest == IF migrating THEN Apps ELSE <<>>
<1>1. Solutions \in Seq(Listed) /\ Apps \in Seq(Listed)
  BY SolutionsAssumption DEF Listed
<1>2. rest \in Seq(Listed) /\ Range(rest) = IF migrating THEN Range(Apps) ELSE {}
  BY <1>1 DEF Range
<1> HIDE DEF rest
<1>3. /\ Available = Solutions \o rest
      /\ Len(Solutions) \in Nat /\ Len(rest) \in Nat
      /\ DOMAIN Solutions = 1..Len(Solutions) /\ DOMAIN rest = 1..Len(rest)
      /\ DOMAIN Available = 1..(Len(Solutions) + Len(rest))
      /\ \A i \in 1..(Len(Solutions) + Len(rest)) :
           Available[i] = IF i <= Len(Solutions) THEN Solutions[i] ELSE rest[i - Len(Solutions)]
  <2>1. Available = Solutions \o rest
    BY DEF Available, rest
  <2> QED
    BY <1>1, <1>2, <2>1
<1>4. ASSUME NEW x \in Range(Available)
      PROVE  x \in Range(Solutions) \cup Range(rest)
  <2>1. PICK i \in 1..(Len(Solutions) + Len(rest)) : x = Available[i]
    BY <1>3, <1>4 DEF Range
  <2>2. CASE i <= Len(Solutions)
    <3>1. i \in DOMAIN Solutions /\ x = Solutions[i]
      BY <1>3, <2>1, <2>2
    <3> QED
      BY <3>1 DEF Range
  <2>3. CASE i > Len(Solutions)
    <3>1. i - Len(Solutions) \in DOMAIN rest /\ x = rest[i - Len(Solutions)]
      BY <1>3, <2>1, <2>3
    <3> QED
      BY <3>1 DEF Range
  <2> QED
    BY <1>3, <2>1, <2>2, <2>3
<1>5. ASSUME NEW x \in Range(Solutions)
      PROVE  x \in Range(Available)
  <2>1. PICK i \in 1..Len(Solutions) : x = Solutions[i]
    BY <1>3, <1>5 DEF Range
  <2>2. i \in DOMAIN Available /\ x = Available[i]
    BY <1>3, <2>1
  <2> QED
    BY <2>2 DEF Range
<1>6. ASSUME NEW x \in Range(rest)
      PROVE  x \in Range(Available)
  <2>1. PICK i \in 1..Len(rest) : x = rest[i]
    BY <1>3, <1>6 DEF Range
  <2>2. i + Len(Solutions) \in DOMAIN Available /\ x = Available[i + Len(Solutions)]
    BY <1>3, <2>1
  <2> QED
    BY <2>2 DEF Range
<1>7. Range(Available) = Range(Solutions) \cup Range(rest)
  BY <1>4, <1>5, <1>6
<1>8. DOMAIN Available \in SUBSET Nat
  BY <1>3
<1> QED
  BY <1>2, <1>7, <1>8 DEF Listed

(* What a key finds is listed, and it is found in the first way that finds. *)
LEMMA FoundFirst ==
  ASSUME migrating \in BOOLEAN, NEW key
  PROVE  LET ways == {way \in 1..5 : Matching(key)[way] # {}}
         IN /\ ways = {} => GetApp(key) = NoApp
            /\ ways # {} => \E way \in ways : \E i \in Matching(key)[way] :
                 /\ GetApp(key) = Available[i] /\ i \in DOMAIN Available
                 /\ \A w \in ways : way <= w
<1> DEFINE ways == {way \in 1..5 : Matching(key)[way] # {}}
           way == Min(ways)
           i == Min(Matching(key)[way])
<1>1. GetApp(key) = IF ways = {} THEN NoApp ELSE Available[i]
  BY DEF GetApp
<1>2. \A w \in 1..5 : Matching(key)[w] \subseteq DOMAIN Available
  BY DEF Matching
<1>3. DOMAIN Available \in SUBSET Nat
  BY AvailableAre
<1>4. ASSUME ways # {}
      PROVE  way \in ways /\ i \in Matching(key)[way] /\ i \in DOMAIN Available /\ \A w \in ways : way <= w
  <2>1. ways \in SUBSET Nat
    OBVIOUS
  <2>2. way \in ways /\ \A w \in ways : way <= w
    BY <1>4, <2>1, LeastIsOne
  <2> HIDE DEF way
  <2>3. way \in 1..5 /\ Matching(key)[way] # {}
    BY <2>2
  <2>4. Matching(key)[way] \in SUBSET Nat
    BY <1>2, <1>3, <2>3
  <2>5. i \in Matching(key)[way]
    BY <2>3, <2>4, LeastIsOne
  <2> QED
    BY <1>2, <2>2, <2>3, <2>5
<1> HIDE DEF way, i
<1> QED
  BY <1>1, <1>4

LEMMA FoundIsAvailable ==
  ASSUME migrating \in BOOLEAN, NEW key, GetApp(key) # NoApp
  PROVE  GetApp(key) \in Range(Available)
<1>1. \E i \in DOMAIN Available : GetApp(key) = Available[i]
  BY FoundFirst
<1> QED
  BY <1>1 DEF Range

(* If all that has the key for a name is one app, that is found. *)
LEMMA OnlyOneIsFound ==
  ASSUME migrating \in BOOLEAN, NEW key, NEW app \in Range(Available), key \in {Plain(app.id), Plain(app.name)},
         \A s \in Range(Available) :
           key \in {Display(s, "colored"), Display(s, "marked"), Plain(s.id), Plain(s.name)} => s = app
  PROVE  GetApp(key) = app
<1> DEFINE ways == {way \in 1..5 : Matching(key)[way] # {}}
<1>1. PICK k \in DOMAIN Available : app = Available[k]
  BY DEF Range
<1>2. k \in Matching(key)[3] \/ k \in Matching(key)[4]
  BY <1>1 DEF Matching
<1>3. 3 \in ways \/ 4 \in ways
  BY <1>2
<1>4. \A way \in 1..4 : \A i \in Matching(key)[way] :
        i \in DOMAIN Available /\ key \in {Display(Available[i], "colored"), Display(Available[i], "marked"), Plain(Available[i].id), Plain(Available[i].name)}
  BY DEF Matching
<1>5. \A i \in DOMAIN Available : Available[i] \in Range(Available)
  BY DEF Range
<1>6. \A way \in 1..4 : \A i \in Matching(key)[way] : Available[i] = app
  BY <1>4, <1>5
<1>7. PICK way \in ways : \E i \in Matching(key)[way] :
        /\ GetApp(key) = Available[i] /\ i \in DOMAIN Available
        /\ \A w \in ways : way <= w
  BY <1>3, FoundFirst
<1>8. way \in 1..4
  BY <1>3, <1>7
<1> QED
  BY <1>6, <1>7, <1>8

(* The project found is one of the solution's. *)
LEMMA ProjectIsFound ==
  ASSUME NEW app \in Listed, NEW identity
  PROVE  GetProjectName(app, identity) \in Range(app.projects) \cup {"none"}
<1> DEFINE found == {i \in DOMAIN app.projects : <<identity, app.projects[i]>> \in Begins}
<1>1. app.projects \in Seq(Range(app.projects))
  BY SolutionsAssumption DEF Listed
<1>2. DOMAIN app.projects \subseteq Nat
  BY <1>1
<1>3. found # {} => Min(found) \in DOMAIN app.projects
  BY <1>2, LeastIsOne
<1>4. GetProjectName(app, identity) = "none" \/ \E i \in DOMAIN app.projects : GetProjectName(app, identity) = app.projects[i]
  BY <1>3 DEF GetProjectName
<1> QED
  BY <1>4 DEF Range

(* By its name a project is found itself. *)
LEMMA ProjectIsItself ==
  ASSUME NamesTellApart, NEW app \in Listed, NEW p \in Range(app.projects)
  PROVE  GetProjectName(app, p) = p
<1> DEFINE found == {i \in DOMAIN app.projects : <<p, app.projects[i]>> \in Begins}
<1>1. app.projects \in Seq(Range(app.projects))
  BY SolutionsAssumption DEF Listed
<1>2. DOMAIN app.projects \subseteq Nat
  BY <1>1
<1>3. PICK k \in DOMAIN app.projects : p = app.projects[k]
  BY DEF Range
<1>4. \A i, j \in DOMAIN app.projects :
        /\ <<app.projects[i], app.projects[i]>> \in Begins
        /\ <<app.projects[i], app.projects[j]>> \in Begins => i <= j
  BY DEF NamesTellApart, Listed
<1>5. k \in found /\ \A i \in found : k <= i
  BY <1>3, <1>4
<1>6. found \in SUBSET Nat
  BY <1>2
<1>7. Min(found) \in found /\ Min(found) <= k
  BY <1>5, <1>6, LeastIsOne
<1>8. Min(found) = k
  <2>1. k <= Min(found) /\ Min(found) \in Nat /\ k \in Nat
    BY <1>5, <1>6, <1>7
  <2> QED
    BY <1>7, <2>1
<1>9. GetProjectName(app, p) = app.projects[Min(found)]
  BY <1>5 DEF GetProjectName
<1> QED
  BY <1>3, <1>8, <1>9

(* The properties are those of the solution that is exported. *)
LEMMA SourceIsExported ==
  ASSUME NamesTellApart, migrating \in BOOLEAN,
         export.app = GetApp(export.key), export.app \in Range(Available),
         ~(export.single /\ migrating /\ ~export.app.isApp /\ \E app \in Range(Apps) : app.name = export.app.name)
  PROVE  GetApp(KeyOfProperties) = export.app
<1> DEFINE app == export.app
<1>1. CASE ~export.single
  BY <1>1 DEF KeyOfProperties
<1>2. CASE export.single
  <2>1. app \in Listed /\ Range(Available) \subseteq Listed
    BY AvailableAre
  <2>2. \A s \in Listed : s.isApp \in BOOLEAN /\ (s.isApp => s \in Range(Apps))
    BY SolutionsAssumption DEF Listed
  <2>3. \A s \in Listed : /\ s.name = app.id => s = app
                          /\ s.id = app.name => s = app
                          /\ s.id = app.id => s = app
                          /\ s.isApp = app.isApp /\ s.name = app.name => s = app
    BY <2>1, SolutionsAssumption DEF NamesTellApart, Listed
  <2>4. \A s, mark : Display(s, mark) = Plain(s.name) \/ (migrating /\ ~s.isApp /\ Display(s, mark).mark = mark)
    BY DEF Display, Plain
  <2>5. \A x, y : Plain(x) = Plain(y) => x = y
    BY DEF Plain
  <2>6. \A x : Plain(x).mark \notin {"colored", "marked"}
    BY DEF Plain
  <2>7. CASE app.isApp
    <3>1. KeyOfProperties = Plain(app.id)
      BY <1>2, <2>7 DEF KeyOfProperties
    <3>2. \A s \in Range(Available) :
            Plain(app.id) \in {Display(s, "colored"), Display(s, "marked"), Plain(s.id), Plain(s.name)} => s = app
      BY <2>1, <2>3, <2>4, <2>5, <2>6
    <3> QED
      BY <3>1, <3>2, OnlyOneIsFound
  <2>8. CASE ~app.isApp
    <3>1. KeyOfProperties = Plain(app.name)
      BY <1>2, <2>8 DEF KeyOfProperties
    <3>2. ASSUME NEW s \in Range(Available), s.name = app.name
          PROVE  s = app
      <4>1. CASE s.isApp
        <5>1. s \in Range(Apps) /\ s \notin Range(Solutions)
          BY <2>1, <2>2, <4>1, SolutionsAssumption
        <5>2. migrating
          BY <5>1, AvailableAre
        <5> QED
          BY <1>2, <2>8, <3>2, <5>1, <5>2
      <4>2. CASE ~s.isApp
        <5>1. s.isApp = app.isApp /\ s \in Listed
          BY <2>1, <2>2, <2>8, <4>2
        <5> QED
          BY <2>3, <3>2, <5>1
      <4> QED
        BY <4>1, <4>2
    <3>3. \A s \in Range(Available) :
            Plain(app.name) \in {Display(s, "colored"), Display(s, "marked"), Plain(s.id), Plain(s.name)} => s = app
      BY <2>1, <2>3, <2>4, <2>5, <2>6, <3>2
    <3> QED
      BY <3>1, <3>3, OnlyOneIsFound
  <2> QED
    BY <2>7, <2>8
<1> QED
  BY <1>1, <1>2


--------------------------------------------------------------------------
(* The steps of the other commands export nothing. *)
LEMMA OthersExportNothing ==
  ASSUME FilesInv, [Next]_vars, ~RemoteStep,
         ~ \E key \in Keys, identity \in Identities : StartExport(key, identity)
  PROVE  /\ UNCHANGED <<migrating, folders, export>>
         /\ pc' \in ExportPc => pc' = pc
         /\ outcome' = "exported" => outcome = "exported"
<1>1. UNCHANGED <<migrating, folders, export>>
  BY DEF Next, Give, Step, vars, remoteVars, otherVars, Create, InitializeProject, CloneSample, NewProcess,
         ListSamples, PrintSamples, Extract, SaveProperties, RemoveExtraFiles, ReadAnswers, Generate, CleanUp, UnpackBlank,
         CreateProjectFile, FindSample, CopySample, Kill, DeleteProjectFile
<1>2. CASE UNCHANGED vars
  BY <1>1, <1>2 DEF vars, directoryVars
<1>3. CASE Give
  <2>1. pc' \notin ExportPc /\ outcome' # "exported"
    BY <1>3 DEF Give, Create, InitializeProject, Initialize, ListSamples, CloneSample, Begin, Refuse, FilesInv, CommandInv, ExportPc
  <2> QED
    BY <1>1, <2>1
<1>4. CASE Transform
  <2>1. pc' \notin ExportPc /\ outcome' \in {outcome, "initialized", "failed"}
    BY <1>4 DEF Transform, Backup, Ignore, CreateReroutingIndexHtml, CloneConfigXml, CloneResources, DeleteEnabledPlugins,
                DeleteAssorted, Goto, End, ExportPc
  <2> QED
    BY <1>1, <2>1
<1>5. CASE Step /\ ~Transform
  <2>1. pc' \notin ExportPc /\ outcome' \in {outcome, "failed", "created", "initialized", "listed", "cloned"}
    BY <1>5
    DEF Step, Extract, SaveProperties, RemoveExtraFiles, ReadAnswers, Generate, CleanUp, UnpackBlank, CreateProjectFile,
        PrintSamples, FindSample, CopySample, GetRepositories, Fails, Goto, End, ExportPc
  <2> QED
    BY <1>1, <2>1
<1>6. CASE Kill \/ DeleteProjectFile
  <2>1. pc' = "idle" /\ outcome' \in {outcome, "killed"}
    BY <1>6 DEF Kill, DeleteProjectFile, End
  <2> QED
    BY <1>1, <2>1 DEF ExportPc
<1> QED
  BY <1>2, <1>3, <1>4, <1>5, <1>6 DEF Next

(* What a key finds stays what it finds. *)
LEMMA FindingStays ==
  ASSUME UNCHANGED migrating
  PROVE  Available' = Available /\ \A key : GetApp(key)' = GetApp(key)
BY DEF GetApp, Matching, Available, Display

(* An export begins with what is found. *)
LEMMA StartExportExports ==
  ASSUME ExportInv, ExportedInv, NEW key, NEW identity, StartExport(key, identity), pc = "idle"
  PROVE  ExportedInv' /\ pc' # "project files"
<1> DEFINE app == GetApp(key)
           name == GetProjectName(app, identity)
           projects == IF identity = Whole THEN Range(app.projects) ELSE {name}
<1>1. UNCHANGED <<migrating, folders>>
  BY DEF StartExport
<1>2. \/ pc' = "idle" /\ outcome' = "refused"
      \/ /\ pc' = "export" /\ outcome' = "none" /\ app # NoApp /\ "none" \notin projects
         /\ export' = [key |-> key, app |-> app, single |-> identity # Whole, projects |-> projects, left |-> {}]
  BY DEF StartExport, Begin, Refuse
<1>3. ASSUME pc' = "export"
      PROVE  FoundInv'
  <2>1. migrating \in BOOLEAN
    BY DEF ExportInv
  <2>2. /\ export' = [key |-> key, app |-> app, single |-> identity # Whole, projects |-> projects, left |-> {}]
        /\ app # NoApp /\ "none" \notin projects
    BY <1>2, <1>3
  <2>3. app \in Range(Available) /\ app \in Listed
    BY <2>1, <2>2, FoundIsAvailable, AvailableAre
  <2>4. projects \subseteq Range(app.projects)
    BY <2>2, <2>3, ProjectIsFound
  <2> HIDE DEF app, projects
  <2>5. export'.key = key /\ export'.app = app /\ export'.projects = projects
    BY <2>2
  <2>6. Available' = Available /\ \A k : GetApp(k)' = GetApp(k)
    BY <1>1, FindingStays
  <2>7. GetApp(export.key)' = app
    BY <2>5, <2>6 DEF app
  <2> QED
    BY <2>3, <2>4, <2>5, <2>6, <2>7 DEF FoundInv
<1>4. FoundInv'
  BY <1>2, <1>3 DEF FoundInv, ExportPc
<1>5. FoldersInv' /\ LookedAtInv' /\ ExportedWhole' /\ pc' # "project files"
  BY <1>1, <1>2 DEF ExportedInv, FoldersInv, LookedAtInv, ExportedWhole
<1> QED
  BY <1>4, <1>5 DEF ExportedInv

(* A folder, and one field of it that is changed. *)
FolderOf(there, projects, files, warned) ==
  [there |-> there, projects |-> projects, files |-> files, warned |-> warned]

LEMMA FolderFields ==
  \A there, projects, files, warned, x, folder : folder = FolderOf(there, projects, files, warned) =>
    /\ folder.there = there /\ folder.projects = projects /\ folder.files = files /\ folder.warned = warned
    /\ [folder EXCEPT !.there = x] = FolderOf(x, projects, files, warned)
    /\ [folder EXCEPT !.projects = x] = FolderOf(there, x, files, warned)
    /\ [folder EXCEPT !.files = x] = FolderOf(there, projects, x, warned)
    /\ [folder EXCEPT !.warned = x] = FolderOf(there, projects, files, x)
BY DEF FolderOf

(* A folder that is changed in some of its fields. *)
LEMMA FolderChanges ==
  ASSUME FoldersInv, NEW name \in SolutionNames, NEW folder,
         folder = [there |-> folder.there, projects |-> folder.projects, files |-> folder.files, warned |-> folder.warned],
         folders' = [folders EXCEPT ![name] = folder]
  PROVE  FoldersInv' /\ folders'[name] = folder
BY DEF FoldersInv

(* What is exported, until it is looked at. *)
LEMMA ExportStepExports ==
  ASSUME FilesInv, ExportInv, ExportedInv, Export
  PROVE  ExportedInv' /\ (pc' = "project files" => export'.app = export.app /\ folders'[export.app.name].files = {})
<1> DEFINE name == export.app.name
           unpacked == [there |-> TRUE, projects |-> export.projects, files |-> {}, warned |-> {}]
<1>1. /\ pc = "export" /\ UNCHANGED migrating
      /\ \/ pc' = "idle" /\ outcome' = "failed" /\ UNCHANGED <<folders, export>>
         \/ pc' = "idle" /\ outcome' = "failed" /\ export' = export /\ folders' = [folders EXCEPT ![name].there = TRUE]
         \/ /\ pc' = "project files" /\ outcome' = outcome
            /\ folders' = [folders EXCEPT ![name] = unpacked]
            /\ export' = [export EXCEPT !.left = export.projects]
  BY DEF Export, End, Goto
<1>2. FoundInv /\ FoldersInv /\ ExportedWhole /\ export.app = GetApp(export.key) /\ export.app \in Range(Available)
      /\ export.projects \subseteq Range(export.app.projects)
  BY <1>1 DEF ExportedInv, FoundInv, ExportPc
<1>3. name \in SolutionNames
  BY <1>2, AvailableAre DEF SolutionNames, ExportInv
<1>4. CASE pc' = "idle" /\ outcome' = "failed" /\ UNCHANGED <<folders, export>>
  BY <1>2, <1>4 DEF ExportedInv, FoundInv, FoldersInv, LookedAtInv, ExportedWhole, ExportPc
<1>5. CASE pc' = "idle" /\ outcome' = "failed" /\ folders' = [folders EXCEPT ![name].there = TRUE]
  <2> DEFINE folder == [folders[name] EXCEPT !.there = TRUE]
  <2>1. folder = [there |-> folder.there, projects |-> folder.projects, files |-> folder.files, warned |-> folder.warned]
    <3> DEFINE old == folders[name]
    <3>1. old = [there |-> old.there, projects |-> old.projects, files |-> old.files, warned |-> old.warned]
      BY <1>2, <1>3 DEF FoldersInv
    <3> HIDE DEF old
    <3>2. \A x : [old EXCEPT !.there = x] = FolderOf(x, old.projects, old.files, old.warned)
      BY <3>1, FolderFields DEF FolderOf
    <3>3. folder = FolderOf(TRUE, old.projects, old.files, old.warned)
      BY <3>2 DEF old
    <3> HIDE DEF folder
    <3> QED
      BY <3>3 DEF FolderOf
  <2>2. folders' = [folders EXCEPT ![name] = folder]
    BY <1>5
  <2> HIDE DEF folder, name
  <2>3. FoldersInv'
    BY <1>2, <1>3, <2>1, <2>2, FolderChanges
  <2> QED
    BY <1>5, <2>3 DEF ExportedInv, FoundInv, LookedAtInv, ExportedWhole, ExportPc
<1>6. CASE /\ pc' = "project files" /\ outcome' = outcome
           /\ folders' = [folders EXCEPT ![name] = unpacked]
           /\ export' = [export EXCEPT !.left = export.projects]
  <2>1. unpacked = [there |-> unpacked.there, projects |-> unpacked.projects, files |-> unpacked.files, warned |-> unpacked.warned]
        /\ unpacked.projects = export.projects /\ unpacked.files = {} /\ unpacked.warned = {}
    OBVIOUS
  <2>2. /\ export'.key = export.key /\ export'.app = export.app /\ export'.projects = export.projects
        /\ export'.left = export.projects
    BY <1>6 DEF ExportInv
  <2> HIDE DEF unpacked, name
  <2>3. FoldersInv' /\ folders'[name] = unpacked
    BY <1>2, <1>3, <1>6, <2>1, FolderChanges
  <2>4. GetApp(export.key)' = GetApp(export.key) /\ Available' = Available
    BY <1>1, <2>2, FindingStays
  <2>5. FoundInv'
    BY <1>2, <2>2, <2>4 DEF FoundInv
  <2>6. folders'[export'.app.name] = unpacked
    BY <2>2, <2>3 DEF name
  <2>7. LookedAtInv'
    BY <2>1, <2>2, <2>6 DEF LookedAtInv
  <2>8. outcome' # "exported"
    BY <1>1, <1>6 DEF FilesInv, CommandInv
  <2> QED
    BY <1>6, <2>1, <2>2, <2>3, <2>5, <2>6, <2>7, <2>8 DEF ExportedInv, ExportedWhole, name
<1> QED
  BY <1>1, <1>4, <1>5, <1>6


(* A project is looked at: it has a file then, or a warning. *)
LEMMA LookingExports ==
  ASSUME FilesInv, ExportInv, ExportedInv, CreateRemoteProjectFile
  PROVE  /\ ExportedInv' /\ pc' = "project files" /\ export'.app = export.app /\ export'.single = export.single
         /\ \A file \in folders'[export.app.name].files :
              file \in folders[export.app.name].files
              \/ \E p \in Range(export.app.projects) :
                   \/ file = [project |-> p, of |-> <<export.app.id, p>>]
                   \/ file = [project |-> p, of |-> <<GetApp(KeyOfProperties).id, GetProjectName(GetApp(KeyOfProperties), p)>>]
<1> DEFINE name == export.app.name
           source == GetApp(KeyOfProperties)
           folder == folders[name]
           made(p) == [project |-> p, of |-> <<source.id, GetProjectName(source, p)>>]
           own(p) == [project |-> p, of |-> <<export.app.id, p>>]
<1>1. PICK p \in export.left :
        /\ export' = [export EXCEPT !.left = @ \ {p}]
        /\ \/ folders' = [folders EXCEPT ![name].files = @ \cup {own(p)}]
           \/ folders' = [folders EXCEPT ![name].warned = @ \cup {p}]
           \/ folders' = [folders EXCEPT ![name].files = @ \cup {made(p)}]
  BY DEF CreateRemoteProjectFile
<1>2. /\ pc = "project files" /\ pc' = pc /\ outcome' = outcome /\ UNCHANGED migrating
      /\ FoundInv /\ FoldersInv /\ LookedAtInv
      /\ export.app = GetApp(export.key) /\ export.app \in Range(Available)
      /\ export.projects \subseteq Range(export.app.projects) /\ export.left \subseteq export.projects
  BY DEF CreateRemoteProjectFile, directoryVars, ExportedInv, FoundInv, ExportPc, ExportInv
<1>3. name \in SolutionNames
  BY <1>2, AvailableAre DEF SolutionNames, ExportInv
<1>4. folder = [there |-> folder.there, projects |-> folder.projects, files |-> folder.files, warned |-> folder.warned]
  BY <1>2, <1>3 DEF FoldersInv
<1>5. folder.projects = export.projects /\ {file.project : file \in folder.files} \cup folder.warned = export.projects \ export.left
  BY <1>2 DEF LookedAtInv
<1>6. own(p).project = p /\ made(p).project = p
  OBVIOUS
<1>7. PICK new :
        /\ new = [there |-> folder.there, projects |-> folder.projects, files |-> new.files, warned |-> new.warned]
        /\ folders' = [folders EXCEPT ![name] = new]
        /\ \/ new.files = folder.files \cup {own(p)} /\ new.warned = folder.warned
           \/ new.files = folder.files /\ new.warned = folder.warned \cup {p}
           \/ new.files = folder.files \cup {made(p)} /\ new.warned = folder.warned
  <2> DEFINE With(files, warned) == [there |-> folder.there, projects |-> folder.projects, files |-> files, warned |-> warned]
  <2>1. \A x : [folder EXCEPT !.files = x] = With(x, folder.warned) /\ [folder EXCEPT !.warned = x] = With(folder.files, x)
    BY <1>4, FolderFields DEF FolderOf
  <2> HIDE DEF own, made, name
  <2>2. CASE folders' = [folders EXCEPT ![name].files = @ \cup {own(p)}]
    <3> DEFINE new == With(folder.files \cup {own(p)}, folder.warned)
    <3>1. folders' = [folders EXCEPT ![name] = new]
      BY <2>1, <2>2
    <3>2. new.files = folder.files \cup {own(p)} /\ new.warned = folder.warned
          /\ new = [there |-> folder.there, projects |-> folder.projects, files |-> new.files, warned |-> new.warned]
      OBVIOUS
    <3> HIDE DEF new
    <3> QED
      BY <3>1, <3>2
  <2>3. CASE folders' = [folders EXCEPT ![name].warned = @ \cup {p}]
    <3> DEFINE new == With(folder.files, folder.warned \cup {p})
    <3>1. folders' = [folders EXCEPT ![name] = new]
      BY <2>1, <2>3
    <3>2. new.files = folder.files /\ new.warned = folder.warned \cup {p}
          /\ new = [there |-> folder.there, projects |-> folder.projects, files |-> new.files, warned |-> new.warned]
      OBVIOUS
    <3> HIDE DEF new
    <3> QED
      BY <3>1, <3>2
  <2>4. CASE folders' = [folders EXCEPT ![name].files = @ \cup {made(p)}]
    <3> DEFINE new == With(folder.files \cup {made(p)}, folder.warned)
    <3>1. folders' = [folders EXCEPT ![name] = new]
      BY <2>1, <2>4
    <3>2. new.files = folder.files \cup {made(p)} /\ new.warned = folder.warned
          /\ new = [there |-> folder.there, projects |-> folder.projects, files |-> new.files, warned |-> new.warned]
      OBVIOUS
    <3> HIDE DEF new
    <3> QED
      BY <3>1, <3>2
  <2> QED
    BY <1>1, <2>2, <2>3, <2>4
<1>8. /\ export'.key = export.key /\ export'.app = export.app /\ export'.single = export.single
      /\ export'.projects = export.projects /\ export'.left = export.left \ {p}
  BY <1>1 DEF ExportInv
<1> HIDE DEF name, folder, own, made
<1>9. FoldersInv' /\ folders'[name] = new
  <2>1. new = [there |-> new.there, projects |-> new.projects, files |-> new.files, warned |-> new.warned]
    BY <1>7
  <2> QED
    BY <1>2, <1>3, <1>7, <2>1, FolderChanges
<1>10. LookedAtInv'
  <2>1. folders'[export'.app.name] = new
    BY <1>8, <1>9 DEF name
  <2>2. new.projects = export.projects
    BY <1>5, <1>7
  <2>3. {file.project : file \in new.files} \cup new.warned = {file.project : file \in folder.files} \cup folder.warned \cup {p}
    <3>1. CASE new.files = folder.files \cup {own(p)} /\ new.warned = folder.warned
      BY <1>6, <3>1
    <3>2. CASE new.files = folder.files /\ new.warned = folder.warned \cup {p}
      BY <3>2
    <3>3. CASE new.files = folder.files \cup {made(p)} /\ new.warned = folder.warned
      BY <1>6, <3>3
    <3> QED
      BY <1>7, <3>1, <3>2, <3>3
  <2>4. {file.project : file \in new.files} \cup new.warned = export.projects \ (export.left \ {p})
    BY <1>1, <1>2, <1>5, <2>3
  <2> QED
    BY <1>8, <2>1, <2>2, <2>4 DEF LookedAtInv
<1>11. FoundInv'
  <2>1. GetApp(export.key)' = GetApp(export.key) /\ Available' = Available
    BY <1>2, <1>8, FindingStays
  <2> QED
    BY <1>2, <1>8, <2>1 DEF FoundInv
<1>12. ExportedWhole'
  <2>1. outcome' # "exported"
    BY <1>2 DEF FilesInv, CommandInv
  <2> QED
    BY <2>1 DEF ExportedWhole
<1>13. p \in Range(export.app.projects)
  BY <1>1, <1>2
<1>14. \A file \in new.files : file \in folder.files \/ file = own(p) \/ file = made(p)
  BY <1>7
<1> QED
  BY <1>2, <1>8, <1>9, <1>10, <1>11, <1>12, <1>13, <1>14 DEF ExportedInv, name, folder, own, made

(* What is exported, of the whole, has been looked at. *)
LEMMA ExportEndsExports ==
  ASSUME ExportedInv, ExportEnds
  PROVE  ExportedInv' /\ pc' = "idle"
<1>1. /\ pc = "project files" /\ pc' = "idle" /\ outcome' = "exported" /\ export.left = {}
      /\ UNCHANGED <<migrating, folders, export>>
  BY DEF ExportEnds, End, remoteVars
<1>2. FoldersInv' /\ FoundInv' /\ LookedAtInv'
  BY <1>1 DEF ExportedInv, FoldersInv, FoundInv, LookedAtInv, ExportPc
<1>3. ExportedWhole'
  BY <1>1 DEF ExportedInv, LookedAtInv, ExportedWhole
<1> QED
  BY <1>1, <1>2, <1>3 DEF ExportedInv

(* The steps of other commands leave it as it is. *)
LEMMA OthersKeepExported ==
  ASSUME ExportedInv, UNCHANGED <<migrating, folders, export>>,
         pc' \in ExportPc => pc' = pc, outcome' = "exported" => outcome = "exported"
  PROVE  ExportedInv'
<1>1. GetApp(export.key)' = GetApp(export.key) /\ Available' = Available
  BY DEF GetApp, Matching, Available, Display
<1>2. FoundInv'
  BY <1>1 DEF ExportedInv, FoundInv
<1>3. FoldersInv' /\ LookedAtInv' /\ ExportedWhole'
  BY DEF ExportedInv, FoldersInv, LookedAtInv, ExportedWhole, ExportPc
<1> QED
  BY <1>2, <1>3 DEF ExportedInv

LEMMA ExportedNext == FilesInv /\ ExportInv /\ ExportedInv /\ [Next]_vars => ExportedInv'
<1> SUFFICES ASSUME FilesInv, ExportInv, ExportedInv, [Next]_vars
             PROVE  ExportedInv'
  OBVIOUS
<1>1. CASE RemoteStep
  BY <1>1, ExportStepExports, LookingExports, ExportEndsExports DEF RemoteStep
<1>2. CASE \E key \in Keys, identity \in Identities : StartExport(key, identity)
  <2>1. PICK key \in Keys, identity \in Identities : StartExport(key, identity)
    BY <1>2
  <2>2. pc = "idle"
    BY <2>1 DEF StartExport, Begin, Refuse
  <2> QED
    BY <2>1, <2>2, StartExportExports
<1>3. CASE ~RemoteStep /\ ~ \E key \in Keys, identity \in Identities : StartExport(key, identity)
  BY <1>3, OthersExportNothing, OthersKeepExported
<1> QED
  BY <1>1, <1>2, <1>3

LEMMA ExportedAlways == Spec => []ExportedInv
<1>1. Init => ExportedInv
  <2> SUFFICES ASSUME Init
               PROVE  ExportedInv
    OBVIOUS
  <2>1. pc = "idle" /\ outcome = "none" /\ folders = [name \in SolutionNames |-> NoFolder]
    BY DEF Init, DirectoryInit, RemoteInit
  <2> QED
    BY <2>1 DEF ExportedInv, FoundInv, FoldersInv, LookedAtInv, ExportedWhole, ExportPc, NoFolder
<1>2. FilesInv /\ ExportInv /\ ExportedInv /\ [Next]_vars => ExportedInv'
  BY ExportedNext
<1> QED
  BY <1>1, <1>2, FilesAlways, ExportAlways, PTL DEF Spec

(* The properties a project file is made of are those of its project. *)
LEMMA OwnPropertiesNext ==
  NamesTellApart => (FilesInv /\ ExportInv /\ ExportedInv /\ PropertiesOfExported /\ [Next]_vars => PropertiesOfExported')
<1> SUFFICES ASSUME NamesTellApart, FilesInv, ExportInv, ExportedInv, PropertiesOfExported, [Next]_vars
             PROVE  PropertiesOfExported'
  OBVIOUS
<1> DEFINE Namesake == export.single /\ migrating /\ ~export.app.isApp /\ \E app \in Range(Apps) : app.name = export.app.name
<1>1. CASE CreateRemoteProjectFile
  <2>1. /\ pc = "project files" /\ UNCHANGED migrating /\ export.app = GetApp(export.key) /\ export.app \in Range(Available)
        /\ migrating \in BOOLEAN
    BY <1>1 DEF CreateRemoteProjectFile, ExportedInv, FoundInv, ExportPc, ExportInv
  <2>2. /\ export'.app = export.app /\ export'.single = export.single
        /\ \A file \in folders'[export.app.name].files :
             file \in folders[export.app.name].files
             \/ \E p \in Range(export.app.projects) :
                  \/ file = [project |-> p, of |-> <<export.app.id, p>>]
                  \/ file = [project |-> p, of |-> <<GetApp(KeyOfProperties).id, GetProjectName(GetApp(KeyOfProperties), p)>>]
    BY <1>1, LookingExports
  <2> SUFFICES ASSUME ~Namesake, NEW file \in folders'[export.app.name].files
               PROVE  file.of = <<export.app.id, file.project>>
    BY <2>1, <2>2 DEF PropertiesOfExported
  <2>3. GetApp(KeyOfProperties) = export.app
    BY <2>1, SourceIsExported
  <2>4. \A p \in Range(export.app.projects) : GetProjectName(export.app, p) = p
    BY <2>1, ProjectIsItself, AvailableAre
  <2>5. CASE file \in folders[export.app.name].files
    BY <2>1, <2>5 DEF PropertiesOfExported
  <2>6. CASE \E p \in Range(export.app.projects) : file = [project |-> p, of |-> <<export.app.id, p>>]
    BY <2>6
  <2>7. CASE \E p \in Range(export.app.projects) :
               file = [project |-> p, of |-> <<GetApp(KeyOfProperties).id, GetProjectName(GetApp(KeyOfProperties), p)>>]
    BY <2>3, <2>4, <2>7
  <2> QED
    BY <2>2, <2>5, <2>6, <2>7
<1>2. CASE Export
  <2>1. pc' = "project files" => export'.app = export.app /\ folders'[export.app.name].files = {}
    BY <1>2, ExportStepExports
  <2> QED
    BY <2>1 DEF PropertiesOfExported
<1>3. CASE ExportEnds
  BY <1>3, ExportEndsExports DEF PropertiesOfExported
<1>4. CASE \E key \in Keys, identity \in Identities : StartExport(key, identity)
  <2>1. PICK key \in Keys, identity \in Identities : StartExport(key, identity)
    BY <1>4
  <2>2. pc = "idle"
    BY <2>1 DEF StartExport, Begin, Refuse
  <2>3. pc' # "project files"
    BY <2>1, <2>2, StartExportExports
  <2> QED
    BY <2>3 DEF PropertiesOfExported
<1>5. CASE ~RemoteStep /\ ~ \E key \in Keys, identity \in Identities : StartExport(key, identity)
  <2>1. UNCHANGED <<migrating, folders, export>> /\ (pc' \in ExportPc => pc' = pc)
    BY <1>5, OthersExportNothing
  <2> QED
    BY <2>1 DEF PropertiesOfExported, ExportPc
<1> QED
  BY <1>1, <1>2, <1>3, <1>4, <1>5 DEF RemoteStep

(* A list of samples is whole, or printed after one that failed; and of an  *)
(* export that succeeded each project has a file or a warning.             *)
THEOREM ListsAndExportsAreWhole == Spec => [](ListedWhole /\ ExportedWhole)
<1>1. SamplesInv /\ ExportedInv => ListedWhole /\ ExportedWhole
  BY DEF SamplesInv, ExportedInv
<1> QED
  BY <1>1, SamplesAlways, ExportedAlways, PTL

(* Where names tell solutions and projects apart, the project file that     *)
(* cloud export makes is of the project itself: the solution is found again *)
(* by the name it is given then, and the project by its own, whatever       *)
(* begins with it.                                                         *)
THEOREM FromCloudIsWhole == NamesTellApart => (Spec => []FromCloudWhole)
<1> SUFFICES ASSUME NamesTellApart
             PROVE  Spec => []FromCloudWhole
  OBVIOUS
<1>1. Init => PropertiesOfExported
  BY DEF Init, DirectoryInit, PropertiesOfExported
<1>2. FilesInv /\ ExportInv /\ ExportedInv /\ PropertiesOfExported /\ [Next]_vars => PropertiesOfExported'
  BY OwnPropertiesNext
<1>3. Spec => []PropertiesOfExported
  BY <1>1, <1>2, FilesAlways, ExportAlways, ExportedAlways, PTL DEF Spec
<1>4. ListedWhole /\ ExportedWhole /\ PropertiesOfExported => FromCloudWhole
  BY DEF FromCloudWhole
<1> QED
  BY <1>3, <1>4, ListsAndExportsAreWhole, PTL
=============================================================================
