----------------------- MODULE CachedPackagesProofs -----------------------
(***************************************************************************)
(* Proofs about CachedPackages: what a command starts or generates from is *)
(* whole and fresh, for any number of processes, applications, versions    *)
(* and commands, and Kendo UI is the old or the new one.                   *)
(***************************************************************************)
EXTENDS CachedPackages, TLAPS

(* The steps of an update, those after the directory was cleared, and those *)
(* of a package at hand.                                                   *)
Cleared == {"download", "unzip", "after", "save", "clean"}
Updating == {"before", "clear"} \cup Cleared
ScreenBuilderPc == {"ready", "prompt", "upgrade", "generate", "generate anyway"}
AtHand == {"ready", "plugins", "download plugins", "run", "prompt", "upgrade", "generate", "generate anyway"}

(* What a process is. *)
Process ==
  [pc : {"idle", "read"} \cup Updating \cup AtHand,
   command : {"none", "start", "add", "upgrade"},
   package : Packages,
   wanted : Versions \cup {Missing},
   downloaded : Versions \cup {Missing},
   memory : [Packages -> Versions \cup {Missing}]]

(* A process that is at work wants a version of its package, and what it    *)
(* knows of a package at hand, or to be listed, is that version.           *)
ProcessInv(q) ==
  /\ q.pc # "idle" => q.wanted \in Versions
  /\ q.pc \in {"unzip", "after"} => q.downloaded \in Versions
  /\ q.pc \in {"save"} \cup AtHand => q.memory[q.package] = q.wanted
  /\ q.pc \in {"plugins", "download plugins"} => q.package = Simulator
  /\ q.pc = "run" => q.package \in Applications

(* All processes are so. *)
ProcessesInv == process \in [Processes -> Process] /\ \A p \in Processes : ProcessInv(process[p])

(* The types of the files and the history. *)
FilesInv ==
  /\ CacheTypeOK
  /\ obsolete \in BOOLEAN
  /\ plugins \in [Versions -> {Missing, Partial, Full}]
  /\ interrupted \subseteq Versions

(* The type invariant. *)
TypeInv == FilesInv /\ ProcessesInv

(* Two processes are at work on one package only if that is known. *)
AloneInv ==
  \A p, q \in Processes :
    p # q /\ AtWork(p) /\ AtWork(q) /\ PackageOf(p) = PackageOf(q) => PackageOf(p) \in overlapped

(* What was cleared and not listed since is outdated; a package that is not *)
(* there, nor outdated, never was: no process knows a version of it.       *)
ThereInv ==
  /\ \A p \in Processes :
       PackageOf(p) \notin overlapped =>
         /\ process[p].pc \in Cleared => PackageOf(p) \in outdated
         /\ process[p].pc \in {"after", "save"} => directory[PackageOf(p)] \in Versions
  /\ \A package \in Packages \ (overlapped \cup outdated) :
       directory[package] \notin Versions =>
         /\ versions[package] = Missing
         /\ \A p \in Processes : process[p].memory[package] = Missing

(* A listed version is not newer than the directory, and older than the     *)
(* server while the package is outdated; an update is to a newer version.  *)
ListingInv(package) ==
  /\ versions[package] <= server
  /\ IF package \in outdated THEN versions[package] < server
     ELSE versions[package] # Missing => directory[package] >= versions[package]

(* And so is what each process at work knows and does. *)
UpdateInv(p) ==
  /\ process[p].wanted <= server
  /\ At(p, "read") =>
       /\ versions[PackageOf(p)] <= process[p].wanted
       /\ PackageOf(p) \in outdated => versions[PackageOf(p)] < process[p].wanted
  /\ process[p].pc \in Updating => versions[PackageOf(p)] < process[p].wanted
  /\ process[p].pc \in {"unzip", "after"} => process[p].downloaded >= process[p].wanted
  /\ process[p].pc \in {"after", "save", "ready"} => directory[PackageOf(p)] >= process[p].wanted

(* Of packages that were disturbed, nothing is said. *)
FreshInv ==
  ~wentBack =>
    /\ \A package \in Packages \ (overlapped \cup relisted) : ListingInv(package)
    /\ \A p \in Processes : AtWork(p) /\ PackageOf(p) \notin (overlapped \cup relisted) => UpdateInv(p)

(* An application at work is whole, and none is updated. *)
RunningInv ==
  /\ RunningIsWhole
  /\ \A p \in Processes :
       PackageOf(p) \notin overlapped /\ process[p].pc \in {"clear"} \cup Cleared => PackageOf(p) \notin running

(* Plugins downloaded in part are being downloaded, or were left so. *)
PluginsInv ==
  /\ PluginsAreWhole
  /\ Simulator \notin overlapped =>
       \A version \in Versions :
         plugins[version] = Partial =>
           version \in interrupted \/ \E p \in Processes : At(p, "download plugins") /\ process[p].memory[Simulator] = version

(* Where the old files are, at each step of kendoui install. *)
KendoInv ==
  /\ KendoTypeOK /\ KendoOldOrNew
  /\ install \in {"download", "rename"} => kendo = had
  /\ install = "delete" => kendo = "new"
  /\ ~harmed =>
       /\ install \notin {"unzip", "restore"} => kendo # "none" \/ kendoBackup = "none"
       /\ install = "deleted after failing" => kendo = had
       /\ install = "unzip" => kendo = "none"
       /\ install \in {"unzip", "restore"} =>
            had = IF kendo # "none" THEN kendo ELSE kendoBackup

(* The inductive invariant. *)
IInv ==
  TypeInv /\ AloneInv /\ ThereInv /\ FreshInv /\ RunningInv /\ PluginsInv /\ GeneratesInUpgraded /\ KendoInv

--------------------------------------------------------------------------
(* What a step on packages does: a command is given, a process goes on or   *)
(* is killed, or the server or the user does something.                    *)
PackagesStep ==
  \/ \E p \in Processes, command \in {"start", "add", "upgrade"}, package \in Packages :
       PrepareExtension(p, command, package) /\ UNCHANGED <<obsolete, pluginsVars>>
  \/ \E p \in Processes :
       \/ UpdateStep(p) /\ UNCHANGED <<obsolete, pluginsVars>>
       \/ ScreenBuilderStep(p) /\ UNCHANGED pluginsVars
       \/ ApplicationStep(p) /\ UNCHANGED obsolete
       \/ Kill(p)
  \/ ServerChanges /\ UNCHANGED <<obsolete, pluginsVars>>
  \/ Close /\ UNCHANGED <<obsolete, pluginsVars>>

(* What a step on Kendo UI leaves alone. *)
PackagesUnchanged ==
  UNCHANGED <<server, versions, directory, running, overlapped, outdated, wentBack, relisted,
              process, obsolete, pluginsVars>>

(* Every step is one of these, as far as packages go. *)
LEMMA StepOnPackages ==
  ASSUME [Next]_vars
  PROVE  PackagesStep \/ (PackagesUnchanged /\ (commands' = commands \/ (commands < MaxCommands /\ commands' = commands + 1)))
<1>1. CASE InstallKendo
  BY <1>1 DEF InstallKendo, PackagesUnchanged
<1>2. CASE Install
  BY <1>2 DEF Install, PackagesUnchanged, cacheVars
<1>3. CASE Environment
  BY <1>3 DEF Environment, PackagesStep, PackagesUnchanged, cacheVars
<1>4. ASSUME NEW p \in Processes, Give(p)
      PROVE  PackagesStep
  BY <1>4 DEF Give, StartScreenBuilder, StartApplication, PackagesStep, Packages
<1>5. ASSUME NEW p \in Processes, Step(p)
      PROVE  PackagesStep
  BY <1>5 DEF Step, PackagesStep
<1>6. ASSUME NEW p \in Processes, Kill(p)
      PROVE  PackagesStep
  BY <1>6 DEF PackagesStep
<1>7. CASE UNCHANGED vars
  BY <1>7 DEF vars, cacheVars, PackagesUnchanged
<1> QED
  BY <1>1, <1>2, <1>3, <1>4, <1>5, <1>6, <1>7 DEF Next

--------------------------------------------------------------------------
(* No step of kendoui install, failed or killed, leaves files its invariant *)
(* does not describe.                                                      *)
LEMMA KendoStep ==
  ASSUME KendoInv, [Next]_vars
  PROVE  KendoInv'
<1>1. \/ StartInstall \/ DownloadKendo \/ RenameKendo \/ UnzipKendo \/ RestoreKendo \/ DeleteBackup \/ KillInstall
      \/ UNCHANGED kendoVars
  <2>1. ASSUME NEW p \in Processes, Give(p) \/ Step(p) \/ Kill(p)
        PROVE  UNCHANGED kendoVars
    BY <2>1 DEF Give, Step, Kill, StartScreenBuilder, StartApplication
  <2> QED
    BY <2>1 DEF Next, InstallKendo, Install, InstallStep, Environment, vars
<1> USE DEF KendoInv, KendoTypeOK, KendoOldOrNew, Files
<1>2. CASE StartInstall
  BY <1>2 DEF StartInstall, InstallGoes
<1>3. CASE DownloadKendo
  BY <1>3 DEF DownloadKendo
<1>4. CASE RenameKendo
  BY <1>4 DEF RenameKendo
<1>5. CASE UnzipKendo
  BY <1>5 DEF UnzipKendo
<1>6. CASE RestoreKendo
  BY <1>6 DEF RestoreKendo
<1>7. CASE DeleteBackup
  BY <1>7 DEF DeleteBackup
<1>8. CASE KillInstall
  BY <1>8 DEF KillInstall, InstallGoes
<1>9. CASE UNCHANGED kendoVars
  BY <1>9 DEF kendoVars
<1> QED
  BY <1>1, <1>2, <1>3, <1>4, <1>5, <1>6, <1>7, <1>8, <1>9

--------------------------------------------------------------------------
(* Types.                                                                  *)

(* A process alone moves. *)
LEMMA OneMoves ==
  ASSUME ProcessesInv, NEW p \in Processes, NEW q, process' = [process EXCEPT ![p] = q]
  PROVE  /\ process'[p] = q
         /\ \A r \in Processes \ {p} : process'[r] = process[r]
         /\ q \in Process /\ ProcessInv(q) => ProcessesInv'
BY DEF ProcessesInv

(* A process that does nothing is of its type. *)
LEMMA IdleIsTyped == Idle \in Process /\ ProcessInv(Idle)
BY DEF Idle, Process, ProcessInv, NotListed, Packages, Missing, AtHand, Updating, Cleared, Versions

(* The next step of a process that has one. *)
LEMMA GotoIsTyped ==
  ASSUME ProcessesInv, NEW p \in Processes, NEW pc \in {"read"} \cup Updating \cup AtHand,
         process[p].pc # "idle",
         pc \in {"unzip", "after"} => process[p].downloaded \in Versions,
         pc \in {"save"} \cup AtHand => process[p].memory[PackageOf(p)] = process[p].wanted,
         pc \in {"plugins", "download plugins"} => PackageOf(p) = Simulator,
         pc = "run" => PackageOf(p) \in Applications,
         Goto(p, pc)
  PROVE  ProcessesInv'
<1> DEFINE q == [process[p] EXCEPT !.pc = pc]
<1>1. process[p] \in Process /\ ProcessInv(process[p])
  BY DEF ProcessesInv
<1>2. q \in Process
  BY <1>1 DEF Process
<1>3. q.pc = pc /\ q.wanted = process[p].wanted /\ q.downloaded = process[p].downloaded
      /\ q.memory = process[p].memory /\ q.package = process[p].package
  BY <1>1 DEF Process
<1>4. ProcessInv(q)
  BY <1>1, <1>3 DEF ProcessInv, PackageOf
<1>5. process' = [process EXCEPT ![p] = q]
  BY DEF Goto
<1> QED
  BY <1>2, <1>4, <1>5, OneMoves

(* So is one that ends. *)
LEMMA StopIsTyped ==
  ASSUME ProcessesInv, NEW p \in Processes, Stop(p)
  PROVE  ProcessesInv'
BY IdleIsTyped, OneMoves DEF Stop

(* What a process becomes in each of its steps, where it is not told where   *)
(* to go or stopped.                                                       *)
LEMMA BecomesTyped ==
  ASSUME TypeInv, NEW p \in Processes, NEW q, process' = [process EXCEPT ![p] = q], q \in Process, ProcessInv(q)
  PROVE  ProcessesInv'
BY OneMoves DEF TypeInv

(* After every step on packages the processes are of their type. *)
LEMMA StepTyped ==
  ASSUME TypeInv, PackagesStep
  PROVE  ProcessesInv'
<1> ProcessesInv
  BY DEF TypeInv
<1>a. ASSUME NEW p \in Processes
      PROVE  /\ process[p] \in Process /\ ProcessInv(process[p])
             /\ process[p].pc \in {"idle", "read"} \cup Updating \cup AtHand
             /\ PackageOf(p) \in Packages
             /\ process[p].memory \in [Packages -> Versions \cup {Missing}]
             /\ process[p].wanted \in Versions \cup {Missing}
  BY <1>a DEF ProcessesInv, Process, PackageOf
<1>b. server \in Versions /\ versions \in [Packages -> Versions \cup {Missing}]
  BY DEF TypeInv, FilesInv, CacheTypeOK
<1> USE DEF Updating, Cleared, AtHand, At, AtWork
<1>1. ASSUME NEW p \in Processes, NEW command \in {"start", "add", "upgrade"}, NEW package \in Packages,
             PrepareExtension(p, command, package)
      PROVE  ProcessesInv'
  <2> DEFINE q == [Idle EXCEPT !.command = command, !.package = package, !.wanted = server, !.memory = versions,
                     !.pc = IF package = Scaffolding /\ ~ShouldUpdatePackage(versions[package], server) THEN "ready" ELSE "read"]
  <2>1. q \in Process
    BY <1>b DEF Process, Idle
  <2>2. ProcessInv(q)
    BY <1>b DEF ProcessInv, Idle, ShouldUpdatePackage
  <2> QED
    BY <1>1, <2>1, <2>2, BecomesTyped DEF PrepareExtension
<1>2. ASSUME NEW p \in Processes, ReadVersions(p)
      PROVE  ProcessesInv'
  <2> DEFINE q == [process[p] EXCEPT !.memory = versions,
                     !.pc = IF ShouldUpdatePackage(versions[PackageOf(p)], process[p].wanted) THEN "before" ELSE "ready"]
  <2>1. q \in Process
    BY <1>a, <1>b DEF Process
  <2>2. ProcessInv(q)
    BY <1>2, <1>a, <1>b DEF ReadVersions, Process, ProcessInv, ShouldUpdatePackage, PackageOf
  <2>3. process' = [process EXCEPT ![p] = q]
    BY <1>2, <1>a DEF ReadVersions, Process, ProcessesInv
  <2> QED
    BY <2>1, <2>2, <2>3, BecomesTyped
<1>3. ASSUME NEW p \in Processes, EnsureNotRunning(p) \/ ClearDirectory(p) \/ CleanPackage(p)
      PROVE  ProcessesInv'
  BY <1>3, <1>a, GotoIsTyped, StopIsTyped DEF EnsureNotRunning, ClearDirectory, CleanPackage
<1>4. ASSUME NEW p \in Processes, DownloadPackage(p)
      PROVE  ProcessesInv'
  <2>1. CASE Goto(p, "clean")
    BY <1>4, <2>1, <1>a, GotoIsTyped DEF DownloadPackage
  <2>2. CASE process' = [process EXCEPT ![p].pc = "unzip", ![p].downloaded = server]
    <3> DEFINE q == [process[p] EXCEPT !.pc = "unzip", !.downloaded = server]
    <3>1. q \in Process
      BY <1>a, <1>b DEF Process
    <3>2. ProcessInv(q)
      BY <1>4, <1>a, <1>b DEF DownloadPackage, Process, ProcessInv
    <3>3. process' = [process EXCEPT ![p] = q]
      BY <2>2, <1>a DEF Process, ProcessesInv
    <3> QED
      BY <3>1, <3>2, <3>3, BecomesTyped
  <2> QED
    BY <1>4, <2>1, <2>2 DEF DownloadPackage
<1>5. ASSUME NEW p \in Processes, Unzip(p)
      PROVE  ProcessesInv'
  <2>1. process[p].downloaded \in Versions
    BY <1>5, <1>a DEF Unzip, ProcessInv
  <2> QED
    BY <1>5, <2>1, <1>a, GotoIsTyped DEF Unzip
<1>6. ASSUME NEW p \in Processes, AfterDownload(p)
      PROVE  ProcessesInv'
  <2>1. CASE Goto(p, "clean")
    BY <1>6, <2>1, <1>a, GotoIsTyped DEF AfterDownload
  <2>2. CASE process' = [process EXCEPT ![p].pc = "save", ![p].memory[PackageOf(p)] = process[p].wanted, ![p].downloaded = Missing]
    <3> DEFINE q == [process[p] EXCEPT !.pc = "save", !.memory[PackageOf(p)] = process[p].wanted, !.downloaded = Missing]
    <3>1. q \in Process
      BY <1>a DEF Process
    <3>2. ProcessInv(q)
      BY <1>6, <1>a DEF AfterDownload, Process, ProcessInv, PackageOf
    <3>3. process' = [process EXCEPT ![p] = q]
      BY <2>2, <1>a DEF Process, ProcessesInv
    <3> QED
      BY <3>1, <3>2, <3>3, BecomesTyped
  <2> QED
    BY <1>6, <2>1, <2>2 DEF AfterDownload
<1>7. ASSUME NEW p \in Processes, SaveVersionsFile(p)
      PROVE  ProcessesInv'
  <2>1. process[p].memory[PackageOf(p)] = process[p].wanted
    BY <1>7, <1>a DEF SaveVersionsFile, ProcessInv, PackageOf
  <2> QED
    BY <1>7, <2>1, <1>a, GotoIsTyped DEF SaveVersionsFile
<1>8. ASSUME NEW p \in Processes, ScreenBuilderStep(p)
       PROVE  ProcessesInv'
  <2>1. process[p].pc \in AtHand => process[p].memory[PackageOf(p)] = process[p].wanted
    BY <1>a DEF ProcessInv, PackageOf
  <2> QED
    BY <1>8, <2>1, <1>a, GotoIsTyped, StopIsTyped
    DEF ScreenBuilderStep, ShouldUpgrade, PromptForUpgrade, Upgrade, PromptGenerate
<1>9. ASSUME NEW p \in Processes, ApplicationStep(p)
       PROVE  ProcessesInv'
  <2>1. process[p].pc \in AtHand => process[p].memory[PackageOf(p)] = process[p].wanted
    BY <1>a DEF ProcessInv, PackageOf
  <2>2. process[p].pc \in {"plugins", "download plugins"} => PackageOf(p) = Simulator
    BY <1>a DEF ProcessInv, PackageOf
  <2>3. CASE PackageReady(p)
    BY <2>3, <2>1, <1>a, GotoIsTyped, StopIsTyped DEF PackageReady
  <2>4. CASE PreparePlugins(p)
    BY <2>4, <2>1, <2>2, <1>a, GotoIsTyped, SimulatorAssumption DEF PreparePlugins
  <2>5. CASE DownloadPlugins(p)
    BY <2>5, <2>1, <2>2, <1>a, GotoIsTyped, StopIsTyped, SimulatorAssumption DEF DownloadPlugins
  <2>6. CASE RunApplication(p)
    BY <2>6, StopIsTyped DEF RunApplication
  <2> QED
    BY <1>9, <2>3, <2>4, <2>5, <2>6 DEF ApplicationStep
<1>10. ASSUME NEW p \in Processes, Kill(p)
       PROVE  ProcessesInv'
  BY <1>10, StopIsTyped DEF Kill
<1>11. CASE ServerChanges \/ Close
  BY <1>11 DEF ServerChanges, Close, ProcessesInv
<1> QED
  BY <1>1, <1>2, <1>3, <1>4, <1>5, <1>6, <1>7, <1>8, <1>9, <1>10, <1>11 DEF PackagesStep, UpdateStep

(* And so is the rest of the state. *)
LEMMA TypeStep ==
  ASSUME TypeInv, [Next]_vars
  PROVE  TypeInv'
<1>a. /\ server \in Versions /\ versions \in [Packages -> Versions \cup {Missing}]
      /\ directory \in [Packages -> Contents] /\ running \subseteq Applications
      /\ commands \in 0..MaxCommands /\ overlapped \subseteq Packages /\ outdated \subseteq Packages
      /\ wentBack \in BOOLEAN /\ relisted \subseteq Packages /\ obsolete \in BOOLEAN
      /\ plugins \in [Versions -> {Missing, Partial, Full}] /\ interrupted \subseteq Versions
  BY DEF TypeInv, FilesInv, CacheTypeOK
<1>b. ASSUME NEW p \in Processes
      PROVE  /\ PackageOf(p) \in Packages
             /\ process[p].memory \in [Packages -> Versions \cup {Missing}]
             /\ process[p].downloaded \in Versions \cup {Missing}
             /\ process[p].pc \in {"plugins", "download plugins"} => process[p].memory[Simulator] \in Versions
             /\ At(p, "run") => PackageOf(p) \in Applications
  BY <1>b DEF TypeInv, ProcessesInv, ProcessInv, Process, PackageOf, At, AtHand
<1> SUFFICES ASSUME PackagesStep
             PROVE  TypeInv'
  BY StepOnPackages, BoundsAssumption, <1>a DEF TypeInv, FilesInv, ProcessesInv, CacheTypeOK, PackagesUnchanged, pluginsVars
<1>1. ProcessesInv'
  BY StepTyped
<1>2. FilesInv'
  <2> USE <1>a DEF FilesInv, CacheTypeOK, cacheVars, pluginsVars
  <2>1. ASSUME NEW p \in Processes, NEW command \in {"start", "add", "upgrade"}, NEW package \in Packages,
               PrepareExtension(p, command, package), UNCHANGED <<obsolete, pluginsVars>>
        PROVE  FilesInv'
    BY <2>1, BoundsAssumption DEF PrepareExtension
  <2>2. ASSUME NEW p \in Processes, UpdateStep(p), UNCHANGED <<obsolete, pluginsVars>>
        PROVE  FilesInv'
    BY <2>2, <1>b DEF UpdateStep, ReadVersions, EnsureNotRunning, ClearDirectory, DownloadPackage, Unzip, AfterDownload,
                      SaveVersionsFile, CleanPackage, Contents
  <2>3. ASSUME NEW p \in Processes, ScreenBuilderStep(p), UNCHANGED pluginsVars
        PROVE  FilesInv'
    BY <2>3 DEF ScreenBuilderStep, ShouldUpgrade, PromptForUpgrade, Upgrade, PromptGenerate
  <2>4. ASSUME NEW p \in Processes, ApplicationStep(p), UNCHANGED obsolete
        PROVE  FilesInv'
    BY <2>4, <1>b DEF ApplicationStep, PackageReady, PreparePlugins, DownloadPlugins, RunApplication, At
  <2>5. ASSUME NEW p \in Processes, Kill(p)
        PROVE  FilesInv'
    BY <2>5, <1>b DEF Kill, At
  <2>6. CASE (ServerChanges \/ Close) /\ UNCHANGED <<obsolete, pluginsVars>>
    BY <2>6, BoundsAssumption DEF ServerChanges, Close, Versions
  <2> QED
    BY <2>1, <2>2, <2>3, <2>4, <2>5, <2>6 DEF PackagesStep
<1> QED
  BY <1>1, <1>2 DEF TypeInv

--------------------------------------------------------------------------
(* What becomes of a process.                                              *)

(* Where it goes it takes along what it knows. *)
LEMMA GotoBecomes ==
  ASSUME ProcessesInv, NEW p \in Processes, NEW pc, Goto(p, pc)
  PROVE  /\ process'[p].pc = pc /\ process'[p].package = process[p].package /\ process'[p].wanted = process[p].wanted
         /\ process'[p].downloaded = process[p].downloaded /\ process'[p].memory = process[p].memory
         /\ \A r \in Processes \ {p} : process'[r] = process[r]
<1>1. process[p] \in Process
  BY DEF ProcessesInv
<1>2. process'[p] = [process[p] EXCEPT !.pc = pc] /\ \A r \in Processes \ {p} : process'[r] = process[r]
  BY OneMoves DEF Goto
<1> QED
  BY <1>1, <1>2 DEF Process

(* Where it ends it forgets all. *)
LEMMA StopBecomes ==
  ASSUME ProcessesInv, NEW p \in Processes, Stop(p)
  PROVE  /\ process'[p].pc = "idle" /\ process'[p].memory = NotListed
         /\ \A r \in Processes \ {p} : process'[r] = process[r]
<1>1. process'[p] = Idle /\ \A r \in Processes \ {p} : process'[r] = process[r]
  BY OneMoves DEF Stop
<1> QED
  BY <1>1 DEF Idle

(* A process that is started wants the version of the server, and knows the *)
(* versions file.                                                          *)
LEMMA PrepareBecomes ==
  ASSUME ProcessesInv, NEW p \in Processes, NEW command, NEW package, PrepareExtension(p, command, package)
  PROVE  /\ process'[p].pc = IF package = Scaffolding /\ ~ShouldUpdatePackage(versions[package], server) THEN "ready" ELSE "read"
         /\ process'[p].package = package /\ process'[p].wanted = server /\ process'[p].memory = versions
         /\ \A r \in Processes \ {p} : process'[r] = process[r]
         /\ process[p].pc = "idle"
         /\ overlapped' = overlapped \cup {PackageOf(r) : r \in {r \in Processes \ {p} : AtWork(r) /\ PackageOf(r) = package}}
         /\ UNCHANGED <<server, versions, directory, running, outdated, wentBack, relisted>>
<1> DEFINE q == [Idle EXCEPT !.command = command, !.package = package, !.wanted = server, !.memory = versions,
                   !.pc = IF package = Scaffolding /\ ~ShouldUpdatePackage(versions[package], server) THEN "ready" ELSE "read"]
<1>1. process' = [process EXCEPT ![p] = q]
  BY DEF PrepareExtension
<1>2. process'[p] = q /\ \A r \in Processes \ {p} : process'[r] = process[r]
  BY <1>1, OneMoves
<1>3. /\ process[p].pc = "idle"
      /\ overlapped' = overlapped \cup {PackageOf(r) : r \in {r \in Processes \ {p} : AtWork(r) /\ PackageOf(r) = package}}
      /\ UNCHANGED <<server, versions, directory, running, outdated, wentBack, relisted>>
  BY DEF PrepareExtension, AtWork, At
<1>4. /\ q.package = package /\ q.wanted = server /\ q.memory = versions
      /\ q.pc = IF package = Scaffolding /\ ~ShouldUpdatePackage(versions[package], server) THEN "ready" ELSE "read"
  BY DEF Idle
<1> QED
  BY <1>2, <1>3, <1>4

(* It goes on with its update only if the file lists another version. *)
LEMMA ReadBecomes ==
  ASSUME ProcessesInv, NEW p \in Processes, ReadVersions(p)
  PROVE  /\ process'[p].pc = IF ShouldUpdatePackage(versions[PackageOf(p)], process[p].wanted) THEN "before" ELSE "ready"
         /\ process'[p].package = process[p].package /\ process'[p].wanted = process[p].wanted /\ process'[p].memory = versions
         /\ \A r \in Processes \ {p} : process'[r] = process[r]
         /\ process[p].pc = "read" /\ UNCHANGED cacheVars
<1> DEFINE q == [process[p] EXCEPT !.memory = versions,
                   !.pc = IF ShouldUpdatePackage(versions[PackageOf(p)], process[p].wanted) THEN "before" ELSE "ready"]
<1>1. process[p] \in Process
  BY DEF ProcessesInv
<1>2. process' = [process EXCEPT ![p] = q]
  BY <1>1 DEF ReadVersions, Process, ProcessesInv
<1>3. process'[p] = q /\ \A r \in Processes \ {p} : process'[r] = process[r]
  BY <1>2, OneMoves
<1>4. process[p].pc = "read" /\ UNCHANGED cacheVars
  BY DEF ReadVersions, At
<1> QED
  BY <1>1, <1>3, <1>4 DEF Process

(* It has downloaded what the server has by then. *)
LEMMA DownloadBecomes ==
  ASSUME ProcessesInv, NEW p \in Processes, DownloadPackage(p)
  PROVE  /\ process'[p].pc = "clean" \/ (process'[p].pc = "unzip" /\ process'[p].downloaded = server)
         /\ process'[p].package = process[p].package /\ process'[p].wanted = process[p].wanted /\ process'[p].memory = process[p].memory
         /\ \A r \in Processes \ {p} : process'[r] = process[r]
         /\ process[p].pc = "download" /\ UNCHANGED cacheVars
<1>1. process[p] \in Process
  BY DEF ProcessesInv
<1>2. CASE Goto(p, "clean")
  BY <1>2, GotoBecomes DEF DownloadPackage, At
<1>3. CASE process' = [process EXCEPT ![p].pc = "unzip", ![p].downloaded = server]
  <2> DEFINE q == [process[p] EXCEPT !.pc = "unzip", !.downloaded = server]
  <2>1. process' = [process EXCEPT ![p] = q]
    BY <1>1, <1>3 DEF Process, ProcessesInv
  <2>2. process'[p] = q /\ \A r \in Processes \ {p} : process'[r] = process[r]
    BY <2>1, OneMoves
  <2> QED
    BY <1>1, <2>2 DEF Process, DownloadPackage, At
<1> QED
  BY <1>2, <1>3 DEF DownloadPackage, At

(* It takes what it wanted for the version of its package. *)
LEMMA AfterBecomes ==
  ASSUME ProcessesInv, NEW p \in Processes, AfterDownload(p)
  PROVE  /\ \/ process'[p].pc = "clean" /\ process'[p].memory = process[p].memory
            \/ process'[p].pc = "save" /\ process'[p].memory = [process[p].memory EXCEPT ![PackageOf(p)] = process[p].wanted]
         /\ process'[p].package = process[p].package /\ process'[p].wanted = process[p].wanted
         /\ \A r \in Processes \ {p} : process'[r] = process[r]
         /\ process[p].pc = "after" /\ UNCHANGED cacheVars
<1>1. process[p] \in Process
  BY DEF ProcessesInv
<1>2. CASE Goto(p, "clean")
  BY <1>2, GotoBecomes DEF AfterDownload, At
<1>3. CASE process' = [process EXCEPT ![p].pc = "save", ![p].memory[PackageOf(p)] = process[p].wanted, ![p].downloaded = Missing]
  <2> DEFINE q == [process[p] EXCEPT !.pc = "save", !.memory[PackageOf(p)] = process[p].wanted, !.downloaded = Missing]
  <2>1. process' = [process EXCEPT ![p] = q]
    BY <1>1, <1>3 DEF Process, ProcessesInv
  <2>2. process'[p] = q /\ \A r \in Processes \ {p} : process'[r] = process[r]
    BY <2>1, OneMoves
  <2> QED
    BY <1>1, <2>2 DEF Process, AfterDownload, At
<1> QED
  BY <1>2, <1>3 DEF AfterDownload, At

(* Where the steps of an update lead. *)
LEMMA UpdateGoes ==
  ASSUME ProcessesInv, NEW p \in Processes, UpdateStep(p)
  PROVE  process[p].pc \in {"read"} \cup Updating /\ process'[p].pc \in {"idle", "ready"} \cup Updating
<1> USE DEF At, Updating, Cleared
<1>1. CASE ReadVersions(p)
  BY <1>1, ReadBecomes
<1>2. CASE DownloadPackage(p)
  BY <1>2, DownloadBecomes
<1>3. CASE AfterDownload(p)
  BY <1>3, AfterBecomes
<1>4. CASE EnsureNotRunning(p) \/ ClearDirectory(p) \/ Unzip(p) \/ SaveVersionsFile(p) \/ CleanPackage(p)
  BY <1>4, GotoBecomes, StopBecomes DEF EnsureNotRunning, ClearDirectory, Unzip, SaveVersionsFile, CleanPackage
<1> QED
  BY <1>1, <1>2, <1>3, <1>4 DEF UpdateStep

(* The steps of Screen Builder lead to each other, or end. *)
LEMMA ScreenBuilderMoves ==
  ASSUME NEW p \in Processes, ScreenBuilderStep(p)
  PROVE  /\ UNCHANGED cacheVars /\ process[p].pc \in ScreenBuilderPc
         /\ Stop(p) \/ \E pc \in ScreenBuilderPc \ {"ready"} : Goto(p, pc)
BY DEF ScreenBuilderStep, ShouldUpgrade, PromptForUpgrade, Upgrade, PromptGenerate, At, ScreenBuilderPc

LEMMA ScreenBuilderGoes ==
  ASSUME ProcessesInv, NEW p \in Processes, ScreenBuilderStep(p)
  PROVE  process[p].pc \in ScreenBuilderPc /\ process'[p].pc \in {"idle"} \cup ScreenBuilderPc
BY ScreenBuilderMoves, GotoBecomes, StopBecomes

(* Where the steps that start an application lead. *)
LEMMA ApplicationGoes ==
  ASSUME ProcessesInv, NEW p \in Processes, ApplicationStep(p)
  PROVE  /\ process[p].pc \in {"ready", "plugins", "download plugins", "run"}
         /\ process'[p].pc \in {"idle", "plugins", "download plugins", "run"}
<1>1. process[p].pc \in {"ready", "plugins", "download plugins", "run"}
  BY DEF ApplicationStep, PackageReady, PreparePlugins, DownloadPlugins, RunApplication, At
<1>2. Stop(p) \/ \E pc \in {"plugins", "download plugins", "run"} : Goto(p, pc)
  BY DEF ApplicationStep, PackageReady, PreparePlugins, DownloadPlugins, RunApplication
<1> QED
  BY <1>1, <1>2, GotoBecomes, StopBecomes

(* A process at work goes on with its package, or ends. *)
LEMMA GoesOn ==
  ASSUME ProcessesInv, NEW p \in Processes,
         UpdateStep(p) \/ ScreenBuilderStep(p) \/ ApplicationStep(p) \/ Kill(p)
  PROVE  /\ AtWork(p)
         /\ AtWork(p)' => PackageOf(p)' = PackageOf(p) /\ process'[p].wanted = process[p].wanted
         /\ \A r \in Processes \ {p} : process'[r] = process[r]
         /\ overlapped' = overlapped
<1> USE DEF At, AtWork, PackageOf
<1>1. CASE UpdateStep(p)
  <2>1. CASE ReadVersions(p)
    BY <2>1, ReadBecomes DEF cacheVars
  <2>2. CASE DownloadPackage(p)
    BY <2>2, DownloadBecomes DEF cacheVars
  <2>3. CASE AfterDownload(p)
    BY <2>3, AfterBecomes DEF cacheVars
  <2>4. CASE EnsureNotRunning(p) \/ ClearDirectory(p) \/ Unzip(p) \/ SaveVersionsFile(p) \/ CleanPackage(p)
    BY <2>4, GotoBecomes, StopBecomes DEF EnsureNotRunning, ClearDirectory, Unzip, SaveVersionsFile, CleanPackage, cacheVars
  <2> QED
    BY <1>1, <2>1, <2>2, <2>3, <2>4 DEF UpdateStep
<1>2. CASE ScreenBuilderStep(p)
  BY <1>2, GotoBecomes, StopBecomes
  DEF ScreenBuilderStep, ShouldUpgrade, PromptForUpgrade, Upgrade, PromptGenerate, cacheVars
<1>3. CASE ApplicationStep(p)
  BY <1>3, GotoBecomes, StopBecomes
  DEF ApplicationStep, PackageReady, PreparePlugins, DownloadPlugins, RunApplication, cacheVars
<1>4. CASE Kill(p)
  BY <1>4, StopBecomes DEF Kill, cacheVars
<1> QED
  BY <1>1, <1>2, <1>3, <1>4

(* When a second process is started for a package, that is known. *)
LEMMA AloneStep ==
  ASSUME TypeInv, AloneInv, [Next]_vars
  PROVE  AloneInv'
<1> USE DEF AloneInv, AtWork, At, PackageOf
<1> ProcessesInv
  BY DEF TypeInv
<1>1. ASSUME NEW p \in Processes, NEW command \in {"start", "add", "upgrade"}, NEW package \in Packages,
             PrepareExtension(p, command, package)
      PROVE  AloneInv'
  BY <1>1, PrepareBecomes
<1>2. ASSUME NEW p \in Processes, UpdateStep(p) \/ ScreenBuilderStep(p) \/ ApplicationStep(p) \/ Kill(p)
      PROVE  AloneInv'
  BY <1>2, GoesOn
<1>3. CASE ServerChanges \/ Close \/ PackagesUnchanged
  BY <1>3 DEF ServerChanges, Close, PackagesUnchanged
<1> QED
  BY <1>1, <1>2, <1>3, StepOnPackages DEF PackagesStep

--------------------------------------------------------------------------
(* A package that was cleared is outdated until it is listed, and it is     *)
(* listed when it is there, in the file and by every process.              *)
LEMMA ThereStep ==
  ASSUME TypeInv, AloneInv, ThereInv, [Next]_vars
  PROVE  ThereInv'
<1> USE DEF ThereInv, AtWork, At, PackageOf, Cleared
<1> ProcessesInv
  BY DEF TypeInv
<1>a. /\ versions \in [Packages -> Versions \cup {Missing}] /\ directory \in [Packages -> Contents]
      /\ Missing \notin Versions /\ Partial \notin Versions
  BY DEF TypeInv, FilesInv, CacheTypeOK, Versions, Missing, Partial
<1>b. ASSUME NEW p \in Processes
      PROVE  /\ process[p].package \in Packages
             /\ process[p].memory \in [Packages -> Versions \cup {Missing}]
             /\ process[p].pc \in {"unzip", "after"} => process[p].downloaded \in Versions
  BY <1>b DEF TypeInv, ProcessesInv, ProcessInv, Process
<1>c. ASSUME NEW p \in Processes, NEW r \in Processes \ {p}, process[p].pc # "idle", process[r].pc # "idle",
             process[r].package = process[p].package
      PROVE  process[p].package \in overlapped
  BY <1>c DEF AloneInv
<1>1. ASSUME NEW p \in Processes, NEW command \in {"start", "add", "upgrade"}, NEW package \in Packages,
             PrepareExtension(p, command, package)
      PROVE  ThereInv'
  BY <1>1, PrepareBecomes
<1>2. ASSUME NEW p \in Processes, ReadVersions(p)
      PROVE  ThereInv'
  BY <1>2, ReadBecomes DEF cacheVars
<1>3. ASSUME NEW p \in Processes, EnsureNotRunning(p)
      PROVE  ThereInv'
  BY <1>3, GotoBecomes, StopBecomes DEF EnsureNotRunning, cacheVars, NotListed
<1>4. ASSUME NEW p \in Processes, ClearDirectory(p)
      PROVE  ThereInv'
  BY <1>4, <1>a, <1>b, <1>c, GotoBecomes, StopBecomes DEF ClearDirectory, NotListed
<1>5. ASSUME NEW p \in Processes, DownloadPackage(p)
      PROVE  ThereInv'
  BY <1>5, DownloadBecomes DEF cacheVars
<1>6. ASSUME NEW p \in Processes, Unzip(p)
      PROVE  ThereInv'
  BY <1>6, <1>a, <1>b, <1>c, GotoBecomes DEF Unzip
<1>7. ASSUME NEW p \in Processes, AfterDownload(p)
      PROVE  ThereInv'
  <2>1. /\ process[p].package \notin overlapped => process[p].package \in outdated
        /\ \A package \in Packages \ {process[p].package} : process'[p].memory[package] = process[p].memory[package]
    BY <1>7, <1>b, AfterBecomes
  <2>2. UNCHANGED <<versions, directory, overlapped, outdated>>
    BY <1>7 DEF AfterDownload, cacheVars
  <2>3. process[p].pc = "after" /\ process'[p].pc \in {"clean", "save"} /\ process'[p].package = process[p].package
        /\ \A r \in Processes \ {p} : process'[r] = process[r]
    BY <1>7, AfterBecomes
  <2>4. ASSUME NEW package \in Packages \ (overlapped \cup outdated), directory[package] \notin Versions, NEW r \in Processes
        PROVE  process'[r].memory[package] = Missing
    BY <2>1, <2>3, <2>4, <1>b
  <2>5. (\A package \in Packages \ (overlapped \cup outdated) :
          directory[package] \notin Versions =>
            versions[package] = Missing /\ \A r \in Processes : process[r].memory[package] = Missing)'
    BY <2>2, <2>4
  <2>6. ASSUME NEW r \in Processes
        PROVE  (PackageOf(r) \notin overlapped =>
                  /\ process[r].pc \in Cleared => PackageOf(r) \in outdated
                  /\ process[r].pc \in {"after", "save"} => directory[PackageOf(r)] \in Versions)'
    BY <2>2, <2>3, <2>6
  <2> QED
    BY <2>5, <2>6
<1>8. ASSUME NEW p \in Processes, SaveVersionsFile(p)
      PROVE  ThereInv'
  BY <1>8, <1>a, <1>b, <1>c, GotoBecomes DEF SaveVersionsFile
<1>9. ASSUME NEW p \in Processes, CleanPackage(p)
      PROVE  ThereInv'
  BY <1>9, <1>a, <1>b, <1>c, StopBecomes DEF CleanPackage, NotListed
<1>10. ASSUME NEW p \in Processes, ScreenBuilderStep(p)
       PROVE  ThereInv'
  <2>1. UNCHANGED cacheVars /\ process[p].pc \in ScreenBuilderPc
    BY <1>10, ScreenBuilderMoves
  <2>4. UNCHANGED <<versions, directory, overlapped, outdated>>
    BY <2>1 DEF cacheVars
  <2>2. CASE Stop(p)
    <3>1. /\ process'[p].pc = "idle" /\ process'[p].memory = NotListed
          /\ \A r \in Processes \ {p} : process'[r] = process[r]
      BY <2>2, StopBecomes
    <3> QED
      BY <2>4, <3>1 DEF NotListed
  <2>3. ASSUME NEW pc \in ScreenBuilderPc \ {"ready"}, Goto(p, pc)
        PROVE  ThereInv'
    <3>1. /\ process'[p].pc \in ScreenBuilderPc \ {"ready"} /\ process'[p].package = process[p].package /\ process'[p].wanted = process[p].wanted
          /\ process'[p].downloaded = process[p].downloaded /\ process'[p].memory = process[p].memory
          /\ \A r \in Processes \ {p} : process'[r] = process[r]
      BY <2>3, GotoBecomes
    <3>2. ASSUME NEW r \in Processes
          PROVE  /\ process'[r].package = process[r].package /\ process'[r].memory = process[r].memory
                 /\ process'[r].pc \in Cleared => process[r].pc = process'[r].pc
      BY <3>1 DEF ScreenBuilderPc
    <3> QED
      BY <2>4, <3>2
  <2> QED
    BY <1>10, <2>2, <2>3, ScreenBuilderMoves
<1>11. ASSUME NEW p \in Processes, ApplicationStep(p)
       PROVE  ThereInv'
  <2>1. UNCHANGED <<versions, directory, overlapped, outdated>>
    BY <1>11 DEF ApplicationStep, PackageReady, PreparePlugins, DownloadPlugins, RunApplication, cacheVars
  <2>2. Stop(p) \/ \E pc \in AtHand : Goto(p, pc)
    BY <1>11 DEF ApplicationStep, PackageReady, PreparePlugins, DownloadPlugins, RunApplication, AtHand
  <2>3. CASE Stop(p)
    BY <2>1, <2>3, StopBecomes DEF NotListed
  <2>4. ASSUME NEW pc \in AtHand, Goto(p, pc)
        PROVE  ThereInv'
    <3>1. pc \notin Cleared
      BY DEF AtHand
    <3> QED
      BY <2>1, <2>4, <3>1, GotoBecomes
  <2> QED
    BY <2>2, <2>3, <2>4
<1>12. ASSUME NEW p \in Processes, Kill(p)
       PROVE  ThereInv'
  <2>1. UNCHANGED <<versions, directory, overlapped, outdated>> /\ Stop(p)
    BY <1>12 DEF Kill, cacheVars
  <2> QED
    BY <2>1, StopBecomes DEF NotListed
<1>13. CASE ServerChanges \/ Close \/ PackagesUnchanged
  BY <1>13 DEF ServerChanges, Close, PackagesUnchanged
<1> QED
  BY <1>1, <1>2, <1>3, <1>4, <1>5, <1>6, <1>7, <1>8, <1>9, <1>10, <1>11, <1>12, <1>13, StepOnPackages DEF PackagesStep, UpdateStep

--------------------------------------------------------------------------
(* A listed version is never newer than the directory, so a package that is *)
(* taken for ready is.                                                     *)
LEMMA FreshStep ==
  ASSUME TypeInv, AloneInv, ThereInv, FreshInv, [Next]_vars
  PROVE  FreshInv'
<1> ProcessesInv
  BY DEF TypeInv
<1>a. /\ versions \in [Packages -> Versions \cup {Missing}] /\ directory \in [Packages -> Contents] /\ server \in Versions
      /\ wentBack \in BOOLEAN /\ overlapped \subseteq Packages /\ outdated \subseteq Packages /\ relisted \subseteq Packages
      /\ \A version \in Versions : version \in Int /\ version > 0
      /\ Missing = 0 /\ Partial = -1 /\ Contents = Versions \cup {Missing, Partial} /\ MaxVersion \in Nat
  BY BoundsAssumption DEF TypeInv, FilesInv, CacheTypeOK, Versions, Missing, Partial, Contents
<1>b. ASSUME NEW p \in Processes
      PROVE  /\ process[p].package \in Packages
             /\ process[p].memory \in [Packages -> Versions \cup {Missing}]
             /\ process[p].wanted \in Versions \cup {Missing}
             /\ process[p].pc # "idle" => process[p].wanted \in Versions
             /\ process[p].pc \in {"unzip", "after"} => process[p].downloaded \in Versions
             /\ process[p].pc = "save" => process[p].memory[process[p].package] = process[p].wanted
  BY <1>b DEF TypeInv, ProcessesInv, ProcessInv, Process
<1>c. ASSUME NEW p \in Processes, NEW r \in Processes \ {p}, process[p].pc # "idle", process[r].pc # "idle",
             process[r].package = process[p].package
      PROVE  process[p].package \in overlapped
  BY <1>c DEF AloneInv, AtWork, At, PackageOf
<1>d. ASSUME NEW p \in Processes, process[p].pc \in Cleared, process[p].package \notin overlapped
      PROVE  process[p].package \in outdated
  BY <1>d DEF ThereInv, PackageOf
<1> USE DEF FreshInv, ListingInv, UpdateInv, AtWork, At, PackageOf, Updating, Cleared
<1>1. ASSUME NEW p \in Processes, NEW command \in {"start", "add", "upgrade"}, NEW package \in Packages,
             PrepareExtension(p, command, package)
      PROVE  FreshInv'
  BY <1>1, <1>a, PrepareBecomes DEF ShouldUpdatePackage
<1>2. ASSUME NEW p \in Processes, ReadVersions(p)
      PROVE  FreshInv'
  BY <1>2, <1>a, <1>b, ReadBecomes DEF cacheVars, ShouldUpdatePackage
<1>3. ASSUME NEW p \in Processes, EnsureNotRunning(p)
      PROVE  FreshInv'
  BY <1>3, <1>a, <1>b, GotoBecomes, StopBecomes DEF EnsureNotRunning, cacheVars
<1>4. ASSUME NEW p \in Processes, ClearDirectory(p)
      PROVE  FreshInv'
  BY <1>4, <1>a, <1>b, <1>c, GotoBecomes, StopBecomes DEF ClearDirectory
<1>5. ASSUME NEW p \in Processes, DownloadPackage(p)
      PROVE  FreshInv'
  BY <1>5, <1>a, <1>b, DownloadBecomes DEF cacheVars
<1>6. ASSUME NEW p \in Processes, Unzip(p)
      PROVE  FreshInv'
  BY <1>6, <1>a, <1>b, <1>c, <1>d, GotoBecomes DEF Unzip
<1>7. ASSUME NEW p \in Processes, AfterDownload(p)
      PROVE  FreshInv'
  <2>1. UNCHANGED <<server, versions, directory, overlapped, outdated, wentBack, relisted>>
    BY <1>7 DEF AfterDownload, cacheVars
  <2>2. /\ process[p].pc = "after" /\ process'[p].pc \in {"clean", "save"}
        /\ process'[p].package = process[p].package /\ process'[p].wanted = process[p].wanted
        /\ \A r \in Processes \ {p} : process'[r] = process[r]
    BY <1>7, AfterBecomes
  <2> QED
    BY <2>1, <2>2, <1>a, <1>b
<1>8. ASSUME NEW p \in Processes, SaveVersionsFile(p)
      PROVE  FreshInv'
  BY <1>8, <1>a, <1>b, <1>c, GotoBecomes DEF SaveVersionsFile
<1>9. ASSUME NEW p \in Processes, CleanPackage(p)
      PROVE  FreshInv'
  BY <1>9, <1>a, <1>b, <1>c, <1>d, StopBecomes DEF CleanPackage
<1>10. ASSUME NEW p \in Processes, ScreenBuilderStep(p)
       PROVE  FreshInv'
  <2>1. UNCHANGED cacheVars /\ process[p].pc \in ScreenBuilderPc
    BY <1>10, ScreenBuilderMoves
  <2>4. UNCHANGED <<server, versions, directory, overlapped, outdated, wentBack, relisted>>
    BY <2>1 DEF cacheVars
  <2>2. CASE Stop(p)
    <3>1. /\ process'[p].pc = "idle" /\ process'[p].memory = NotListed
          /\ \A r \in Processes \ {p} : process'[r] = process[r]
      BY <2>2, StopBecomes
    <3> QED
      BY <2>4, <3>1
  <2>3. ASSUME NEW pc \in ScreenBuilderPc \ {"ready"}, Goto(p, pc)
        PROVE  FreshInv'
    <3>1. /\ process'[p].pc \in ScreenBuilderPc \ {"ready"} /\ process'[p].package = process[p].package /\ process'[p].wanted = process[p].wanted
          /\ process'[p].downloaded = process[p].downloaded /\ process'[p].memory = process[p].memory
          /\ \A r \in Processes \ {p} : process'[r] = process[r]
      BY <2>3, GotoBecomes
    <3> QED
      BY <2>1, <2>4, <3>1 DEF ScreenBuilderPc
  <2> QED
    BY <1>10, <2>2, <2>3, ScreenBuilderMoves
<1>11. ASSUME NEW p \in Processes, ApplicationStep(p)
       PROVE  FreshInv'
  <2>1. UNCHANGED <<server, versions, directory, overlapped, outdated, wentBack, relisted>>
    BY <1>11 DEF ApplicationStep, PackageReady, PreparePlugins, DownloadPlugins, RunApplication, cacheVars
  <2>2. Stop(p) \/ (process[p].pc # "idle" /\ \E pc \in {"plugins", "download plugins", "run"} : Goto(p, pc))
    BY <1>11 DEF ApplicationStep, PackageReady, PreparePlugins, DownloadPlugins, RunApplication
  <2>3. CASE Stop(p)
    BY <2>1, <2>3, StopBecomes
  <2>4. ASSUME NEW pc \in {"plugins", "download plugins", "run"}, Goto(p, pc), process[p].pc # "idle"
        PROVE  FreshInv'
    <3>1. /\ process'[p].pc \in {"plugins", "download plugins", "run"}
          /\ process'[p].package = process[p].package /\ process'[p].wanted = process[p].wanted
          /\ \A r \in Processes \ {p} : process'[r] = process[r]
      BY <2>4, GotoBecomes
    <3> QED
      BY <2>1, <2>4, <3>1
  <2> QED
    BY <2>2, <2>3, <2>4
<1>12. ASSUME NEW p \in Processes, Kill(p)
       PROVE  FreshInv'
  <2>1. UNCHANGED <<server, versions, directory, overlapped, outdated, wentBack, relisted>> /\ Stop(p)
    BY <1>12 DEF Kill, cacheVars
  <2> QED
    BY <2>1, StopBecomes
<1>13. CASE ServerChanges
  <2>1. /\ UNCHANGED <<versions, directory, process, overlapped, outdated, relisted>>
        /\ server' \in Versions
        /\ wentBack' = FALSE => wentBack = FALSE /\ server' >= server
    <3>1. /\ UNCHANGED <<versions, directory, process, overlapped, outdated, relisted>>
          /\ server' \in Versions /\ wentBack' = (wentBack \/ server' < server)
      BY <1>13 DEF ServerChanges
    <3>2. wentBack' = FALSE => wentBack = FALSE /\ ~(server' < server)
      BY <3>1, <1>a, Zenon
    <3> QED
      BY <3>1, <3>2, <1>a
  <2> QED
    BY <2>1, <1>a, <1>b
<1>14. CASE Close \/ PackagesUnchanged
  BY <1>14 DEF Close, PackagesUnchanged
<1> QED
  BY <1>1, <1>2, <1>3, <1>4, <1>5, <1>6, <1>7, <1>8, <1>9, <1>10, <1>11, <1>12, <1>13, <1>14, StepOnPackages DEF PackagesStep, UpdateStep

--------------------------------------------------------------------------
(* No step on a package touches the files of an application at work. *)
LEMMA RunningStep ==
  ASSUME TypeInv, AloneInv, RunningInv, [Next]_vars
  PROVE  RunningInv'
<1> USE DEF RunningInv, RunningIsWhole, AtWork, At, PackageOf, Cleared
<1> ProcessesInv
  BY DEF TypeInv
<1>a. directory \in [Packages -> Contents] /\ running \subseteq Applications /\ Applications \subseteq Packages
  BY DEF TypeInv, FilesInv, CacheTypeOK, Packages
<1>b. ASSUME NEW p \in Processes
      PROVE  process[p].package \in Packages /\ (process[p].pc = "unzip" => process[p].downloaded \in Versions)
  BY <1>b DEF TypeInv, ProcessesInv, ProcessInv, Process
<1>c. ASSUME NEW p \in Processes, NEW r \in Processes \ {p}, process[p].pc # "idle", process[r].pc # "idle",
             process[r].package = process[p].package
      PROVE  process[p].package \in overlapped
  BY <1>c DEF AloneInv
<1>1. ASSUME NEW p \in Processes, NEW command \in {"start", "add", "upgrade"}, NEW package \in Packages,
             PrepareExtension(p, command, package)
      PROVE  RunningInv'
  BY <1>1, PrepareBecomes
<1>2. ASSUME NEW p \in Processes, ReadVersions(p)
      PROVE  RunningInv'
  BY <1>2, ReadBecomes DEF cacheVars
<1>3. ASSUME NEW p \in Processes, EnsureNotRunning(p)
      PROVE  RunningInv'
  BY <1>3, GotoBecomes, StopBecomes DEF EnsureNotRunning, cacheVars
<1>4. ASSUME NEW p \in Processes, ClearDirectory(p)
      PROVE  RunningInv'
  BY <1>4, <1>a, <1>b, GotoBecomes, StopBecomes DEF ClearDirectory
<1>5. ASSUME NEW p \in Processes, DownloadPackage(p)
      PROVE  RunningInv'
  BY <1>5, DownloadBecomes DEF cacheVars
<1>6. ASSUME NEW p \in Processes, Unzip(p)
      PROVE  RunningInv'
  BY <1>6, <1>a, <1>b, GotoBecomes DEF Unzip
<1>7. ASSUME NEW p \in Processes, AfterDownload(p)
      PROVE  RunningInv'
  <2>1. UNCHANGED <<directory, overlapped, running>>
    BY <1>7 DEF AfterDownload, cacheVars
  <2>2. /\ process[p].pc = "after" /\ process'[p].package = process[p].package
        /\ \A r \in Processes \ {p} : process'[r] = process[r]
    BY <1>7, AfterBecomes
  <2> QED
    BY <2>1, <2>2
<1>8. ASSUME NEW p \in Processes, SaveVersionsFile(p)
      PROVE  RunningInv'
  BY <1>8, GotoBecomes DEF SaveVersionsFile
<1>9. ASSUME NEW p \in Processes, CleanPackage(p)
      PROVE  RunningInv'
  BY <1>9, <1>a, <1>b, StopBecomes DEF CleanPackage
<1>10. ASSUME NEW p \in Processes, ScreenBuilderStep(p)
       PROVE  RunningInv'
  <2>1. UNCHANGED cacheVars /\ process[p].pc \in ScreenBuilderPc
    BY <1>10, ScreenBuilderMoves
  <2>2. UNCHANGED <<directory, overlapped, running>>
    BY <2>1 DEF cacheVars
  <2>3. /\ process'[p].pc \in {"idle"} \cup (ScreenBuilderPc \ {"ready"})
        /\ \A r \in Processes \ {p} : process'[r] = process[r]
    BY <1>10, ScreenBuilderMoves, GotoBecomes, StopBecomes
  <2>4. process'[p].pc \in {"idle", "prompt", "upgrade", "generate", "generate anyway"}
    BY <2>3 DEF ScreenBuilderPc
  <2> HIDE <1>10
  <2> QED
    BY <2>2, <2>3, <2>4
<1>11. ASSUME NEW p \in Processes, PackageReady(p) \/ PreparePlugins(p) \/ DownloadPlugins(p)
       PROVE  RunningInv'
  <2>1. UNCHANGED <<directory, overlapped, running>>
    BY <1>11 DEF PackageReady, PreparePlugins, DownloadPlugins, cacheVars
  <2>2. Stop(p) \/ \E pc \in {"plugins", "download plugins", "run"} : Goto(p, pc)
    BY <1>11 DEF PackageReady, PreparePlugins, DownloadPlugins
  <2>3. process'[p].pc \in {"idle", "plugins", "download plugins", "run"} /\ \A r \in Processes \ {p} : process'[r] = process[r]
    BY <2>2, GotoBecomes, StopBecomes
  <2> QED
    BY <2>1, <2>3
<1>12. ASSUME NEW p \in Processes, RunApplication(p)
       PROVE  RunningInv'
  BY <1>12, <1>b, <1>c, StopBecomes DEF RunApplication
<1>13. ASSUME NEW p \in Processes, Kill(p)
       PROVE  RunningInv'
  <2>1. UNCHANGED <<directory, overlapped, running>> /\ Stop(p)
    BY <1>13 DEF Kill, cacheVars
  <2> QED
    BY <2>1, StopBecomes
<1>14. CASE ServerChanges \/ Close \/ PackagesUnchanged
  BY <1>14 DEF ServerChanges, Close, PackagesUnchanged
<1> QED
  BY <1>1, <1>2, <1>3, <1>4, <1>5, <1>6, <1>7, <1>8, <1>9, <1>10, <1>11, <1>12, <1>13, <1>14, StepOnPackages
  DEF PackagesStep, UpdateStep, ApplicationStep

(* A directory of plugins cannot be two things. *)
LEMMA PluginsDiffer == Missing # Partial /\ Full # Partial /\ Full # Missing
BY BoundsAssumption DEF Missing, Partial, Full

(* A process that ends without a change to the plugins, and is known to     *)
(* leave those it was downloading in part.                                 *)
LEMMA LeftInPart ==
  ASSUME ProcessesInv, PluginsInv, NEW p \in Processes, Stop(p), UNCHANGED <<overlapped, plugins>>,
         interrupted \subseteq interrupted',
         process[p].pc = "download plugins" => process[p].memory[Simulator] \in interrupted'
  PROVE  PluginsInv'
<1> USE DEF PluginsInv, PluginsAreWhole, AtWork, At, PackageOf
<1>1. /\ process'[p].pc = "idle"
      /\ \A r \in Processes \ {p} : process'[r] = process[r]
  BY StopBecomes
<1>2. ASSUME NEW other \in Versions, plugins[other] = Partial, Simulator \notin overlapped, other \notin interrupted'
      PROVE  \E r \in Processes : process'[r].pc = "download plugins" /\ process'[r].memory[Simulator] = other
  <2>1. PICK r \in Processes : process[r].pc = "download plugins" /\ process[r].memory[Simulator] = other
    BY <1>2
  <2>2. process'[r] = process[r]
    BY <1>1, <1>2, <2>1
  <2> QED
    BY <2>1, <2>2
<1> QED
  BY <1>1, <1>2

(* Plugins that are there in part are being downloaded, so they are not     *)
(* taken for all, unless that was killed or could not be undone.           *)
LEMMA PluginsStep ==
  ASSUME TypeInv, AloneInv, PluginsInv, [Next]_vars
  PROVE  PluginsInv'
<1> USE DEF PluginsInv, PluginsAreWhole, AtWork, At, PackageOf
<1> ProcessesInv
  BY DEF TypeInv
<1>a. plugins \in [Versions -> {Missing, Partial, Full}] /\ Missing # Partial /\ Full # Partial /\ Full # Missing
  BY PluginsDiffer DEF TypeInv, FilesInv
<1>b. ASSUME NEW p \in Processes, process[p].pc \in {"plugins", "download plugins"}
      PROVE  process[p].package = Simulator /\ process[p].memory[Simulator] \in Versions
  BY <1>b, SimulatorAssumption DEF TypeInv, ProcessesInv, ProcessInv, Process, AtHand, Packages
<1>c. ASSUME NEW p \in Processes, NEW r \in Processes \ {p}, process[p].pc # "idle", process[r].pc # "idle",
             process[r].package = process[p].package
      PROVE  process[p].package \in overlapped
  BY <1>c DEF AloneInv
(* A step after which nothing was done to plugins. *)
<1>d. ASSUME NEW p \in Processes, UNCHANGED pluginsVars, overlapped \subseteq overlapped',
             process[p].pc # "download plugins", \A r \in Processes \ {p} : process'[r] = process[r],
             process'[p].pc = "run" => process'[p].package # Simulator
      PROVE  PluginsInv'
  BY <1>d DEF pluginsVars
<1>e. ASSUME NEW other \in Versions, plugins[other] = Partial, Simulator \notin overlapped, other \notin interrupted
      PROVE  \E r \in Processes : process[r].pc = "download plugins" /\ process[r].memory[Simulator] = other
  BY <1>e
<1>1. ASSUME NEW p \in Processes, NEW command \in {"start", "add", "upgrade"}, NEW package \in Packages,
             PrepareExtension(p, command, package), UNCHANGED pluginsVars
      PROVE  PluginsInv'
  <2>1. /\ overlapped \subseteq overlapped' /\ process[p].pc # "download plugins" /\ process'[p].pc # "run"
        /\ \A r \in Processes \ {p} : process'[r] = process[r]
    BY <1>1, PrepareBecomes
  <2> QED
    BY <1>1, <1>d, <2>1
<1>2. ASSUME NEW p \in Processes, UpdateStep(p), UNCHANGED pluginsVars
      PROVE  PluginsInv'
  <2>1. process[p].pc # "download plugins" /\ process'[p].pc # "run"
    BY <1>2, UpdateGoes DEF Updating, Cleared
  <2> QED
    BY <1>2, <1>d, <2>1, GoesOn
<1>3. ASSUME NEW p \in Processes, ScreenBuilderStep(p), UNCHANGED pluginsVars
      PROVE  PluginsInv'
  <2>1. process[p].pc # "download plugins" /\ process'[p].pc # "run"
    BY <1>3, ScreenBuilderGoes DEF ScreenBuilderPc
  <2> QED
    BY <1>3, <1>d, <2>1, GoesOn
<1>4. ASSUME NEW p \in Processes, PackageReady(p) \/ RunApplication(p)
      PROVE  PluginsInv'
  <2>1. process[p].pc # "download plugins" /\ UNCHANGED pluginsVars
    BY <1>4 DEF PackageReady, RunApplication
  <2>2. process'[p].pc = "run" => process'[p].package # Simulator
    <3>1. CASE PackageReady(p)
      <4>1. CASE Stop(p)
        BY <4>1, StopBecomes
      <4>2. CASE process[p].package # Simulator /\ Goto(p, "run")
        BY <4>2, GotoBecomes
      <4>3. CASE Goto(p, "plugins")
        <5>1. process'[p].pc = "plugins"
          BY <4>3, GotoBecomes
        <5> QED
          BY <5>1
      <4> QED
        BY <3>1, <4>1, <4>2, <4>3 DEF PackageReady
    <3>2. CASE RunApplication(p)
      BY <3>2, StopBecomes DEF RunApplication
    <3> QED
      BY <1>4, <3>1, <3>2
  <2>3. /\ overlapped' = overlapped
        /\ \A r \in Processes \ {p} : process'[r] = process[r]
    BY <1>4, GoesOn DEF ApplicationStep
  <2> QED
    BY <1>d, <2>1, <2>2, <2>3
<1>5. ASSUME NEW p \in Processes, PreparePlugins(p)
      PROVE  PluginsInv'
  <2> DEFINE version == process[p].memory[Simulator]
  <2>1. /\ process[p].pc = "plugins" /\ process[p].package = Simulator /\ version \in Versions
        /\ UNCHANGED <<overlapped, interrupted>>
    BY <1>5, <1>b DEF PreparePlugins, cacheVars
  <2>2. CASE plugins[version] # Missing /\ Goto(p, "run") /\ UNCHANGED plugins
    <3>1. /\ process'[p].pc = "run" /\ process'[p].package = Simulator /\ process'[p].memory = process[p].memory
          /\ \A r \in Processes \ {p} : process'[r] = process[r]
      BY <2>1, <2>2, GotoBecomes
    <3>2. Simulator \notin overlapped => \A r \in Processes : process[r].pc # "download plugins"
      BY <2>1, <1>b, <1>c
    <3>3. Simulator \notin overlapped => plugins[version] = Full \/ version \in interrupted
      BY <2>1, <2>2, <3>2, <1>a
    <3> QED
      BY <2>1, <2>2, <3>1, <3>2, <3>3
  <2>3. CASE plugins[version] = Missing /\ Goto(p, "download plugins") /\ plugins' = [plugins EXCEPT ![version] = Partial]
    <3>1. /\ process'[p].pc = "download plugins" /\ process'[p].package = Simulator /\ process'[p].memory = process[p].memory
          /\ \A r \in Processes \ {p} : process'[r] = process[r]
      BY <2>1, <2>3, GotoBecomes
    <3>2. plugins'[version] = Partial /\ \A other \in Versions \ {version} : plugins'[other] = plugins[other]
      BY <2>1, <2>3, <1>a
    <3>3. ASSUME NEW r \in Processes, process'[r].pc = "run", process'[r].package = Simulator
          PROVE  Simulator \in overlapped
      BY <2>1, <3>1, <3>3, <1>c, ZenonT(40)
    <3>4. ASSUME NEW other \in Versions, plugins'[other] = Partial, Simulator \notin overlapped
          PROVE  other \in interrupted \/ \E r \in Processes : process'[r].pc = "download plugins" /\ process'[r].memory[Simulator] = other
      <4>1. CASE other = version
        BY <3>1, <4>1
      <4>2. CASE plugins[other] = Partial /\ other \notin interrupted
        <5>1. PICK r \in Processes : process[r].pc = "download plugins" /\ process[r].memory[Simulator] = other
          BY <1>e, <3>4, <4>2
        <5>2. process'[r] = process[r]
          BY <2>1, <3>1, <5>1
        <5> QED
          BY <5>1, <5>2
      <4> QED
        BY <3>2, <3>4, <4>1, <4>2
    <3> QED
      BY <2>1, <3>3, <3>4
  <2> QED
    BY <1>5, <2>2, <2>3 DEF PreparePlugins
<1>6. ASSUME NEW p \in Processes, DownloadPlugins(p)
      PROVE  PluginsInv'
  <2> DEFINE version == process[p].memory[Simulator]
  <2>1. /\ process[p].pc = "download plugins" /\ process[p].package = Simulator /\ version \in Versions
        /\ UNCHANGED overlapped
    BY <1>6, <1>b DEF DownloadPlugins, cacheVars
  <2>2. CASE Goto(p, "run") /\ plugins' = [plugins EXCEPT ![version] = Full] /\ UNCHANGED interrupted
    <3>1. /\ process'[p].pc = "run" /\ process'[p].package = Simulator /\ process'[p].memory = process[p].memory
          /\ \A r \in Processes \ {p} : process'[r] = process[r]
      BY <2>1, <2>2, GotoBecomes
    <3>2. plugins'[version] = Full /\ \A other \in Versions \ {version} : plugins'[other] = plugins[other]
      BY <2>1, <2>2, <1>a
    <3>3. ASSUME NEW r \in Processes, process'[r].pc = "run", process'[r].package = Simulator, Simulator \notin overlapped
          PROVE  plugins'[process'[r].memory[Simulator]] = Full
      <4>1. r = p
        BY <2>1, <3>1, <3>3, <1>c, ZenonT(40)
      <4> QED
        BY <3>1, <3>2, <4>1
    <3>4. ASSUME NEW other \in Versions, plugins'[other] = Partial, Simulator \notin overlapped
          PROVE  other \in interrupted \/ \E r \in Processes : process'[r].pc = "download plugins" /\ process'[r].memory[Simulator] = other
      <4>1. other # version /\ plugins[other] = Partial
        BY <3>2, <3>4, <1>a
      <4>2. CASE other \notin interrupted
        <5>1. PICK r \in Processes : process[r].pc = "download plugins" /\ process[r].memory[Simulator] = other
          BY <1>e, <3>4, <4>1, <4>2
        <5>2. process'[r] = process[r]
          BY <3>1, <4>1, <5>1
        <5> QED
          BY <5>1, <5>2
      <4> QED
        BY <4>2
    <3> QED
      BY <2>1, <2>2, <3>3, <3>4
  <2>3. CASE Stop(p) /\ plugins' = [plugins EXCEPT ![version] = Missing] /\ UNCHANGED interrupted
    <3>1. /\ process'[p].pc = "idle"
          /\ \A r \in Processes \ {p} : process'[r] = process[r]
      BY <2>3, StopBecomes
    <3>2. plugins'[version] = Missing /\ \A other \in Versions \ {version} : plugins'[other] = plugins[other]
      BY <2>1, <2>3, <1>a
    <3>3. ASSUME NEW r \in Processes, process'[r].pc = "run", process'[r].package = Simulator
          PROVE  Simulator \in overlapped
      BY <2>1, <3>1, <3>3, <1>c, ZenonT(40)
    <3>4. ASSUME NEW other \in Versions, plugins'[other] = Partial, Simulator \notin overlapped
          PROVE  other \in interrupted \/ \E r \in Processes : process'[r].pc = "download plugins" /\ process'[r].memory[Simulator] = other
      <4>1. other # version /\ plugins[other] = Partial
        BY <3>2, <3>4, <1>a
      <4>2. CASE other \notin interrupted
        <5>1. PICK r \in Processes : process[r].pc = "download plugins" /\ process[r].memory[Simulator] = other
          BY <1>e, <3>4, <4>1, <4>2
        <5>2. process'[r] = process[r]
          BY <3>1, <4>1, <5>1
        <5> QED
          BY <5>1, <5>2
      <4> QED
        BY <4>2
    <3> QED
      BY <2>1, <2>3, <3>3, <3>4
  <2>4. CASE Stop(p) /\ interrupted' = interrupted \cup {version} /\ UNCHANGED plugins
    BY <2>1, <2>4, LeftInPart
  <2> QED
    BY <1>6, <2>2, <2>3, <2>4 DEF DownloadPlugins
<1>7. ASSUME NEW p \in Processes, Kill(p)
      PROVE  PluginsInv'
  <2>1. /\ UNCHANGED <<overlapped, plugins>> /\ Stop(p)
        /\ interrupted \subseteq interrupted'
        /\ process[p].pc = "download plugins" => process[p].memory[Simulator] \in interrupted'
    BY <1>7 DEF Kill, cacheVars
  <2> QED
    BY <2>1, LeftInPart
<1>8. CASE ((ServerChanges \/ Close) /\ UNCHANGED pluginsVars) \/ PackagesUnchanged
  BY <1>8 DEF ServerChanges, Close, PackagesUnchanged, pluginsVars
<1> QED
  BY <1>1, <1>2, <1>3, <1>4, <1>5, <1>6, <1>7, <1>8, StepOnPackages DEF PackagesStep, ApplicationStep

(* Screen Builder goes on to generate only in an upgraded project. *)
LEMMA GeneratesStep ==
  ASSUME TypeInv, GeneratesInUpgraded, [Next]_vars
  PROVE  GeneratesInUpgraded'
<1> USE DEF GeneratesInUpgraded, At
<1> ProcessesInv
  BY DEF TypeInv
<1>a. obsolete \in BOOLEAN
  BY DEF TypeInv, FilesInv
<1>1. ASSUME NEW p \in Processes, NEW command \in {"start", "add", "upgrade"}, NEW package \in Packages,
             PrepareExtension(p, command, package), UNCHANGED obsolete
      PROVE  GeneratesInUpgraded'
  BY <1>1, PrepareBecomes
<1>2. ASSUME NEW p \in Processes, UpdateStep(p) \/ ApplicationStep(p) \/ Kill(p), UNCHANGED obsolete
      PROVE  GeneratesInUpgraded'
  <2>1. process'[p].pc # "generate"
    <3>1. CASE UpdateStep(p)
      BY <3>1, UpdateGoes DEF Updating, Cleared
    <3>2. CASE ApplicationStep(p)
      BY <3>2, ApplicationGoes
    <3>3. CASE Kill(p)
      BY <3>3, StopBecomes DEF Kill
    <3> QED
      BY <1>2, <3>1, <3>2, <3>3
  <2> QED
    BY <1>2, <2>1, GoesOn
<1>3. ASSUME NEW p \in Processes, ScreenBuilderStep(p)
      PROVE  GeneratesInUpgraded'
  <2>1. obsolete' = obsolete \/ ~obsolete'
    BY <1>3 DEF ScreenBuilderStep, ShouldUpgrade, PromptForUpgrade, Upgrade, PromptGenerate
  <2>2. ASSUME obsolete'
        PROVE  Stop(p) \/ \E pc \in {"prompt", "upgrade", "generate anyway"} : Goto(p, pc)
    <3>1. ~ (ShouldUpgrade(p) /\ ~obsolete)
      BY <2>2, <1>a DEF ShouldUpgrade
    <3>2. CASE ShouldUpgrade(p)
      BY <3>1, <3>2 DEF ShouldUpgrade
    <3>3. CASE Upgrade(p)
      BY <2>2, <3>3 DEF Upgrade
    <3> QED
      BY <1>3, <3>2, <3>3 DEF ScreenBuilderStep, PromptForUpgrade, PromptGenerate
  <2>3. obsolete' => process'[p].pc # "generate"
    BY <2>2, GotoBecomes, StopBecomes
  <2> QED
    BY <1>3, <2>1, <2>3, GoesOn
<1>4. CASE ((ServerChanges \/ Close) /\ UNCHANGED obsolete) \/ PackagesUnchanged
  BY <1>4 DEF ServerChanges, Close, PackagesUnchanged
<1>5. ASSUME NEW p \in Processes, Kill(p)
      PROVE  UNCHANGED obsolete
  BY <1>5 DEF Kill
<1> QED
  BY <1>1, <1>2, <1>3, <1>4, <1>5, StepOnPackages DEF PackagesStep

--------------------------------------------------------------------------
(* The invariant holds at first, whatever packages were there before. *)
LEMMA InvInit == Init => IInv
<1> SUFFICES ASSUME Init
             PROVE  IInv
  OBVIOUS
<1> USE DEF Init, CacheInit
<1>a. /\ versions \in [Packages -> Versions \cup {Missing}] /\ directory = versions /\ server = 1
      /\ (\A package \in Packages : versions[package] = Missing) \/ (\A package \in Packages : versions[package] = 1)
      /\ 1 \in Versions /\ Missing = 0 /\ Partial = -1 /\ Partial # Full /\ Contents = Versions \cup {Missing, Partial}
  BY BoundsAssumption DEF NotListed, Versions, Missing, Partial, Contents, Full
<1>b. \A p \in Processes : process[p].pc = "idle" /\ process[p].memory = NotListed
  BY DEF Idle
<1>1. TypeInv
  <2>1. FilesInv
    <3>1. obsolete \in BOOLEAN
      BY Zenon
    <3>2. plugins \in [Versions -> {Missing, Partial, Full}]
      OBVIOUS
    <3>3. CacheTypeOK
      <4>1. commands \in 0..MaxCommands
        BY BoundsAssumption
      <4>2. directory \in [Packages -> Contents]
        BY <1>a
      <4> QED
        BY <1>a, <4>1, <4>2 DEF CacheTypeOK
    <3> QED
      BY <3>1, <3>2, <3>3 DEF FilesInv
  <2>2. ProcessesInv
    BY IdleIsTyped DEF ProcessesInv
  <2> QED
    BY <2>1, <2>2 DEF TypeInv
<1>2. AloneInv
  BY <1>b DEF AloneInv, AtWork, At
<1>3. ThereInv
  BY <1>a, <1>b DEF ThereInv, Cleared, NotListed
<1>4. FreshInv
  BY <1>a, <1>b DEF FreshInv, ListingInv, AtWork, At
<1>5. RunningInv
  BY <1>b DEF RunningInv, RunningIsWhole, Cleared
<1>6. PluginsInv
  BY <1>a, <1>b DEF PluginsInv, PluginsAreWhole, At
<1>7. GeneratesInUpgraded
  BY <1>b DEF GeneratesInUpgraded, At
<1>8. KendoInv
  BY DEF KendoInit, KendoInv, KendoTypeOK, KendoOldOrNew, Files
<1> QED
  BY <1>1, <1>2, <1>3, <1>4, <1>5, <1>6, <1>7, <1>8 DEF IInv

(* Every step preserves it. *)
LEMMA InvStep == IInv /\ [Next]_vars => IInv'
BY TypeStep, AloneStep, ThereStep, FreshStep, RunningStep, PluginsStep, GeneratesStep, KendoStep DEF IInv

(* So it always holds. *)
LEMMA Invariance == Spec => []IInv
BY InvInit, InvStep, PTL DEF Spec

(* The state is of its type; a package that is ready is of the version      *)
(* wanted or a later one, and one that is listed is there: however other    *)
(* processes update other packages, fail or are killed.                    *)
THEOREM PackagesStayFresh == Spec => []PackagesAreFresh
<1>1. TypeInv /\ KendoInv => TypeOK
  <2> SUFFICES ASSUME TypeInv, KendoInv
               PROVE  TypeOK
    OBVIOUS
  <2>1. \A p \in Processes : process[p].package \in Packages /\ process[p].memory \in [Packages -> Versions \cup {Missing}]
    BY DEF TypeInv, ProcessesInv, Process
  <2> QED
    BY <2>1 DEF TypeInv, FilesInv, KendoInv, TypeOK
<1>2. FreshInv => ReadyIsFresh
  BY DEF FreshInv, UpdateInv, ReadyIsFresh, AtWork, At
<1>3. TypeInv /\ ThereInv => ListedIsThere
  BY DEF TypeInv, FilesInv, CacheTypeOK, ThereInv, ListedIsThere
<1>4. IInv => PackagesAreFresh
  BY <1>1, <1>2, <1>3 DEF IInv, PackagesAreFresh
<1> QED
  BY <1>4, Invariance, PTL

(* An application is started, and left, whole; the simulator with all its   *)
(* plugins; and nothing is generated in an obsolete project.               *)
THEOREM WholeIsStarted == Spec => []StartedIsWhole
<1>1. IInv => StartedIsWhole
  BY DEF IInv, RunningInv, PluginsInv, StartedIsWhole
<1> QED
  BY <1>1, Invariance, PTL

(* kendoui install leaves Kendo UI new, or as it was where it can be put     *)
(* back, however its steps fail.                                            *)
THEOREM KendoIsOldOrNew == Spec => []KendoOldOrNew
<1>1. IInv => KendoOldOrNew
  BY DEF IInv, KendoInv
<1> QED
  BY <1>1, Invariance, PTL
==========================================================================
