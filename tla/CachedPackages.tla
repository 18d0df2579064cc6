--------------------------- MODULE CachedPackages ---------------------------
(***************************************************************************)
(* What the CLI downloads to use on the user's machine: the simulator and  *)
(* the debugger, which it starts, Cordova plugins for the simulator, the   *)
(* package of Screen Builder, and Kendo UI for the project.                *)
(***************************************************************************)
EXTENDS ScreenBuilder, KendoUI

CONSTANT Simulator    \* the application that needs plugins

ASSUME SimulatorAssumption == Simulator \in Applications

VARIABLES
  plugins,       \* the directory Plugins-<version> of each version
  interrupted    \* history: versions whose download of plugins was killed, or left what could not be deleted

pluginsVars == <<plugins, interrupted>>
vars == <<cacheVars, process, obsolete, kendoVars, pluginsVars>>

Full == MaxVersion + 1

Init ==
  /\ CacheInit /\ KendoInit
  /\ obsolete = (versions # NotListed)
  /\ kendo = IF obsolete THEN "old" ELSE "none"   \* all is new, or all of older versions
  /\ plugins = [version \in Versions |-> Missing]
  /\ interrupted = {}

--------------------------------------------------------------------------
(* simulate and debug, for a user who is logged in *)
StartApplication(p, application) ==
  PrepareExtension(p, "start", application) /\ UNCHANGED <<obsolete, kendoVars, pluginsVars>>

StartScreenBuilder(p) ==
  /\ \E command \in {"add", "upgrade"} : PrepareExtension(p, command, Scaffolding)
  /\ UNCHANGED <<obsolete, kendoVars, pluginsVars>>

(* ensureAllPlatformAssets may fail; the debugger has its settings loaded. *)
PackageReady(p) ==
  /\ At(p, "ready") /\ PackageOf(p) \in Applications
  /\ Stop(p) \/ Goto(p, IF PackageOf(p) = Simulator THEN "plugins" ELSE "run")
  /\ UNCHANGED <<cacheVars, pluginsVars>>

(* prepareCordovaPlugins: a directory that is there is not downloaded. *)
PreparePlugins(p) ==
  LET version == process[p].memory[Simulator]
  IN /\ At(p, "plugins")
     /\ IF plugins[version] # Missing THEN Goto(p, "run") /\ UNCHANGED plugins
        ELSE Goto(p, "download plugins") /\ plugins' = [plugins EXCEPT ![version] = Partial]
     /\ UNCHANGED <<cacheVars, interrupted>>

(* A failed download is deleted, if that does not fail too: the next        *)
(* simulate takes what is left for the plugins.                            *)
DownloadPlugins(p) ==
  LET version == process[p].memory[Simulator]
  IN /\ At(p, "download plugins")
     /\ \/ Goto(p, "run") /\ plugins' = [plugins EXCEPT ![version] = Full] /\ UNCHANGED interrupted
        \/ Stop(p) /\ plugins' = [plugins EXCEPT ![version] = Missing] /\ UNCHANGED interrupted
        \/ Stop(p) /\ interrupted' = interrupted \cup {version} /\ UNCHANGED plugins
     /\ UNCHANGED cacheVars

(* runApplication starts what it finds and does not wait. *)
RunApplication(p) ==
  /\ At(p, "run") /\ Stop(p)
  /\ running' = running \cup IF directory[PackageOf(p)] \in Versions THEN {PackageOf(p)} ELSE {}
  /\ UNCHANGED <<server, versions, directory, commands, overlapped, outdated, wentBack, relisted, pluginsVars>>

ApplicationStep(p) == PackageReady(p) \/ PreparePlugins(p) \/ DownloadPlugins(p) \/ RunApplication(p)

Kill(p) ==
  /\ AtWork(p) /\ Stop(p)
  /\ interrupted' = interrupted \cup IF At(p, "download plugins") THEN {process[p].memory[Simulator]} ELSE {}
  /\ UNCHANGED <<cacheVars, obsolete, kendoVars, plugins>>

--------------------------------------------------------------------------
(* Bounds: Kendo UI is installed where nothing else is done; the server     *)
(* changes only until the last command ends, and down once; once two        *)
(* processes were at work on one package no more commands are given, and    *)
(* the last command is given when the others have ended.                   *)
OnlyKendo == commands = 0 \/ install # "idle"
OnlyPackages == install = "idle"
UndisturbedSoFar == overlapped = {}
LastAlone == commands + 1 < MaxCommands \/ \A p \in Processes : ~AtWork(p)
Busy == commands < MaxCommands \/ \E p \in Processes : AtWork(p)

InstallKendo ==
  /\ OnlyKendo /\ StartInstall /\ commands < MaxCommands /\ commands' = commands + 1
  /\ UNCHANGED <<server, versions, directory, running, overlapped, outdated, wentBack, relisted, process, obsolete, pluginsVars>>

Give(p) ==
  /\ OnlyPackages /\ UndisturbedSoFar /\ LastAlone
  /\ StartScreenBuilder(p) \/ \E application \in Applications : StartApplication(p, application)

Environment ==
  \/ (OnlyPackages /\ Busy /\ ~wentBack /\ ServerChanges /\ UNCHANGED <<obsolete, kendoVars, pluginsVars>>)
  \/ (Busy /\ Close /\ UNCHANGED <<obsolete, kendoVars, pluginsVars>>)
  \/ (KillInstall /\ UNCHANGED <<cacheVars, process, obsolete, pluginsVars>>)

Step(p) ==
  \/ (UpdateStep(p) /\ UNCHANGED <<obsolete, kendoVars, pluginsVars>>)
  \/ (ScreenBuilderStep(p) /\ UNCHANGED <<kendoVars, pluginsVars>>)
  \/ (ApplicationStep(p) /\ UNCHANGED <<obsolete, kendoVars>>)

Install == InstallStep /\ UNCHANGED <<cacheVars, process, obsolete, pluginsVars>>

Next == InstallKendo \/ Install \/ Environment \/ \E p \in Processes : Give(p) \/ Step(p) \/ Kill(p)

Spec == Init /\ [][Next]_vars

--------------------------------------------------------------------------
TypeOK ==
  /\ CacheTypeOK /\ KendoTypeOK
  /\ obsolete \in BOOLEAN
  /\ plugins \in [Versions -> {Missing, Partial, Full}] /\ interrupted \subseteq Versions
  /\ \A p \in Processes : process[p].package \in Packages /\ process[p].memory \in [Packages -> Versions \cup {Missing}]

(* A package that is ready for use is whole and of the version wanted or a  *)
(* later one, whatever failed or was killed before and whatever other       *)
(* processes did to other packages; unless two were at work on this one,   *)
(* the server's version once went down, or a process that had read the     *)
(* versions file earlier put back an entry another one had lost.           *)
ReadyIsFresh ==
  \A p \in Processes :
    At(p, "ready") /\ PackageOf(p) \notin (overlapped \cup relisted) /\ ~wentBack => directory[PackageOf(p)] >= process[p].wanted

(* A version is listed only of a package that is there, as long as no       *)
(* update of it was begun and not ended.                                   *)
ListedIsThere ==
  \A package \in Packages \ (overlapped \cup outdated) : versions[package] # Missing => directory[package] \in Versions

(* The state is of its type, and packages are what the versions file and   *)
(* the commands that use them take them for.                               *)
PackagesAreFresh == TypeOK /\ ReadyIsFresh /\ ListedIsThere

(* No update touches the files of an application at work. *)
RunningIsWhole ==
  \A application \in running \ overlapped : directory[application] \in Versions

(* The simulator starts with all plugins of its version, unless a process   *)
(* was killed while they were downloaded, or failed then and could not      *)
(* delete what it had.                                                     *)
PluginsAreWhole ==
  \A p \in Processes :
    At(p, "run") /\ PackageOf(p) = Simulator /\ Simulator \notin overlapped =>
      plugins[process[p].memory[Simulator]] = Full \/ process[p].memory[Simulator] \in interrupted

(* Screen Builder generates in an obsolete project only if the upgrade, too, *)
(* answered that the project is obsolete ("generate anyway").               *)
GeneratesInUpgraded ==
  \A p \in Processes : At(p, "generate") => ~obsolete

(* What is started, or generated from, is complete.                        *)
StartedIsWhole == RunningIsWhole /\ PluginsAreWhole /\ GeneratesInUpgraded

(* An installed Kendo UI has no file of the one before.  After a failure    *)
(* the one before is there again, or the new one with a backup that could  *)
(* not be deleted.  Excepted is an install that failed when some of the new *)
(* one was unpacked, permission was denied then, or the backup could not be *)
(* renamed back, or that was killed between; the backup is deleted then,   *)
(* and nothing is left of the one before.                                  *)
KendoOldOrNew ==
  /\ install = "installed" => kendo = "new" /\ kendoBackup = "none"
  /\ install = "failed" /\ ~harmed => kendo = had \/ (kendo = "new" /\ kendoBackup # "none")

==========================================================================
