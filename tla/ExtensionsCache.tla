--------------------------- MODULE ExtensionsCache ---------------------------
(***************************************************************************)
(* The packages that processes of the CLI share in the cache directory     *)
(* (lib/services/extensions-service-base.ts): a directory per package and  *)
(* one file with the versions of all.                                      *)
(* A process reads the file, compares one version, replaces the directory  *)
(* and writes back the whole file; nothing is locked, and a process may    *)
(* be killed between any two steps.                                        *)
(***************************************************************************)
EXTENDS Integers, FiniteSets

CONSTANTS
  Processes,
  Applications,    \* packages that are programs: the simulator and the debugger
  Scaffolding,     \* the package of Screen Builder
  MaxVersion,      \* bound: versions of the server
  MaxCommands      \* bound: commands given

ASSUME PackagesAssumption == Scaffolding \notin Applications
ASSUME BoundsAssumption == MaxVersion \in Nat \ {0} /\ MaxCommands \in Nat

VARIABLES
  server,       \* the version the server has now
  versions,     \* extension-versions.json
  directory,    \* what the directory of each package is
  running,      \* applications at work
  process,      \* what each process does
  commands,     \* history: how many were given
  overlapped,   \* history: packages two processes were at work on at once
  outdated,     \* history: packages whose update was begun and not listed
  wentBack,     \* history: whether the server's version ever went down
  relisted      \* history: packages of which a process at work on another listed a newer version than the file did

cacheVars == <<server, versions, directory, running, commands, overlapped, outdated, wentBack, relisted>>

Packages == Applications \cup {Scaffolding}
Versions == 1..MaxVersion
Missing == 0        \* of a version: not listed
Partial == -1
Contents == Versions \cup {Missing, Partial}

NotListed == [package \in Packages |-> Missing]
Idle == [pc |-> "idle", command |-> "none", package |-> Scaffolding, wanted |-> Missing, downloaded |-> Missing, memory |-> NotListed]

PackageOf(p) == process[p].package
At(p, pc) == process[p].pc = pc
AtWork(p) == ~At(p, "idle")

CacheTypeOK ==
  /\ server \in Versions
  /\ versions \in [Packages -> Versions \cup {Missing}]
  /\ directory \in [Packages -> Contents]
  /\ running \subseteq Applications
  /\ commands \in 0..MaxCommands
  /\ overlapped \subseteq Packages /\ outdated \subseteq Packages /\ wentBack \in BOOLEAN
  /\ relisted \subseteq Packages

CacheInit ==
  /\ server = 1
  /\ versions \in {NotListed, [package \in Packages |-> 1]}
  /\ directory = versions
  /\ running = {}
  /\ process = [p \in Processes |-> Idle]
  /\ commands = 0
  /\ overlapped = {} /\ outdated = {} /\ wentBack = FALSE /\ relisted = {}

Goto(p, pc) == process' = [process EXCEPT ![p].pc = pc]
Stop(p) == process' = [process EXCEPT ![p] = Idle]

--------------------------------------------------------------------------
(* As if a package that is listed were never updated. *)
ShouldUpdateUnlisted(cached, wanted) == cached = Missing

ShouldUpdatePackage(cached, wanted) == cached # wanted

(* A process is started for a package: the service reads the versions when  *)
(* it is made; the version wanted is the server's, that of the scaffolding  *)
(* the CLI's own, which prepareDependencyExtension compares already with    *)
(* the versions read first.                                                *)
PrepareExtension(p, command, package) ==
  /\ ~AtWork(p) /\ commands < MaxCommands
  /\ commands' = commands + 1
  /\ process' = [process EXCEPT ![p] =
       [Idle EXCEPT !.command = command, !.package = package, !.wanted = server, !.memory = versions,
          !.pc = IF package = Scaffolding /\ ~ShouldUpdatePackage(versions[package], server) THEN "ready" ELSE "read"]]
  /\ overlapped' = overlapped \cup {PackageOf(q) : q \in {q \in Processes \ {p} : AtWork(q) /\ PackageOf(q) = package}}
  /\ UNCHANGED <<server, versions, directory, running, outdated, wentBack, relisted>>

ReadVersions(p) ==
  /\ At(p, "read")
  /\ process' = [process EXCEPT ![p].memory = versions,
                                ![p].pc = IF ShouldUpdatePackage(versions[PackageOf(p)], process[p].wanted) THEN "before" ELSE "ready"]
  /\ UNCHANGED cacheVars

(* As if what is running were updated. *)
UpdateRunning(p) ==
  /\ At(p, "before") /\ Goto(p, "clear")
  /\ UNCHANGED cacheVars

(* ensureSimulatorIsNotRunning, ensureDebuggerIsNotRunning *)
EnsureNotRunning(p) ==
  /\ At(p, "before")
  /\ IF PackageOf(p) \in running THEN Stop(p) ELSE Goto(p, "clear")
  /\ UNCHANGED cacheVars

(* The directory is deleted and made again, outside the try. *)
ClearDirectory(p) ==
  /\ At(p, "clear")
  /\ directory' = [directory EXCEPT ![PackageOf(p)] = Partial]
  /\ outdated' = outdated \cup {PackageOf(p)}
  /\ Goto(p, "download") \/ Stop(p)
  /\ UNCHANGED <<server, versions, running, commands, overlapped, wentBack, relisted>>

(* What is downloaded is what the server has by now. *)
DownloadPackage(p) ==
  /\ At(p, "download")
  /\ \/ process' = [process EXCEPT ![p].pc = "unzip", ![p].downloaded = server]
     \/ Goto(p, "clean")
  /\ UNCHANGED cacheVars

(* Two processes write and unpack one archive, each what it may be. *)
Unzip(p) ==
  LET package == PackageOf(p)
  IN /\ At(p, "unzip")
     /\ \/ /\ Goto(p, "after")
           /\ directory' \in {[directory EXCEPT ![package] = content] :
                               content \in {process[p].downloaded} \cup IF package \in overlapped THEN {Partial} ELSE {}}
        \/ /\ Goto(p, "clean")
           /\ directory' = [directory EXCEPT ![package] = Partial]
     /\ UNCHANGED <<server, versions, running, commands, overlapped, outdated, wentBack, relisted>>

(* The archive is deleted, and npm installs what the scaffolding needs, in  *)
(* its directory; errors for the dependencies of the base generator are     *)
(* lost in Future.wait.                                                    *)
AfterDownload(p) ==
  /\ At(p, "after")
  /\ \/ process' = [process EXCEPT ![p].pc = "save", ![p].memory[PackageOf(p)] = process[p].wanted, ![p].downloaded = Missing]
     \/ Goto(p, "clean")
  /\ UNCHANGED cacheVars

(* The whole file is written with what this process knows. *)
SaveVersionsFile(p) ==
  /\ At(p, "save")
  /\ \/ /\ versions' = process[p].memory
        /\ outdated' = outdated \ {PackageOf(p)}
        /\ relisted' = relisted \cup {q \in Packages \ {PackageOf(p)} : versions'[q] > versions[q]}
        /\ Goto(p, "ready")
     \/ Goto(p, "clean") /\ UNCHANGED <<versions, outdated, relisted>>
  /\ UNCHANGED <<server, directory, running, commands, overlapped, wentBack>>

(* The catch: the directory is deleted, what the file says of it stays. *)
CleanPackage(p) ==
  /\ At(p, "clean") /\ Stop(p)
  /\ directory' = [directory EXCEPT ![PackageOf(p)] = Missing]
  /\ UNCHANGED <<server, versions, running, commands, overlapped, outdated, wentBack, relisted>>

UpdateStep(p) ==
  \/ ReadVersions(p) \/ EnsureNotRunning(p) \/ ClearDirectory(p) \/ DownloadPackage(p) \/ Unzip(p)
  \/ AfterDownload(p) \/ SaveVersionsFile(p) \/ CleanPackage(p)

--------------------------------------------------------------------------
(* The server is updated, or the CLI configured for another server. *)
ServerChanges ==
  /\ server' \in Versions \ {server}
  /\ wentBack' = (wentBack \/ server' < server)
  /\ UNCHANGED <<versions, directory, running, process, commands, overlapped, outdated, relisted>>

(* The user closes an application. *)
Close ==
  /\ \E application \in running : running' = running \ {application}
  /\ UNCHANGED <<server, versions, directory, process, commands, overlapped, outdated, wentBack, relisted>>
==========================================================================
