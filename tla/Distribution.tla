---------------------------- MODULE Distribution ----------------------------
(***************************************************************************)
(* The commands that sign, build and hand out an application, over one     *)
(* store of certificates and provisions: IdentityCommands manage the       *)
(* store, CloudBuild uses it, and here are the commands around a build:    *)
(* build, deploy and emulate (lib/commands/), AppManager upload and        *)
(* LiveSync updates (lib/services/appmanager-service.ts), App Store upload *)
(* (lib/services/appstore-service.ts, lib/commands/itunes-connect.ts).     *)
(***************************************************************************)
EXTENDS IdentityCommands, CloudBuild

CONSTANTS
  InitialRequests, \* the signing requests there are at first
  OptionSets,    \* the --provision and --certificate a user may give
  Wireless,      \* platforms that deploy over the air
  LivePatchIn    \* the configurations that may have the LivePatch plugin

ASSUME DistributionAssumption ==
  /\ OptionSets \subseteq [provision : Typed \cup {None}, certificate : Typed \cup {None}]
  /\ Wireless \subseteq Platforms
  /\ InitialRequests \subseteq RequestNames /\ IsFiniteSet(InitialRequests)
  /\ LivePatchIn \subseteq SUBSET {"Debug", "Release"}

vars == <<store, local, buildVars, cli>>

NoTarget == [packageFile |-> None, installed |-> [d \in Devices |-> None],
             uploaded |-> None, livePatch |-> {}, published |-> None]

Init ==
  /\ \E s \in Stores : identities = s.identities /\ provisions = s.provisions
  /\ requests = [n \in InitialRequests |-> Subject] /\ changes = 0 /\ stale = FALSE
  /\ cli = Idle
  /\ listing = NoListing /\ files = InitialFiles /\ removed = NothingRemoved
  /\ options = NoOptions
  /\ build = [f \in Fibers |-> NotBuilding]
  /\ target = NoTarget

--------------------------------------------------------------------------
StartWith(command, opts) ==
  /\ Start(command)
  /\ options' = opts
  /\ UNCHANGED <<identities, provisions, requests, changes, target, local>>

(* The process ends: its options and what it was about are gone. *)
CommandExit ==
  /\ Exit
  /\ options' = NoOptions
  /\ target' = NoTarget
  /\ listing' = IF cli.name = "list" THEN listing ELSE NoListing
  /\ removed' = NothingRemoved
  /\ UNCHANGED <<store, files, build>>

Others == UNCHANGED <<store, local, options>>

(* build <platform>: executeBuildCore. --save-to implies --download, which *)
(* excludes --companion; the companion app gets a code to load the project *)
(* and nothing is built. *)
Build(platform, opts, companion, download, simulator) ==
  /\ simulator => platform = "iOS"
  /\ LET downloads == download \/ platform \notin Wireless
         command == [name |-> "build", companion |-> companion,
                     pc |-> IF companion /\ download THEN "failed" ELSE IF companion THEN "ion" ELSE "building",
                     settings |-> [Settings(platform) EXCEPT !.qr = ~downloads, !.download = downloads,
                                                             !.simulator = simulator]]
     IN /\ StartWith(command, opts)
        /\ IF companion THEN UNCHANGED build ELSE StartBuild(Main)

DeployToIon ==
  /\ In("build", "ion")
  /\ \/ Finish("ok") \/ Finish("failed")
  /\ UNCHANGED <<target, build>> /\ Others

(* emulate <platform>: downloads the package and starts an emulator. *)
Emulate(platform, opts) ==
  /\ StartWith([name |-> "emulate", pc |-> "building",
                settings |-> [Settings(platform) EXCEPT !.download = TRUE, !.simulator = (platform = "iOS")]],
               opts)
  /\ StartBuild(Main)

(* The build of a command in one fiber has ended. *)
Built(pc) ==
  /\ cli.pc = "building" /\ cli.name # "deploy"
  /\ build' = [build EXCEPT ![Main] = NotBuilding]
  /\ \/ BuildAt(Main, "failed") /\ Finish("failed")
     \/ BuildAt(Main, "done") /\ Goto(pc)
  /\ UNCHANGED target /\ Others

BuildEnds == cli.name \in {"build", "emulate"} /\ Built("ok")

--------------------------------------------------------------------------
(* deploy: one fiber per device; a device whose iOS is too old is left     *)
(* out. The devices share packageFile, and build when it is not set.       *)
(* Bound: none of them is the iOS simulator, for which the build selects no *)
(* provision itself.                                                       *)
Deploy(platform, opts, devices) ==
  /\ StartWith([name |-> "deploy", pc |-> "building", devices |-> devices,
                settings |-> [Settings(platform) EXCEPT !.download = TRUE]], opts)
  /\ UNCHANGED build

DeployTo(f) ==
  /\ In("deploy", "building") /\ f \in cli.devices /\ BuildAt(f, "none")
  /\ \/ cli.settings.platform = "iOS" /\ Step(f, "tooOld")
     \/ IF target.packageFile = None THEN StartBuild(f) ELSE Step(f, "ready")
  /\ UNCHANGED <<cli, target>> /\ Others

PackageBuilt(f) ==
  /\ In("deploy", "building") /\ f \in cli.devices /\ BuildAt(f, "done")
  /\ target' = [target EXCEPT !.packageFile = f]
  /\ Set(f, [NotBuilding EXCEPT !.pc = "ready"])
  /\ UNCHANGED cli /\ Others

(* packageFile is read again: it may have become another fiber's package.  *)
ReinstallApplication(f) ==
  /\ In("deploy", "building") /\ f \in cli.devices /\ BuildAt(f, "ready")
  /\ target' = [target EXCEPT !.installed[f] = target.packageFile]
  /\ Step(f, "installed")
  /\ UNCHANGED cli /\ Others

DeployEnds ==
  /\ In("deploy", "building")
  /\ \A f \in cli.devices : build[f].pc \in {"installed", "failed", "tooOld"}
  /\ Finish(IF \E f \in cli.devices : BuildAt(f, "failed") THEN "failed" ELSE "ok")
  /\ build' = [f \in Fibers |-> NotBuilding]
  /\ UNCHANGED target /\ Others

--------------------------------------------------------------------------
Package(f) == [provision |-> build[f].provision, certificate |-> build[f].certificate,
               platform |-> cli.settings.platform, to |-> cli.name]
NoPackage == [provision |-> None, certificate |-> None, platform |-> None, to |-> None]

(* appmanager upload <platform>: groups, when given, are looked up only    *)
(* after the build. *)
AppManagerUpload(platform, opts, download, group) ==
  /\ StartWith([name |-> "appmanager upload", pc |-> "verifyStore", group |-> group,
                package |-> NoPackage,
                settings |-> [Settings(platform) EXCEPT
                  !.release = TRUE, !.tam = TRUE, !.download = download,
                  !.types = <<"Development", "Enterprise", "AdHoc">>]], opts)
  /\ UNCHANGED build

(* The application must exist: in AppManager's store, or among those      *)
(* ready for upload in iTunes Connect. *)
VerifyStoreCreated ==
  /\ cli.pc = "verifyStore"
  /\ \/ Goto("building") /\ StartBuild(Main)
     \/ Finish("failed") /\ UNCHANGED build
  /\ UNCHANGED target /\ Others

(* The package goes to the store, once its groups are found. *)
BuiltForUpload ==
  /\ cli.pc = "building" /\ cli.name \in {"appmanager upload", "appstore upload"}
  /\ build' = [build EXCEPT ![Main] = NotBuilding]
  /\ \/ BuildAt(Main, "failed") /\ Finish("failed")
     \/ /\ BuildAt(Main, "done")
        /\ cli' = [cli EXCEPT !.pc = IF cli.name = "appmanager upload" /\ cli.group
                                     THEN "groups" ELSE "upload",
                              !.package = Package(Main)]
  /\ UNCHANGED target /\ Others

FindGroups ==
  /\ cli.pc = "groups"
  /\ \/ Goto("upload") \/ Finish("failed")
  /\ UNCHANGED <<target, build>> /\ Others

UploadApplication ==
  /\ cli.pc = "upload"
  /\ \/ target' = [target EXCEPT !.uploaded = cli.package] /\ Finish("ok")
     \/ Finish("failed") /\ UNCHANGED target
  /\ UNCHANGED build /\ Others

(* appstore upload: a given provision must be of type AppStore. *)
AppStoreUpload(opts) ==
  /\ StartWith([name |-> "appstore upload",
                pc |-> IF opts.provision = None THEN "verifyStore" ELSE "checkProvision",
                package |-> NoPackage,
                settings |-> [Settings("iOS") EXCEPT !.release = TRUE, !.types = <<"AppStore">>]], opts)
  /\ UNCHANGED build

CheckProvision ==
  /\ cli.pc = "checkProvision"
  /\ IF \E p \in FindProvision(options.provision) : Provisions[p].type = "AppStore"
     THEN Goto("verifyStore") ELSE Finish("failed")
  /\ UNCHANGED <<target, build>> /\ Others

--------------------------------------------------------------------------
(* appmanager livesync: publishLivePatch sets --release; the plugin is     *)
(* looked for in the configurations selected then, --debug's too.          *)
PublishLivePatch(debug, enabled) ==
  /\ Start([name |-> "appmanager livesync", pc |-> "configureLivePatch",
             selected |-> {"Release"} \cup (IF debug THEN {"Debug"} ELSE {})])
  /\ target' = [NoTarget EXCEPT !.livePatch = enabled]
  /\ UNCHANGED <<identities, provisions, requests, changes, local, options, build>>

ConfigureLivePatchPlugin ==
  /\ cli.pc = "configureLivePatch"
  /\ \/ /\ target' = [target EXCEPT !.livePatch = IF cli.selected \cap @ = {}
                                                  THEN @ \cup cli.selected ELSE @]
        /\ Goto("uploadPatch")
     \/ Finish("failed") /\ UNCHANGED target
  /\ UNCHANGED build /\ Others

UploadPatch ==
  /\ cli.pc = "uploadPatch"
  /\ \/ target' = [target EXCEPT !.published = [selected |-> cli.selected, plugin |-> target.livePatch]]
        /\ Finish("ok")
     \/ Finish("failed") /\ UNCHANGED target
  /\ UNCHANGED build /\ Others

--------------------------------------------------------------------------
BuildCommand ==
  \E opts \in OptionSets, platform \in Platforms :
    \/ \E companion, download, simulator \in BOOLEAN :
         Build(platform, opts, companion, download, simulator)
    \/ Emulate(platform, opts)
    \/ \E devices \in SUBSET Devices \ {{}} : Deploy(platform, opts, devices)
    \/ \E download, group \in BOOLEAN : AppManagerUpload(platform, opts, download, group)
    \/ platform = "iOS" /\ AppStoreUpload(opts)

BuildProgress ==
  \/ DeployToIon \/ BuildEnds \/ DeployEnds \/ VerifyStoreCreated \/ BuiltForUpload
  \/ FindGroups \/ UploadApplication \/ CheckProvision
  \/ ConfigureLivePatchPlugin \/ UploadPatch
  \/ \E f \in Fibers : \/ DeployTo(f) \/ PackageBuilt(f) \/ ReinstallApplication(f)
                       \/ BuildStep(f) /\ UNCHANGED local

Progress ==
  \/ IdentityProgress /\ UNCHANGED buildVars
  \/ BuildProgress
  \/ CommandExit

Next ==
  \/ IdentityStep /\ UNCHANGED buildVars
  \/ BuildCommand
  \/ \E debug \in BOOLEAN, enabled \in LivePatchIn : PublishLivePatch(debug, enabled)
  \/ Progress
  \/ PortalChange /\ UNCHANGED <<local, buildVars>>

Spec == Init /\ [][Next]_vars

--------------------------------------------------------------------------
Options == [provision : {None} \cup Typed \cup {Exactly(p) : p \in Names},
            certificate : {None} \cup Typed \cup {Exactly(c) : c \in Aliases}]

BuildPcs ==
  {"none", "import", "android", "findProvision", "autoselectProvision", "fallback", "findCertificate",
   "autoselectCertificate", "certificate", "validate", "build", "built", "done", "failed",
   "tooOld", "ready", "installed"}

Builds == [pc : BuildPcs, complete : BOOLEAN, provision : Names \cup {None}, certificate : Aliases \cup {None},
           validate : Options, delivered : SUBSET {"manifest", "package", "download"}]

Packages == [provision : Names \cup {None}, certificate : Aliases \cup {None}, platform : Platforms,
             to : {"appmanager upload", "appstore upload"}]

Targets == [packageFile : Devices \cup {None}, installed : [Devices -> Devices \cup {None}],
            uploaded : Packages \cup {None}, livePatch : SUBSET {"Debug", "Release"},
            published : [selected : SUBSET {"Debug", "Release"}, plugin : SUBSET {"Debug", "Release"}] \cup {None}]

TypeOK ==
  /\ identities \subseteq Aliases /\ provisions \subseteq Names
  /\ requests \in [DOMAIN requests -> SUBSET Arguments] /\ DOMAIN requests \subseteq RequestNames
  /\ changes \in 0..MaxChanges /\ stale \in BOOLEAN
  /\ files \subseteq LocalFiles
  /\ options \in Options
  /\ build \in [Fibers -> Builds]
  /\ target \in Targets

IsBuilt(f) == build[f].pc \in {"built", "done"}
DeviceBuild == cli.settings.platform = "iOS" /\ ~cli.settings.simulator

(* A command that builds for one device (or none) signs with a certificate *)
(* of the provision it uses, both valid, and the provision covers the      *)
(* device - however they were found, as long as the store did not change   *)
(* while it ran (build.ts:requestCloudBuild). *)
SignedForDevice ==
  \A f \in Fibers :
    IsBuilt(f) /\ ~stale /\ DeviceBuild /\ (f = Main \/ cli.devices = {f}) =>
      /\ build[f].provision # None /\ build[f].certificate # None
      /\ ValidProvision(build[f].provision, Device(f))
      /\ ValidCertificate(build[f].certificate, build[f].provision)

(* With two devices, whose fibers write the options each other reads, a    *)
(* package's provision still covers the device it was built for            *)
(* (deploy.ts:deployCore). *)
ProvisionCoversDevice ==
  \A f \in Devices :
    IsBuilt(f) /\ ~stale /\ DeviceBuild => ValidProvision(build[f].provision, f)

(* The state is of its type, and every build is signed such that it can be *)
(* installed where it was made for.                                        *)
SignedToInstall == TypeOK /\ ProvisionCoversDevice /\ SignedForDevice

(* A build is handed out once: as a file, or as a code to scan - and then  *)
(* only a package that installs from one (build.ts:build).  One for the    *)
(* App Store is downloaded too, unless its provision, which is looked up   *)
(* twice, became another one meanwhile. *)
DeliveredOnce ==
  \A f \in Fibers :
    /\ BuildAt(f, "done") /\ cli.name # "appmanager upload"
    /\ cli.name = "appstore upload" => ~stale
    =>
      /\ Cardinality(build[f].delivered) = 1
      /\ DeviceBuild /\ build[f].delivered # {"download"} =>
           Provisions[build[f].provision].type \in {"AdHoc", "Enterprise"}

(* AppManager never gets an App Store package, nor an Android package      *)
(* signed by Apple, whatever was selected, and even when the store changed *)
(* meanwhile (appmanager-service.ts:upload). *)
AppManagerPackage ==
  target.uploaded # None /\ target.uploaded.to = "appmanager upload" =>
    /\ target.uploaded.provision # None => Provisions[target.uploaded.provision].type # "AppStore"
    /\ target.uploaded.platform = "Android" /\ target.uploaded.certificate # None =>
         ~Identities[target.uploaded.certificate].ios

(* An update is published from a project whose Release configuration has   *)
(* the LivePatch plugin, unless --debug was given too                      *)
(* (appmanager-service.ts:configureLivePatchPlugin). *)
UpdateHasPlugin ==
  target.published # None /\ target.published.selected = {"Release"} =>
    "Release" \in target.published.plugin

(* What leaves a command - files and codes, packages for AppManager,       *)
(* updates - can be used by whoever gets it.                               *)
HandedOutFits == DeliveredOnce /\ AppManagerPackage /\ UpdateHasPlugin

(* What a number named in the list just printed is what is removed by that *)
(* number, unless the store changed in between: the lists and the lookups  *)
(* sort alike (cryptographic-identities.ts, helpers.ts:findByNameOrIndex). *)
RemovesTheListedOne ==
  LET r == removed IN
  /\ r.kind # "none" /\ ~r.stale /\ r.listing.kind = r.kind /\ ToSet(r.listing.items) = r.seen
  /\ r.kind = "certificate-request" \/ r.typed.beginning \cap r.seen = {}
  => r.item = r.listing.items[r.typed.index]

==========================================================================
