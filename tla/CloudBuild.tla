----------------------------- MODULE CloudBuild -----------------------------
(***************************************************************************)
(* Builds in the cloud (lib/services/build.ts) and the commands that start *)
(* them: build, deploy and emulate (lib/commands/build.ts, deploy.ts,      *)
(* emulate.ts), AppManager upload and LiveSync updates                     *)
(* (lib/services/appmanager-service.ts), App Store upload                  *)
(* (lib/services/appstore-service.ts, lib/commands/itunes-connect.ts).     *)
(*                                                                         *)
(* A command builds in one fiber, but deploy runs one fiber per connected  *)
(* device. Every step below ends where the fiber waits for the server; the *)
(* fibers share --provision and --certificate, and a fiber that selects    *)
(* one of them for itself writes the option.                               *)
(***************************************************************************)
EXTENDS IdentityStore

VARIABLES
  options,     \* --provision and --certificate: what was typed, or None
  build,       \* fiber -> its build
  target       \* what deploy, upload and update publish: see Distribution

buildVars == <<options, build, target>>

Main == "main"
Fibers == Devices \cup {Main}
ASSUME MainAssumption == Main \notin Devices
Device(f) == IF f = Main THEN None ELSE f
Platforms == {"Android", "iOS", "WP8"}

NoOptions == [provision |-> None, certificate |-> None]
NotBuilding == [pc |-> "none", complete |-> FALSE, provision |-> None, certificate |-> None,
                validate |-> NoOptions, delivered |-> {}]

(* What a command asks build() for; the types of provision it wants, in    *)
(* this order. *)
Settings(platform) ==
  [platform |-> platform, release |-> FALSE, types |-> <<"AdHoc">>, qr |-> FALSE,
   download |-> FALSE, tam |-> FALSE, simulator |-> FALSE]

(* build(): the project is validated and imported, then the build is       *)
(* requested. *)
NewBuild == [NotBuilding EXCEPT !.pc = "import"]

BuildAt(f, pc) == build[f].pc = pc
Set(f, b) == build' = [build EXCEPT ![f] = b]
Step(f, pc) == Set(f, [build[f] EXCEPT !.pc = pc])
StartBuild(f) == Set(f, NewBuild)
Stop(f) == Set(f, [NotBuilding EXCEPT !.pc = "failed"])

(* The fiber alone moves. *)
Only == UNCHANGED <<cli, store, target>>

(* The option decides, and is read again, when the provision is known.     *)
CertificateStep(certificate) ==
  IF certificate # None THEN "findCertificate"
  ELSE IF cli.settings.simulator THEN "certificate" ELSE "autoselectCertificate"

(* requestCloudBuild: completeAutoselect is computed, and what comes next  *)
(* decided, before the first list is fetched. *)
Request(f) ==
  /\ BuildAt(f, "import")
  /\ LET s == cli.settings IN
     Set(f, [build[f] EXCEPT
       !.complete = (options.provision = None /\ options.certificate = None),
       !.pc = CASE s.platform = "Android" -> "android"
                [] s.platform = "WP8" -> "build"
                [] s.platform = "iOS" /\ options.provision # None -> "findProvision"
                [] s.platform = "iOS" /\ options.provision = None /\ s.simulator ->
                     CertificateStep(options.certificate)
                [] OTHER -> "autoselectProvision"])
  /\ UNCHANGED options /\ Only

Android(f) ==
  /\ BuildAt(f, "android")
  /\ LET s == cli.settings
         found == IF options.certificate # None THEN FindCertificate(options.certificate)
                  ELSE IF s.tam \/ ~s.release THEN {} ELSE FindReleaseCertificate
     IN IF found = {}
        THEN IF options.certificate # None THEN Stop(f) ELSE Step(f, "build")
        ELSE \E c \in found :
               IF Identities[c].ios THEN Stop(f)
               ELSE Set(f, [build[f] EXCEPT !.pc = "build", !.certificate = c])
  /\ UNCHANGED options /\ Only

WithProvision(f, p) ==
  Set(f, [build[f] EXCEPT !.provision = p, !.pc = CertificateStep(options.certificate)])

(* As if AppManager took every type of provision. *)
FindAnyProvisionOption(f) ==
  /\ BuildAt(f, "findProvision")
  /\ LET found == FindProvision(options.provision)
     IN IF found = {} THEN Stop(f)
        ELSE \E p \in found : WithProvision(f, p)
  /\ UNCHANGED options /\ Only

FindProvisionOption(f) ==
  /\ BuildAt(f, "findProvision")
  /\ LET found == FindProvision(options.provision)
     IN IF \/ found = {}
           \/ cli.settings.tam /\ \E p \in found : Provisions[p].type = "AppStore"
        THEN Stop(f)
        ELSE \E p \in found : WithProvision(f, p)
  /\ UNCHANGED options /\ Only

Selected(f, found, otherwise) ==
  IF found = {} THEN otherwise /\ UNCHANGED options
  ELSE \E p \in found :
         /\ options' = [options EXCEPT !.provision = Exactly(p)]
         /\ WithProvision(f, p)

(* As if the device was not passed on. *)
SelectProvisionForAnyDevice(f) ==
  /\ BuildAt(f, "autoselectProvision")
  /\ \/ Selected(f, AutoselectProvision(cli.settings.types, None), Step(f, "fallback"))
     \/ Step(f, "fallback") /\ UNCHANGED options
  /\ Only

(* When none of the wanted types will do, or their lookup fails, a          *)
(* Development provision is tried. *)
SelectProvision(f) ==
  /\ BuildAt(f, "autoselectProvision")
  /\ \/ Selected(f, AutoselectProvision(cli.settings.types, Device(f)), Step(f, "fallback"))
     \/ Step(f, "fallback") /\ UNCHANGED options
  /\ Only

FallBackToDevelopment(f) ==
  /\ BuildAt(f, "fallback")
  /\ Selected(f, AutoselectProvision(<<"Development">>, Device(f)), Stop(f))
  /\ Only

(* A fiber that did not select both itself validates what the options      *)
(* name, found once more. *)
AfterCertificate(f, c, opts) ==
  Set(f, [build[f] EXCEPT !.certificate = c, !.validate = opts,
                          !.pc = IF build[f].complete THEN "build" ELSE "validate"])

FindCertificateOption(f) ==
  /\ BuildAt(f, "findCertificate")
  /\ LET found == FindCertificate(options.certificate)
     IN IF found = {} THEN Stop(f) ELSE \E c \in found : AfterCertificate(f, c, options)
  /\ UNCHANGED options /\ Only

SelectCertificate(f) ==
  /\ BuildAt(f, "autoselectCertificate")
  /\ LET found == AutoselectCertificate(build[f].provision)
     IN IF found = {} THEN Stop(f) /\ UNCHANGED options
        ELSE \E c \in found :
               /\ options' = [options EXCEPT !.certificate = Exactly(c)]
               /\ AfterCertificate(f, c, options')
  /\ Only

(* A build for the simulator needs neither; when only one option is given  *)
(* the validation fails. *)
SimulatorCertificate(f) ==
  /\ BuildAt(f, "certificate")
  /\ AfterCertificate(f, None, options)
  /\ UNCHANGED options /\ Only

(* IOSDeploymentValidator.validate *)
Valid(opts, device) ==
  /\ opts.provision # None /\ opts.certificate # None
  /\ \E p \in FindProvision(opts.provision), c \in FindCertificate(opts.certificate) :
       ValidProvision(p, device) /\ ValidCertificate(c, p)

ThrowIfInvalid(f) ==
  /\ BuildAt(f, "validate")
  /\ IF Valid(build[f].validate, Device(f)) THEN Step(f, "build") ELSE Stop(f)
  /\ UNCHANGED options /\ Only

(* beginBuild, buildProject: the server answers with packages. *)
BuildProject(f) ==
  /\ BuildAt(f, "build")
  /\ Set(f, [build[f] EXCEPT !.pc = "built", !.validate = NoOptions])
  /\ UNCHANGED options /\ Only

(* What is left of build(): QR codes, or files. A package that cannot be   *)
(* installed over the air is downloaded instead. *)
ProvisionType(p) == IF p = None THEN None ELSE Provisions[p].type
Manual(p) ==
  /\ ProvisionType(p) \in {"Development", "AppStore"}
  /\ ~cli.settings.download /\ ~cli.settings.tam
UrlKind(p) == IF ProvisionType(p) = "AdHoc" THEN "manifest" ELSE "package"

Deliver(f) ==
  /\ BuildAt(f, "built")
  /\ LET p == build[f].provision
         qr == IF cli.settings.qr /\ ~Manual(p) THEN {UrlKind(p)} ELSE {}
         files == IF cli.settings.download \/ Manual(p) THEN {"download"} ELSE {}
     IN Set(f, [build[f] EXCEPT !.delivered = qr \cup files, !.pc = "done"])
  /\ UNCHANGED options /\ Only

(* Nothing was built, or a call was answered with an error: before         *)
(* anything is selected, or after. *)
BuildFails(f) ==
  /\ build[f].pc \in {"import", "build", "built"}
  /\ Stop(f)
  /\ UNCHANGED options /\ Only

BuildStep(f) ==
  \/ Request(f) \/ Android(f) \/ FindProvisionOption(f) \/ SelectProvision(f)
  \/ FallBackToDevelopment(f) \/ FindCertificateOption(f) \/ SelectCertificate(f)
  \/ SimulatorCertificate(f) \/ ThrowIfInvalid(f) \/ BuildProject(f) \/ Deliver(f)
  \/ BuildFails(f)
==========================================================================
