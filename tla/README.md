# A verification of the Telerik AppBuilder CLI

TLA+ models of the AppBuilder CLI (`lib/`, TypeScript on Node fibers), the TLC
configurations that check them on small instances, and TLAPS proofs.

## The system

The CLI is a short-lived process: it parses a command, resolves services from an
injector, and runs the command in a fiber. `.wait()` on a future yields to
other fibers; `Future.wait([...])` waits for all of its futures and rethrows
nothing. What survives a command is on disk (the project's files, the profile
directory) or on the server.

| Component | State | Operations | What is hard | What makes it correct |
|---|---|---|---|---|
| Project files (`project.ts`, `project/*.ts`) | `.abproject`, one optional `.<configuration>.abproject` per build configuration, the copies in memory | read (creates files for `--debug`/`--release`), get with fallback, set, save file by file | kills between writes, data in memory that has no file, a property kept in one of two places | what a build of a configuration gets changes only as commanded |
| `prop` on CorePlugins (`project-properties-service.ts`) | the list, in `.abproject` or in the configurations | add, rm, set for named configurations; moving the list out and back | lists in both places, one or three configurations, no configuration file | a command changes the named configurations only |
| Cordova plugins (`cordova-project-plugins-service.ts`) | CorePlugins, CordovaPluginVariables | add, remove, configure; modify an installed marketplace plugin | one save per configuration, any step may fail, several versions, plugins that replace others | one version per configuration, other plugins untouched, variables with the plugin |
| Project import (`multipart-upload.ts`, `project.ts`) | chunks in flight, on the server | direct import, or init, chunks in batches, complete | chunks fail silently, settle in any order, byte ranges | the server accepts only a whole file |
| Session (`login.ts`, `service-util.ts`) | cookie and user files, their caches in each process | login, logout, service call with cookie refresh, 401 | several processes on one profile, non-atomic writes, a failure between the two files | a logout is not undone, user and cookie agree, a call names the tenant of its session |
| User settings (`user-settings-service.ts`) | a settings file good for a day, a cache, the server's copy | load, get, save | the file outlives the session it was downloaded with | settings used and sent are those of the user of the session |
| Cordova migration (`cordova-migration-service.ts`) | framework version, Windows Phone SDK, the lists of plugins, the cordova.js files and their backups | `mobileframework set`, `prop set`; each property's handler calls the other's | saves in the middle, copying fails half-way, renames of plugins | version, SDK, plugins and files fit together, or are as they were |
| NativeScript project (`nativescript-project-plugins-service.ts`, `nativescript-migration-service.ts`) | package.json (modules, dependencies, variables), directories of local plugins, typings and those set aside | plugin add, fetch, configure, remove by name, path or URL; change of version; list of available plugins | two services that may fail, a change in several files restored by steps that fail as well | dependencies, variables and directories go together; a migration that ends well has migrated everything |
| Identities (`cryptographic-identities.ts`, validators) | certificates, provisions and signing requests on the server, the list printed last, local files | list, import, export, create, remove, download | the portal changes the store between a list and a command; names are prefixes or numbers | the item named is the item acted on |
| Cloud builds (`build.ts`, `deploy.ts`, `appmanager-service.ts`, ...) | `--provision` and `--certificate`, shared by the builds of one command; the package built last | build, emulate, deploy to several devices at once, AppManager and App Store uploads, LiveSync updates | one fiber per device, each selecting from options that the others write | what is signed fits the device and the purpose, and is handed out once |
| Project creation (`project.ts`, `commands/project/`, `samples-service.ts`) | the files of a directory, the list of samples | create, init, sample, sample clone | failures and kills between steps on the user's own files | the user's files stay; a failed creation leaves nothing |
| Ionic transformation (`ionic-project-transformator.ts`) | the backup, index.html, config.xml and resources per platform | backup, clone, delete | copies that fail silently, an order of steps that decides what is lost | files are kept or backed up; what a config.xml names is there |
| Cloud projects (`remote-projects-service.ts`) | solutions and apps listed, exported folders | cloud export | numbers, names, marked names and prefixes name an item; failures per project | the project exported is the one named |
| Cached packages (`extensions-service-base.ts`, `server-extensions.ts`, `app-scaffolding-extensions-service.ts`) | one file of versions, a directory per package, shared by processes | check, stop, delete, download, unpack, list | no lock, kills and failures between deleting and listing | what is started is whole and of the version wanted |
| Simulator and debug tools, Screen Builder, Kendo UI | applications at work, plugins of the simulator, the obsolete project, the kendo directory and its backup | simulate, debug, add-*, upgrade, kendoui install | as above, and a backup that is deleted however it ends | see below |

`PROJECT.json` lists every component with its status, and the hazards of the
code at their lines: those a property is about, with what the property excepts, and
a few that nothing in the code guards against. The other weaknesses met are under
"Divergences".

## Plan

1. *The project's plugins* (done): `ProjectFiles`, `CorePluginsProperty`,
   `CordovaPlugins`, composed by `CordovaProject`; abstract specification
   `EnabledPlugins`.
2. *The upload* (done): `MultipartUpload`, proofs in `MultipartUploadProofs`.
3. *The session* (done): `LoginData`, `ServiceProxy`, `LoginManager`,
   `UserSettings`, composed by `Session`.
4. *Migrations* (done): `CordovaMigration`, over the same `ProjectFiles`;
   `NativeScriptPlugins` and the migration, composed by `NativeScriptProject`.
5. *Identities and builds* (done): `IdentityStore`, which `IdentityCommands` and
   `CloudBuild` share, composed by `Distribution`.
6. *Creation* (done): `ProjectDirectory`, on which `IonicTransformation` and
   `RemoteProjects` work, composed by `ProjectCreation`.
7. *Cached packages* (done): `ExtensionsCache`, on which `ScreenBuilder` works,
   with `KendoUI`, composed by `CachedPackages`.
8. *Proofs* (done for the upload, the session, Cordova projects and migrations,
   NativeScript projects, creation, distribution and cached packages, see below):
   every safety property of a passing run is stated by a theorem.
9. *Left to model*: the commands that set the other properties of a project,
   templates and platform assets, JSON schemas, two commands at once on one
   project.

## Modules

A property of a run is often a conjunction of named parts, each stated and
explained by itself in the module (`OnlyAsAsked == OthersUntouched /\
SelectedOnly`). The names of such parts are used below.

### MultipartUpload

`Project.importProject` and `MultipartUploadService.uploadFileByChunks`. The
state is the position of the loop, the chunks in flight, the ranges announced,
what the server stored, and the outcome. `SendChunk` is one turn of the loop,
`ChunkStored` and `ChunkLost` are the ends of a request, in any order;
`BatchSettled` and `LastBatchSettled` are the two `Future.wait`s, which go on
whatever the requests' ends were. `WholeFileStored` is the server's check of
the hash of the file, modelled from the call.

* `upload`: types; the number of requests in flight; completion after every
  chunk is settled; the announced ranges tile the file; a completed upload has
  lost nothing; the command terminates. File sizes below, at, and above
  multiples of the chunk size, batches that fill and that do not.

Fairness: weak, on every action of the upload; requests end (Node's sockets
time out or are closed), and the loop has no other wait.

### ProjectFiles, CorePluginsProperty, CordovaPlugins, CordovaProject

`disk` holds the files and `mem` what the running command read and changed;
`started` remembers the files as they were when it started. A command is read
(`ReadProject`), decided (`pc = "command"` or `"prop"`), and done as a sequence
`todo` of tasks, one per configuration, chosen from `command` (the command and
its arguments); after each, `saveProject` writes
`.abproject` and then the configuration files in steps of their own, between
which the process may be killed, or the command fail because one cannot be written
(`SaveFails`; a file is written as a whole or not at all). `CanBeCutShort` says
whether a run has kills and failing writes. Lists are sets: no command depends on their
order, except `removePlugin` and `modifyInstalledMarketplacePlugin`, which take
the first installed instance; the model takes any instance of the first
configuration that has one. Plugin variables are the set of plugins that have
values. A prompt, a request or a write may fail at any task.

`EnabledPlugins` is what `prop` promises: the plugins each configuration gets
change for the named configurations, at once. `CordovaProject` implements it
when both configuration files exist and no command is cut short.

* `cordova_plugins`: everything together, on a project with a core plugin, a
  marketplace plugin in two versions with variables, and a second core plugin,
  obsolete, which the marketplace plugin replaces; with no or two configuration
  files (one comes to be by `--debug`), and no plugin or both core plugins
  enabled at first. A core plugin is replaced by a plugin that nothing replaces
  and that replaces no other (`ReplacingAssumption`), as the server's data has it.
  Two versions and two configurations are what the code distinguishes; `prop` only
  adds the first core plugin here, which is enough to move the lists between files; the
  other run has all of its modes
  and lists. Checked are that no configuration has two versions of a
  plugin, or a plugin beside the one that replaces it (`ObsoleteNotBeside`);
  that a command changes nothing but its plugin in the configurations named
  (`OnlyAsAsked`); that a command that ends well has saved what it changed; that
  a kill or a failing write leaves each configuration old or new; and that variables come with
  their plugin.
* `core_plugins_property`: the refinement, with two core plugins and all lists.

The order in which Node enumerates the files decides which configuration is the
"first" that `prop` compares; the model lets it be any. One command runs at a
time: the code has no lock, and two commands on one project overwrite each other.

### CordovaMigration

`onFrameworkVersionChanging`, `onWPSdkVersionChanging` and the commands that set
the two properties. `properties` is what is in memory of the version, the SDK
and AndroidHardwareAcceleration, `saved` what .abproject has; the lists of
plugins are those of `ProjectFiles`, whose save is used in the middle of the
migration (`Accelerate`) and at its end (`SaveAll`). `js` and `backup` say what
version each cordova.js file and its backup is of; `before` remembers
both at the start of the command. A command is a sequence `todo` of steps:
`FrameworkVersionChanging(v)` and `SdkChanging(s)` give the steps of the two
handlers, the second containing the first as the code does. Every step may fail
(`StepFails`: a refused prompt, a download, validation), a copy may leave a torn
file (`JsFails`), and copying back may fail as well (`RevertFails`). A step of
`todo` is atomic with respect to kills; `copyFile` is not with respect to
failures. The save at the end, like the one in the middle, may fail at any of its
files (`SaveFails`): what was written before stays.

* `cordova_migration`: three versions, the renames of the repository's tests (a
  chain of two, each in the version that has the new name), a plugin enabled by
  default, a marketplace plugin the oldest version lacks, SDKs below and above
  8.0, two platforms. `InitialLists` bounds the lists a project starts with, and
  `Intact` lets no command start with torn files or backups of an earlier one
  (`RestoreJs` is the user putting them back). cordova.json's
  forceHardwareAccelerationAfter, a resource of the server, is the newest version
  here; were it below 3.7, the save it causes would write the changed SDK before
  the version, and a failure later on would not undo that: with `AcceleratedFrom`
  lowered TLC refutes `FailedKeepsProject`, whose theorem therefore excludes it.
  `FailedKeepsProject` says that a command that fails has changed neither the
  version, nor the SDK, nor what is enabled (`Kept`). Only where it fails to write
  its files (outcome `notSaved`) may it have: either nothing is saved, or
  .abproject has all of the change, and of the configurations each has the plugins of before or
  the migrated ones (`PartlySaved`; see "Divergences").
* `migration_loses_plugin`: refutes the manual's sentence that the plugins are
  updated to match the version.

An enabled plugin that is not available cannot be removed by the migration that
offers to: `removePlugin` fails on it. `MigrateLists` is therefore enabled only
without invalid plugins; with them, `StepFails` is all there is.

### LoginData, ServiceProxy, LoginManager, UserSettings, Session

Each process runs one command as a `script`: the list of asynchronous steps it
has left. The head is the step the fiber waits in; an action performs it and
drops it, inserts the steps of a branch (`Insert`), or throws. Between two steps
other processes run and the process may be killed, which is what can happen
between two `.wait()`s. `Steps(c)` is the script of command `c`, put together
from the scripts of the functions it calls (`ClearLoginData`, `Call`, `Login`,
`Download`, ...).

* `LoginData`: the cookie and user files, which processes share, and each
  process's caches of them. A write opens the file (`Torn`: there, and empty)
  and then writes it; a delete takes what another process was about to write
  with it.
* `ServiceProxy`: `call` and `makeTapServiceCall`. An answer may carry
  set-cookie, which stores the cookies *the request was sent with*; a 401 clears
  the login; anything else throws.
* `LoginManager`: login in the browser, logout, `ensureLoggedIn`, and
  `dev-telerik-login`.
* `UserSettings`: the settings file and cache, the account's settings on the
  server; the age of the file is a choice (read it or download it).
* `Session`: the commands, the start, end and kill of processes, and sessions
  that expire.

A session is identified with its user and a tenant with its user: the
properties only ask whose they are. `mishaps` remembers what went wrong since
the last complete login or logout and `loggedOut` that a logout is the last
word; no action of the program reads them. `TelerikLogin` and `BrowserAnswers`
let the user be anyone, so every login may be of the other user.

* `session`: one process at a time, two users, all nine commands, kills, expiry,
  failures of every call. Two users are needed to mix and enough: every property
  compares two owners. One process, as two concurrent ones do break the
  properties (see `logout_undone` and below); sequences of processes, each
  leaving its files to the next, are what the invariants are about.
* `logout_undone`: two processes, one user; the answer to a call that was sent
  before a logout brings the session back after it.

Fairness: weak, on the steps of a running process - a fiber that waits for the
disk, a socket or a timer is resumed. None on the user at the browser
(`BrowserAnswers`), on starting commands, kills, or expiry. `EveryCommandEnds`
is therefore stated for a CLI without a terminal, where `loginInBrowser` has a
timer; at a terminal it waits for the user for ever, as the code does.

### IdentityStore, IdentityCommands, CloudBuild, Distribution

The certificates, provisions and signing requests of the server are sets of
numbers; what they contain (a key, a type, the devices covered, whether they are
expired) never changes and is a constant. The portal, or another CLI, may change
the sets at any time (`PortalChange`); `stale` remembers that it did while a
command ran. `cli` is the command and where it waits.

* `IdentityStore`: finding by prefix or number (`FindByNameOrIndex`), the
  validators, and the automatic selection of a certificate and a provision.
* `IdentityCommands`: list, import (with its password attempts), export, create,
  remove and download of the three kinds, step by step from one answer to the
  next. `listing` is what was printed last and `removed` what was removed, as a
  number typed refers to the former and is looked up in a list fetched anew.
* `CloudBuild`: `build()` in one fiber per device (`build`), sharing `options`,
  that is --provision and --certificate, into which a fiber writes what it
  selected. Every action ends where the fiber waits. A selection falls back to Development
  provisions when it finds none and when its request fails, as in the code.
* `Distribution`: build, deploy, emulate, AppManager upload, LiveSync update and
  App Store upload around the builds, and the package file they share
  (`target`).

`distribution` checks

* `SignedToInstall`: a command with one build signs with a valid certificate of
  the valid provision it uses (`SignedForDevice`); with two devices, each
  package's provision still covers its device (`ProvisionCoversDevice`), while
  the certificate may be the other fiber's and is not stated. With three devices
  the provision need not cover it either: a fiber that took the provision the first
  one wrote validates the options after the second one has overwritten them (with
  a third device in the constants TLC finds it);
* `HandedOutFits`: a build is handed out once, as a file or as a code, and as a
  code only if its provision allows it (for an App Store upload, while nobody
  replaces the provision at the portal meanwhile); AppManager gets no App Store package; an
  update is published of a project that has the LivePatch plugin;
* `RemovesTheListedOne`: the item removed by number is the one printed under it,
  unless the store changed in between.

Bounds: three stores drawn from four identities (an expired one, and one that is
not of Apple) and four provisions of the four types (covering one device, the other, both, none);
two devices, as two fibers are enough to overwrite each other's options; one
change of the store by a command or from elsewhere, which is what it takes to
make a list stale; no iOS simulator among the devices of a deploy (`deploy.ts`:59);
names are numbers in their order, so that a prefix is a set of
them. A call of the server that the code treats like another fails at one of
them only.

### NativeScriptPlugins, NativeScriptProject

`package` is package.json: the version of the modules, the dependencies (a
version, a URL or a file of the project) and which of them have variables;
`content` is the plugin that is at each path. A command is a sequence of steps
`pc`; a step that asks a service may fail, and between two steps the process may
be killed. `before` remembers package.json, the typings and the version. A directory or
tarball is copied into the project with `shelljs.cp`, which throws nothing: the copy
may be missing and the command goes on (`task.missed`).

* `NativeScriptPlugins`: add, fetch, configure and remove, by name and version,
  `name@file:path`, path or URL. The marketplace may be unreachable at any
  lookup, after which npm is asked; a plugin from outside the project is copied
  into its plugins directory. The console is not interactive, so a variable
  without a default fails.
* `NativeScriptProject`: the change of version (`ChangeModules`, `SetAside`,
  `Unpack`, `DeleteAside`, `SaveVersion`, and the way back through `RestorePackage`,
  `DeleteTypings`, `PutBack`, each of which may fail as well), the download of
  the archives it unpacks, of which each starts as an empty file, and the search
  for available packages page by page.

`nativescript_project` checks

* `DependenciesKept`: variables are of dependencies only, and a command that
  fails leaves both as they were;
* `DependenciesInstall`: a dependency on a file of the project finds its plugin
  there, but for one whose copy failed silently and, while it is removed, the one
  `plugin remove` deletes first; and a version added supports the project's;
* `MigratedOrRestored`: a migration that ended well has migrated modules,
  typings and version together, whatever an earlier one left behind; one that
  says it restored the original state has, when it was the unpacking that failed
  (for other failures it is not true, see below);
* `ListsEnough`, `CommandsEnd`: a list is as long as asked, or complete, or, where an
  answer without a body ended the search (`EmptyBody`, `list.cut`), has all that
  the pages before it had; and every command ends.

`plugin_not_removed` refutes the manual's sentence that `plugin remove` removes.

Bounds: two plugins (one of the marketplace in two versions, and one of npm with a
variable without a default that is a directory, a tarball and a URL as well, as
any pair of sources of one name is distinguished by what package.json has of it);
two versions of the framework, a tarball, four packages to search. `InOrder`, `AtMostOnePlugin`
and `NoPlugins` say in which projects a kind of command is given, so that plugin
commands, migrations and downloads are not multiplied with each other where
neither reads what the other writes: plugins are changed where the typings are in
order, a project that is migrated has at most one. A directory of the project is of
one plugin: no two outside are copied to one name, nor is one to the name of
another plugin (`HomesAssumption`; what happens otherwise is under "Divergences").

Fairness: weak, on the steps of the running command, as each of them is an answer
or an error of the file system or of a socket; none on starting commands or on
kills.

### ProjectDirectory, IonicTransformation, RemoteProjects, ProjectCreation

`project` says of each file that matters whether it is absent, the user's, of the
template, or made by the CLI. A command is a sequence of steps `pc` on the files;
any step may fail or be the last before a kill.

* `ProjectDirectory`: the directory, and how a command begins, fails and ends.
* `IonicTransformation`: the backup, .abignore, index.html, the clones of
  config.xml (`configs`) and of the resources they name (`appResources`), and
  the deletions. `widget` is the parsed config.xml, one object for all
  platforms, which each platform's clone overwrites. A copy of `shelljs.cp` may fail
  without an error, in the backup (`task.silent`) and of resources, those of iOS and,
  when the widget has no entry for wp8, its resources too (`task.notCloned`). A splash screen of
  wp8 is recognised by a name that is a part of its `src` (`PartOf`).
* `RemoteProjects`: cloud export. A solution (`Solutions`) or app (`Apps`) is named,
  in this order, by a name with the mark of a solution, by id, by name, or by
  number (`Matching`); a project by the beginning of its name (`Begins`), or else by
  number. Apps are listed after the solutions, which are marked then, only while
  the user's solutions are being migrated (`migrating`).
* `ProjectCreation`: create (with Screen Builder's generator or without), init
  with its detection of the framework, sample and sample clone.

`project_creation` checks

* `UserFilesSafe`: what was in the directory before a command is there after it,
  or in the backup the user wanted, however the command ended; but for what an
  Ionic project is said to lose without one, and copies that failed silently. A
  backup is not uploaded;
* `FailedLeavesNothing`: a creation that failed has deleted what it made;
* `NamedIsThere`: the resources a platform's config.xml names are in App_Resources by
  that name, but for those whose copy failed silently;
* `FromCloudWhole`: a list with samples missing follows an error; the project
  files of an export have the properties of their own project, and every project
  has one or a warning.

Bounds: seven directories, one for each case of the detection and Ionic ones with
and without what the transformation treats specially; six config.xml files, one
for each order of platforms that matters and one naming a screen whose name contains
an icon's;
two commands, as what a failed or killed command leaves is met by the next one;
exports where nothing is there yet (`ExportsWhereEmpty`), as they do not read the
project. The run has no fairness and promises no progress.

### ExtensionsCache, ScreenBuilder, KendoUI, CachedPackages

Processes share `versions`, the file of versions, which each reads once and
writes whole, and `directory`, a directory per package. `ExtensionsCache` is
`prepareExtension`: ask the server, compare, refuse when the application runs,
delete, download, unpack, list; and every failure's way out. `ScreenBuilder`
goes on with its package: obsolete, prompt, upgrade, generate. `CachedPackages`
goes on with applications (plugins of the simulator, then start), and adds
`KendoUI`, `kendoui install` with its backup. `overlapped`, `outdated`,
`wentBack`, `relisted`, `interrupted` and `harmed` are history that says where
the code has no protection. No step of the program depends on them, but for
`Unzip`, which may leave anything where two processes write one archive.

`cached_packages` checks

* `PackagesAreFresh`: a package that is ready is whole and not older than wanted,
  and a listed one is there, whatever was killed or failed, and whatever other
  processes did to *other* packages; except where the server's version went down
  (`wentBack`), and a package that another process listed again from what it had
  read earlier (`relisted`, see "Divergences");
* `StartedIsWhole`: no update touches an application at work, the simulator
  starts with all of its plugins unless an earlier download of them was cut off and not
  cleaned up (`interrupted`), nothing is generated in an obsolete project unless the
  upgrade, too, answered that it is obsolete;
* `KendoOldOrNew`: after an install Kendo UI is the new one; after a failure the
  one before, or the new one beside a backup that could not be deleted. Where
  some of the new one was unpacked, permission was denied, the backup could not be
  renamed back or the command was killed, the old one may be lost (`harmed`).

Bounds: two processes, two versions, two applications and Screen Builder; three
commands, the last one given when the others have ended (`LastAlone`), so that it
meets what two that ran at once, failed or were killed have left; none is given
after two processes were at work on one package (`UndisturbedSoFar`), of which
nothing is stated; the cache is empty or all of one version at first; the
server's version changes while commands run, and goes down at most once
(`Busy`); kendoui install, which shares nothing with the others, is given where
only it is (`OnlyKendo`, `OnlyPackages`). No fairness.

## Proofs

`MultipartUploadProofs` proves, for every file size, chunk size and batch size
(positive, as `UploadAssumption` says), type correctness and the four safety
invariants of the run. The inductive invariant adds what relates the loop's
position to the ranges announced and to the chunks that have been settled;
without it, that the ranges tile the file does not follow from itself, as a
step appends a range that starts at the position.

`CordovaProjectProofs` proves for all plugins, configurations, lists, commands
and initial projects:

* `TypeCorrect`: `TypeOK`. It is not inductive: that the update of a named
  configuration finds data to update, and that a task is left when one is done,
  are needed (`InMemoryInv`, `CommandInv`). On the way, `BestMatchingIsInstance`
  shows that `getBestMatchingPlugin` returns one of the plugins it chose from,
  and `RecordOfInstance` that what is recorded of it is one of the known
  records; both rest on `KnownPluginsAssumption`, which says that every known
  plugin has a record.
* `SavedWhenDone`: `SavedWhenOk`. The inductive invariant `SavedInv` says that
  between saves the lists are the same in memory and on disk, and during one
  they are but for the configurations left to write. Its hard cases are a
  plugin task, which may touch only the configuration it saves
  (`SetPropertyElsewhere`), a removal that finds nothing and does not save, and
  a configuration without a file, which has nothing to differ from.
* `OnlyAskedChanges`: `OnlyAsAsked`. `AskedInv` says of the tasks left that they
  are of the plugin named, or of the one that replaces it or that it replaces
  (its `Family`), and in the configurations named, and of memory and disk that
  the rest of every list is as at the start.
* `NeverTwoVersions` and `NeverBeside`: `OneVersionPerConfiguration` and
  `ObsoleteNotBeside`, for `PluginsOfFramework`: the lists at first are coherent,
  every plugin in them is one the version of the framework has, and what `prop`
  is given has one version and replaces nothing. Other plugins are not removed
  by `plugin add`, as no instance of them is found, and neither
  `updateCorePlugins` nor the schema looks for such pairs; the run's constants
  satisfy it. `ReplacingAssumption` is needed as the code looks one replacement
  far.
* `NeverWithoutVariables`: `VariablesComeWithPlugin`. `ShapeInv` says what a
  command can have left: removals, one task, or two in different configurations
  of which the second enables; so no task takes variables away from a plugin
  that an earlier one enabled. `VariablesInv` speaks of memory and of the files,
  each as a whole: between the two they need not be the same.
  `IdentifierAssumption` says that a record names one known plugin
  (`identifierToPlugin` is a map).
* `OldListsOrNew`: `OldOrNew`, for `PluginsOfFramework`. `OldOrNewInv` says that
  while the list in memory differs from the one at the start, no task left
  will change it once more, except removals, after which nothing of the family
  is left: where a list could have two of a family, a kill between them would
  leave a third state.
* `ListsInOnePlace`: `ListedInOnePlace`, where only `prop` is run and not cut
  short
  (`PropOnly`, which is what the run checks: the divergences below say how
  `plugin` and kills break it), for any number of configurations.
* `PropImplementsPromise`: the refinement of `EnabledPlugins`, for the same
  commands and both configuration files (`BothHaveFiles`; with a third
  configuration it is false, see "Divergences"). `GrantInv` says that what
  `updateCorePlugins` has in memory, whichever way it moved the lists, is what
  `Grant` gives each configuration; the last write is the step `Grant`, all
  others stutter.

`CachedPackagesProofs` proves all the properties of `cached_packages`, for any
number of processes, applications, versions and commands (`PackagesAssumption`,
`BoundsAssumption`, `SimulatorAssumption`): `PackagesStayFresh`,
`WholeIsStarted` and `KendoIsOldOrNew`. The bounds of the run (`LastAlone`,
`UndisturbedSoFar`, `OnlyKendo`, `Busy`) are used nowhere in the proof, so
that what the run shows with three commands holds without them. None of the
properties is inductive, as they speak of the end of an update and of what is
listed then. `IInv` adds

* `AloneInv`: two processes at work on one package are known to be; it lets every
  step that deletes, unpacks or lists a package forget the other processes;
* `ThereInv`: a package that was cleared is outdated until it is listed, and what
  is not there and not outdated is known to no process, so that nobody writes
  it back;
* `FreshInv`: a listed version is never newer than the directory, and older than
  the server's while the package is outdated: an update that fails after the
  directory was deleted is therefore begun again by the next command. Here
  `relisted` is needed: without it the step that writes the file breaks it. The
  run passes without `relisted`; the attempt to prove the property, and then a
  run with five commands, showed what it is;
* `RunningInv` and `PluginsInv`: where an application may be at work, and who
  downloads plugins that are there in part.

A lemma for each kind of step says what becomes of a process (`GotoBecomes`,
`ReadBecomes`, ..., `GoesOn`); the steps of the invariant's parts cite those.

`CordovaMigrationProofs` proves for any versions, SDKs, renames, platforms and
initial projects:

* `SavedVersionsFit`: `VersionsFit`;
* `FailureKeepsProject`: `FailedKeepsProject`, for `AcceleratesLate`, see above, and
  `MigrationSettles`, see below: where there are no configuration files the one list
  is migrated twice, and a save that then fails part-way may have written it;
* `FilesAllOrNone`: `JsAllOrNone`.

A command runs a sequence of steps, so the inductive invariant `Inv` is about the
sequence that is left: `RunInv` says that there is one version all of its steps
go to, in the order of their `Rank`, and `PlanInv` which steps imply which (a file
still to be backed up is still to be copied, a list still to be migrated means
that the version is still to be set, ...). `FitInv` then says that the version and
the SDK will fit when they are set, `SdkInv` that the SDK is the old one while the
acceleration may still be saved, `JsInv` which files are new and which have a
backup; `RevertInv` says that what is to be copied back has one. For a save that fails
part-way `PartInv` adds that what the command was asked for is set, or still to be
(`GoalInv`), that each list in memory is as at the start or migrated to one and the
same version (`MemoryListsInv`), and that each on disk is one of the start or of memory
(`DiskListsInv`). The sequences are
replaced by the set of their steps (`Left`) wherever order does not matter.
`PlatformsAssumption` says that no platform is listed twice.

Three more theorems are about the lists of core plugins:

* `MigratedListsAreSaved`: a change of version that succeeds has saved for each
  selected configuration what it had enabled at the start, migrated once; and
  the one list of a project without configuration files migrated twice. It rests on
  no assumption about the data, and says exactly what `migratePlugins` was applied
  to. Lists of configurations without a file, where others have one, are left out
  (`ListsAreSaved`), as in the properties;
* `ListsMigratedOnce`: `MigratedOnce`, for `MigrationSettles`;
* `UpgradesKeepPlugins`: `UpgradeKeepsPlugins`, for `MigrationSettles` and
  `UpgradesFollowNames`.

They come from `ListsInv`, on top of `Inv`. `MemoryMigrated` says that once the step
that migrates the lists is gone, the lists in memory are those of the start,
migrated to the version that the steps left still go to; `FilesReadInv` which
configurations have a file, on disk and in memory; `SavingInv` how much of the
memory is on disk while it is saved file by file. The first is not inductive alone:
that the version of the migration is the one saved in the end is `RunInv` and
`PlanInv`. What `migratePlugins` makes of a list is a fold over the renames, into
which the proofs do not look. The two hypotheses state what they need of it, and
are about the migration data alone: that migrating a list again changes nothing,
and that the renames followed upwards end at the one name the newer version has.
`MCCordovaMigration` assumes both, so that TLC evaluates them on its data.

`NativeScriptProofs` proves all the safety properties of `nativescript_project`, for
any plugins, paths, versions and answers of the services:

* `DependenciesAreKept`, `DependenciesCanBeInstalled` and `MigrationsAreWhole`:
  `DependenciesKept`, `DependenciesInstall` (an action property) and
  `MigratedOrRestored`, from one inductive invariant. `HomesInv` says that a
  directory holds only a plugin at home there, and that a dependency on a
  directory is of such a plugin: the copy of one plugin then overwrites no other. What a copy
  that failed silently leaves is followed by `task.missed` to the step that lists it.
  It rests on `HomesAssumption`. `PluginInv` and `MigrationInv` say what a command
  has found and done at each of its steps; `SetAsideInv` is what makes putting
  back restore the typings when the unpacking failed, and what is missing when
  an earlier step did.
* `ListsAreEnough`: `ListsEnough`, for any page size. `ListInv` says that the list
  holds, once each, the packages for NativeScript of the pages read, the last of
  which may have been answered with an empty body;
  `PlacesBefore` is the lemma that makes a sequence of a set in which they come
  once each.

`ProjectCreationProofs` proves for any files, templates, resources and number of
commands:

* `UserFilesAreSafe`: `UserFilesSafe`. Until init replaces a file of Ionic's, what
  was there is there (`KeptInv`); from then on what is replaced is in the backup,
  but for silent failures of copying (`SavedInv`). That Ionic's clones are named
  after the platform and the resource alone is `ClonesInv`, as `widget` is always
  that of the last platform when resources are cloned; `SamplesInv` and
  `ExportInv` do the rest of the conjunction. `ResourcesAssumption` and
  `TopAssumption` say where the files are: resources under `resources`, the core
  plugins under `plugins`, the files of the CLI at the top.
* `FailureLeavesNothing`: `FailedLeavesNothing`, from the first part alone.
* `NamedResourcesAreThere`: `NamedIsThere`, for config.xml files as Ionic makes them
  (`NamedAsFiles`: what they name has the extension of the file, Android's are for
  supported screens, and no icon of Windows Phone has a name that is a part of that
  of a splash screen; `MCProjectCreation` assumes it of its data). `NamedInv` says that the
  clone of a platform has the icons and splash screens of the last entry for it,
  although `widget` is overwritten by each platform, and that a resource cloned is in
  App_Resources by the name `CloneOf` gives it, the one the clone uses, or is one that
  `task.notCloned` says was missed; that those of Windows Phone are never missed where
  the clone names them is `WindowsPhoneClones`.
* `ListsAndExportsAreWhole`: the first two parts of `FromCloudWhole`, `ListedWhole` and
  `ExportedWhole`, without a condition.
* `FromCloudIsWhole`: `FromCloudWhole`, for `NamesTellApart`: names tell solutions
  apart, and apps, though a migrated app may have the name of its solution, and
  of the projects whose names begin with a project's name it is the first.
  `MCProjectCreation` assumes it of its data. `ExportedInv` says that the solution
  at hand is the one of the key typed (`FoundInv`), that a project of an export is
  still to be looked at, or has a file or a warning (`LookedAtInv`), in the folder
  of the solution's name (`FoldersInv`). That the solution found again by the
  name an export works with is the same one, and the project found by its own
  name itself, are lemmas on `GetApp` and `GetProjectName` (`SourceIsExported`,
  `ProjectIsItself`). Two solutions of one name, or a project listed
  after one whose name begins with its own, would take the properties of another:
  hence the hypothesis.

`DistributionProofs` proves for any certificates, provisions, requests and
commands, with changes of the store from elsewhere:

* `NumbersNameTheListed`: `RemovesTheListedOne`. `RemoveInv` says that the list
  last printed is that of the store's items, while nobody else changed it, and
  that the item at hand is the one under its number. That a list has each item
  once (`Listed`) is shown from the number of items before each.
* `SignedForOneDevice`: `TypeOK` and `SignedForDevice`, the first two parts of
  `SignedToInstall`, with any number of devices;
* `InstallsOnTwoDevices`: `SignedToInstall` with at most two devices
  (`AtMostTwoDevices`), as it is false with three. `SignedInv` says what each fiber
  has selected so far, and `OtherKnows` that while one fiber looks up the
  provision in the shared options, the other one has what it wrote there.
* `WhatIsHandedOutFits`: `HandedOutFits`, with any number of devices.

All of them rest on `StoreInv`, `BuildInv`, `CommandInv` and `TargetInv`: which
fibers may be at work for which command, what each one still has to select, and
which packages are kept for an upload. `StoreAssumption` says that a list of the
server is finite and that a provision has one of the four types of the server's
API; `MainAssumption` that no device is the fiber of a command without one.

`SessionProofs` proves for any users and any of the commands, where one process
runs at a time (`OneProcess`; with two the properties are false, see
`logout_undone` and "Divergences"):

* `FilesAreOfOneUser`: `FilesOfOneUser`;
* `TenantsMatchSessions`: `TenantMatchesSession`;
* `LogoutsStay`: `LogoutStays`;
* `SettingsAreTheUsers`: `SettingsOfUser` (an action property).

All four come from one inductive invariant, `IInv`, about the script that is left.
`Scripted` says of a script which steps may come anywhere before a step
(`Before`) and which may come next (`After`); it holds of every command's script
(`CommandSteps`), of the tail of a script, and of a script into which a login, a
refreshed cookie or a download is inserted (`TailScripted`, `JoinScripted`,
`Inserted`). From then on the proofs speak of the next step (`Now`) and of the set
of the steps left (`Left`) only. `TypeInv` says what the next step finds, as that
there are cookies in the cache whenever a call is sent; `FreshInv` what a login or
logout has deleted so far. The central notion is the `Owner` of the login: the
user of the cookie file, or of the cookies about to be written there. `OwnerInv`
says that the cached cookies are the owner's, and that a torn file is never left
but by a mishap; `UserInv` that the user on disk is the owner or about to be
deleted or written, so that any failure between the two files leaves the user
file absent; `SettingsInv` that settings on disk and in the cache are the
owner's, or those the server has for the owner, and that a command which will
send settings has read them or finds none. Of the commands not finished, only
one that was killed, was refused or is `dev-telerik-login` leaves these: that is
why `mishaps` is part of them. Every step that fails, logs out or passes shares
one lemma (`ThrowKeeps`, `ClearKeeps`, `PassKeeps`).

Model-checked only:

* that the data of a migration satisfy `MigrationSettles` and `UpgradesFollowNames`:
  this is about the result of a fold over the renames, and induction over data is
  out of the prover's reach. TLC evaluates both, with every list of records;
* liveness under fairness, which is out of the prover's reach
  (`UploadTerminates`, `EveryCommandEnds`, `CommandsEnd`), and the three runs that
  expect a violation.

## Divergences

Three runs refute a sentence of the manual: `migration_loses_plugin`,
`logout_undone` and `plugin_not_removed`; `PROJECT.json` quotes it under
"findings". The following were met while modelling or reading; where the code is
modelled the models do what it does, the properties except it by name, and no run
is spent on it.

Plugins (`cordova-project-plugins-service.ts` unless named):

* a plugin is reported as added to a configuration whose file does not exist
  and is therefore not written (408-409);
* `plugin configure` replaces the enabled version by the latest (406), while
  plugin-configure.md:19 speaks of variables only;
* `plugin remove --debug` deletes variables that Release uses too when they are
  kept in `.abproject` (424; plugin-remove.md:18);
* without configuration files the LivePatch plugin is enabled for Debug as well
  (308, against the message at 227);
* a core plugin that is enabled in one configuration is never added to the other
  (206, against the comment at 205);
* `prop add --debug` without a Release file takes the plugins from Release
  (`project-properties-service.ts`:269; prop-add.md:14);
* with three configuration files, lists of one length that differ may be merged
  into one (`project-properties-service.ts`:312, against 315);
* without configuration files, or after the last plugin is removed, `prop` drops
  the list, and the next `prop add` fails with "non-flags property"
  (`project-properties-service.ts`:64, 97, 269);
* `plugin configure` enables the plugin in a configuration that does not have it
  (304; plugin-configure.md:23);
* `plugin remove` leaves another version of the plugin in the other configuration
  (243; plugin-remove.md:12);
* without configuration files `plugin add` of a version enables the latest (309;
  plugin-add.md:10);
* `prop` naming one configuration overwrites the shorter list of the other
  (`project-properties-service.ts`:266; prop-add.md:15);
* a `prop` command killed after .abproject is written leaves a list that was
  moving in no file (`project-properties-service.ts`:269).

Migration (`cordova-migration-service.ts`):

* whether a plugin is available is asked for the old version, while the message
  names the new one (220-232, 313), and the removal it offers fails;
* a configuration without a file of its own, while the other one has one, keeps
  its plugins and gets the new version (252, `project.ts`:386), and so does one
  the command does not name (248), as the version is the project's;
* a failure after the cordova.js files are replaced leaves them replaced (255),
  and one while they are copied back deletes the backups (300);
* a command killed between .abproject and a configuration file, or failing to write
  the latter (`project.ts`:637), leaves the new version with the old plugins, and
  repeating it does nothing (201).

Upload: the comment at `multipart-upload.ts`:28 calls `endByte` exclusive, while
the stream at 35 includes it, one byte more than the Content-Length.

Session:

* the settings file survives a 401, so the next user's commands use it, and
  upload it (`service-util.ts`:57, `user-settings-service.ts`:76);
* of two processes, one that reads the cookie file while the other writes it
  logs the user out (`login.ts`:103);
* a login that fails after `setCookies` leaves a session without a user:
  `ensureLoggedIn` is satisfied, and calls that need the tenant say "Not logged
  in." (`login.ts`:261);
* `dev-telerik-login` deletes nothing first, so that a failure after the cookie
  leaves the cookie of one user and the file of another (`login.ts`:277).

Identities, builds and deployment (`build.ts`, `cryptographic-identities.ts`
unless named):

* with several devices, a fiber that computed `completeAutoselect` early signs
  with the certificate another fiber selected and does not validate the pair
  (169), and installs the package built last, whose provision need not cover its
  device (`deploy.ts`:66);
* an upload to the App Store falls back to a Development provision
  (192; `itunes-connect.ts`:104);
* certificate-request create loses the details it was given and sends only those
  it asked for (657; certificate-request-create.md:8);
* an export that fails leaves its file, because of which it then always fails
  (530); a request whose download fails stays on the server;
* `appmanager livesync --debug` may publish a Release update without the
  LivePatch plugin (`appmanager-service.ts`:153).

NativeScript (`nativescript-project-plugins-service.ts` unless named):

* when a migration fails before the typings were set aside, it deletes them and
  says that it restored the original state (`nativescript-migration-service.ts`:
  139); a set that a killed migration left aside makes every later one fail (243);
* archives that could not be downloaded stay behind empty
  (`nativescript-migration-service.ts`:77);
* a marketplace plugin is added without its variables when npm does not answer
  (591), and a plugin that no longer fits the project cannot be removed (593);
* a copy of a local plugin that fails does so silently (471), and without a `plugins`
  directory a tarball becomes a file of that name: either leaves a dependency on
  nothing; so does a failure of `plugin remove` after the directory is deleted (135);
* an answer without a body ends the search for available plugins, and the list
  so far, however short, is printed as if it were all (353);
* two directories outside the project with one name overwrite each other's copy,
  and removing either plugin deletes it (471); a dependency on a directory of the
  user's inside the project is deleted with that directory (135).

Project creation:

* init reads the template's .abproject, never an existing .proj or .iceproj
  (`project.ts`:298; init-hybrid.md:8); an init that failed cannot be given again;
* a second init of an Ionic project deletes the first backup
  (`ionic-project-transformator.ts`:361); a file that could not be copied to it
  is deleted nevertheless (372); wp8 not being the last platform of config.xml,
  its clone names files that were not copied (163); resources of iOS, and of wp8
  where config.xml names none, that cannot be copied to App_Resources are missed silently,
  and the originals deleted (317, 327);
* answers for Screen Builder that cannot be read leave a half-made project
  (`create.ts`:30), and a failed create deletes the directory named by --path
  even if it was there (`project.ts`:831);
* a page of samples that cannot be read leaves a partial list for the next
  caller (`samples-service.ts`:192);
* exporting one project of a solution that an app has the name of uses the app's
  properties (`remote-projects-service.ts`:79); an archive that cannot be
  unpacked leaves a folder that refuses every later export (128).

Cached packages:

* after a failed update the old version is listed and its directory is gone
  (`extensions-service-base.ts`:71); two processes at work on one package delete
  each other's files (56), and of two on different ones, one's entry in the file
  of versions is lost (88), or a newer one that was lost is put back; if the
  update of that package failed meanwhile, it then counts as fresh and is not
  there (found with five commands, more than the run gives); a server updated in between
  has a newer package
  listed as the older (`server-extensions.ts`:21);
* a directory of plugins left by a killed download, or by one that failed and could not
  delete it (`project-simulator-service.ts`:68), is taken for whole (50);
* `add-*` goes on to generate in an obsolete project when the upgrade itself answers that it
  is obsolete (`screen-builder-service.ts`:210);
* kendoui install loses the old files when permission is denied, or some of the
  new ones were unpacked (`kendoui-install.ts`:103, 106), or when renaming the backup
  back fails, as it is deleted all the same (109).

The remote server empties and fills one directory per launch request: requests
that overlap delete each other's package (`remote-service.ts`:50), and several
error paths answer twice or never (60).

## Not modelled

* The `lib/common` submodule (file system, prompts, command dispatch, HTTP, the
  device layer) is not in the repository and is modelled from its use.
* Two commands at once on one project: nothing in the code coordinates them, so
  that no property of the files would hold.
* The remote server, for the same reason: only a request that meets no other
  behaves.
* Web views (a choice between plugins through `addPlugin`), templates and
  platform assets, resources and downloads, start-up, options and help: lists and
  straight-line I/O; what other components need of them is modelled there.
* LiveSync and debuggers start external programs; certificate parsing and JSON
  schema validation are calls of libraries, whose verdicts the models choose; the
  server API is generated.
* Layout, logging and wording.

`PROJECT.json` gives the reason for every component that is left out in part.
