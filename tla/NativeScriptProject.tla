------------------------ MODULE NativeScriptProject ------------------------
(***************************************************************************)
(* A NativeScript project: its plugins, the migration to another version   *)
(* (lib/services/nativescript-migration-service.ts), the resources a       *)
(* migration unpacks, and the list of available plugins.                   *)
(*                                                                         *)
(* A migration writes package.json, and in a TypeScript project sets the   *)
(* typings of the core modules aside, unpacks the new ones and deletes     *)
(* those set aside; each step may fail, and then the state before is to be *)
(* restored, by steps that may fail as well.                               *)
(***************************************************************************)
EXTENDS NativeScriptPlugins

CONSTANTS
  WithModules,   \* the versions the migration data names modules for
  TypeScript,    \* whether the project has more .ts than .d.ts files
  Search,        \* packages npm finds, in order: [name, native]
  Typed,         \* the identifiers a user types
  Counts         \* how many a user may ask for

ASSUME ModulesAssumption == WithModules \subseteq SupportedVersions /\ TypeScript \in BOOLEAN
ASSUME TypedAssumption == Typed \subseteq {id \in Identifier : id.kind = "name" \/ id.name = NoPlugin}
ASSUME SearchAssumption == Search \in Seq([native : BOOLEAN])
ASSUME CountsAssumption == Counts \subseteq Nat \ {0}

VARIABLES
  typings,    \* the version of typings/tns-core-modules
  setAside,   \* that of its backup
  archives,   \* the versions whose archive of typings was downloaded whole
  list        \* the list being made: [count, page, plugins, answered, cut]

vars == <<pluginVars, typings, setAside, archives, list>>

Absent == 0
Partial == 998

NoList == [count |-> 0, page |-> 0, plugins |-> <<>>, answered |-> {}, cut |-> FALSE]

Listed == {n \in Names : IsListed(n)}

(* Bounds, for the commands that do not read what another one changes:      *)
(* plugins are changed where the typings are in order, a project migrated  *)
(* has at most one plugin and no local one; downloads and lists are made   *)
(* where there is none.                                                    *)
InOrder == typings = framework /\ setAside = Absent /\ archives = SupportedVersions
AtMostOnePlugin == Cardinality(Listed) <= 1 /\ content = InitialContent
NoPlugins == Listed = {} /\ content = InitialContent

ProjectUnchanged == UNCHANGED <<package, content, framework>>
TypingsUnchanged == UNCHANGED <<typings, setAside, archives>>

--------------------------------------------------------------------------
(* onFrameworkVersionChanging: a version that is the project's is only     *)
(* saved.  package.json is made if there is none.                          *)
StartMigration(version) ==
  /\ pc = "idle" /\ AtMostOnePlugin
  /\ package' = IF package = NoPackage /\ version # framework THEN DefaultPackage ELSE package
  /\ before' = [package |-> package', typings |-> typings, framework |-> framework]
  /\ task' = [NoTask EXCEPT !.command = IF version = framework THEN "save" ELSE "migrate", !.to = version]
  /\ pc' = IF version = framework THEN "save" ELSE "modules"
  /\ outcome' = "none"
  /\ UNCHANGED <<content, framework>> /\ TypingsUnchanged

Goto(next) == pc' = next /\ UNCHANGED <<task, outcome, before>>

(* The migration's steps are in a try; a failure is remembered. *)
Fails(step) ==
  /\ pc' = "restore package"
  /\ task' = [task EXCEPT !.failedAt = step]
  /\ UNCHANGED <<outcome, before>>

(* getModuleVersion, and the first write of executeMigrationActions. *)
ChangeModules ==
  /\ pc = "modules"
  /\ \/ Fails("modules") /\ UNCHANGED package
     \/ /\ task.to \in WithModules
        /\ package' = [package EXCEPT !.modules = task.to]
        /\ Goto(IF TypeScript THEN "set aside" ELSE "save")
  /\ UNCHANGED <<content, framework>> /\ TypingsUnchanged

(* renameIfExists does not rename onto a directory that is there. *)
Rename(from, to) == from = Absent \/ to = Absent

SetAside ==
  /\ pc = "set aside"
  /\ \/ Fails("set aside") /\ UNCHANGED <<typings, setAside>>
     \/ /\ Rename(typings, setAside)
        /\ Goto("unpack")
        /\ setAside' = IF typings = Absent THEN setAside ELSE typings
        /\ typings' = Absent
  /\ ProjectUnchanged /\ UNCHANGED archives

(* As if an empty archive could be unpacked. *)
UnpackAnything ==
  /\ pc = "unpack"
  /\ Goto("delete aside")
  /\ typings' = IF task.to \in archives THEN task.to ELSE Absent
  /\ ProjectUnchanged /\ UNCHANGED <<setAside, archives>>

Unpack ==
  /\ pc = "unpack"
  /\ \/ Fails("unpack") /\ typings' \in {Absent, Partial}
     \/ task.to \in archives /\ Goto("delete aside") /\ typings' = task.to
  /\ ProjectUnchanged /\ UNCHANGED <<setAside, archives>>

DeleteAside ==
  /\ pc = "delete aside"
  /\ \/ Fails("delete aside") /\ setAside' \in {setAside, Partial}
     \/ Goto("save") /\ setAside' = Absent
  /\ ProjectUnchanged /\ UNCHANGED <<typings, archives>>

(* The contents package.json had are written back. *)
RestorePackage ==
  /\ pc = "restore package"
  /\ \/ End("broken") /\ UNCHANGED package
     \/ /\ package' = before.package
        /\ IF TypeScript THEN Goto("delete typings") ELSE End("restored")
  /\ UNCHANGED <<content, framework>> /\ TypingsUnchanged

DeleteTypings ==
  /\ pc = "delete typings"
  /\ \/ End("broken") /\ typings' \in {typings, Partial}
     \/ Goto("put back") /\ typings' = Absent
  /\ ProjectUnchanged /\ UNCHANGED <<setAside, archives>>

PutBack ==
  /\ pc = "put back"
  /\ \/ End("broken") /\ UNCHANGED <<typings, setAside>>
     \/ /\ End("restored")
        /\ typings' = setAside
        /\ setAside' = Absent
  /\ ProjectUnchanged /\ UNCHANGED archives

(* saveProject, at the end of the command. *)
SaveVersion ==
  /\ pc = "save"
  /\ \/ End(IF task.command = "migrate" THEN "migrated" ELSE "done") /\ framework' = task.to
     \/ End("broken") /\ UNCHANGED framework
  /\ UNCHANGED <<package, content>> /\ TypingsUnchanged

--------------------------------------------------------------------------
(* downloadMigrationData (dev-prepackage): the directory is emptied, and   *)
(* of the archives, downloaded at once, each starts as an empty file;      *)
(* Future.wait does not tell that one failed.                              *)
StartDownload ==
  /\ pc = "idle" /\ NoPlugins
  /\ archives' = {}
  /\ task' = [NoTask EXCEPT !.command = "download"]
  /\ outcome' = "none" /\ pc' = "download" /\ before' = NothingBefore
  /\ UNCHANGED <<package, content, framework, typings, setAside>>

DownloadArchives ==
  /\ pc = "download"
  /\ archives' \in SUBSET SupportedVersions
  /\ End("done")
  /\ ProjectUnchanged /\ UNCHANGED <<typings, setAside>>

--------------------------------------------------------------------------
(* getTopNativeScriptNpmPackages: pages of the search until enough         *)
(* packages for NativeScript were found or a page is empty.  Packages npm  *)
(* does not answer for are left out.  An answer without a body ends the    *)
(* search as well, and the list is then what was found so far.             *)
StartList(count) ==
  /\ pc = "idle" /\ framework \in SupportedVersions /\ NoPlugins /\ InOrder
  /\ \E silent \in SUBSET DOMAIN Search :
       list' = [NoList EXCEPT !.count = count, !.answered = DOMAIN Search \ silent]
  /\ task' = [NoTask EXCEPT !.command = "list"]
  /\ pc' = "page" /\ outcome' = "none" /\ before' = NothingBefore
  /\ UNCHANGED <<package, content, framework, typings, setAside, archives>>

PageOf(page, count) ==
  {i \in DOMAIN Search : page * count < i /\ i <= (page + 1) * count}

IsNativeScript(i) == i \in list.answered /\ Search[i].native

(* The first `most` of a set of places, in order. *)
FirstOf(places, most) ==
  LET Before(i) == Cardinality({j \in places : j < i})
  IN [k \in 1..(IF Cardinality(places) <= most THEN Cardinality(places) ELSE most) |->
        CHOOSE i \in places : Before(i) = k - 1]

(* As if the search went on past its last page. *)
NextPageForEver ==
  /\ pc = "page"
  /\ LET page == PageOf(list.page, list.count)
         plugins == list.plugins \o FirstOf({i \in page : IsNativeScript(i)}, list.count - Len(list.plugins))
         more == Len(plugins) < list.count
     IN /\ list' = [list EXCEPT !.plugins = plugins, !.page = IF page = {} /\ PageOf(@ - 1, list.count) = {} THEN @ - 1 ELSE @ + 1]
        /\ IF more THEN Goto("page") ELSE End("listed")
  /\ ProjectUnchanged /\ TypingsUnchanged

(* As if pages were counted in packages. *)
NextPageByOne ==
  /\ pc = "page"
  /\ LET page == {i \in DOMAIN Search : list.page < i /\ i <= list.page + list.count}
         plugins == list.plugins \o FirstOf({i \in page : IsNativeScript(i)}, list.count - Len(list.plugins))
         more == Len(plugins) < list.count /\ page # {}
     IN /\ list' = [list EXCEPT !.plugins = plugins, !.page = IF more THEN @ + 1 ELSE @]
        /\ IF more THEN Goto("page") ELSE End("listed")
  /\ ProjectUnchanged /\ TypingsUnchanged

NextPage ==
  /\ pc = "page"
  /\ LET page == PageOf(list.page, list.count)
         plugins == list.plugins \o FirstOf({i \in page : IsNativeScript(i)}, list.count - Len(list.plugins))
         more == Len(plugins) < list.count /\ page # {}
     IN /\ list' = [list EXCEPT !.plugins = plugins, !.page = IF more THEN @ + 1 ELSE @]
        /\ IF more THEN Goto("page") ELSE End("listed")
  /\ ProjectUnchanged /\ TypingsUnchanged

EmptyBody ==
  /\ pc = "page"
  /\ list' = [list EXCEPT !.cut = TRUE]
  /\ End("listed")
  /\ ProjectUnchanged /\ TypingsUnchanged

(* The search fails: there is no list. *)
SearchFails ==
  /\ pc = "page"
  /\ list' = NoList
  /\ End("not listed")
  /\ ProjectUnchanged /\ TypingsUnchanged

--------------------------------------------------------------------------
(* The process is killed. *)
Kill ==
  /\ pc # "idle"
  /\ End("killed")
  /\ ProjectUnchanged /\ TypingsUnchanged

Init ==
  /\ package \in {NoPackage, DefaultPackage}
  /\ content = InitialContent
  /\ framework \in SupportedVersions
  /\ pc = "idle" /\ task = NoTask /\ outcome = "none"
  /\ typings \in {Absent, framework}
  /\ before = NothingBefore
  /\ setAside = Absent
  /\ archives = SupportedVersions
  /\ list = NoList

MigrationStep ==
  \/ ChangeModules \/ SetAside \/ Unpack \/ DeleteAside \/ SaveVersion
  \/ RestorePackage \/ DeleteTypings \/ PutBack

Start ==
  \/ /\ InOrder /\ TypingsUnchanged
     /\ \E id \in Typed : Remove(id) \/ (\E var \in BOOLEAN : Add(id, var) \/ Fetch(id, var) \/ Configure(id, var))
  \/ \E v \in SupportedVersions : StartMigration(v)
  \/ StartDownload

ListStep == NextPage \/ EmptyBody \/ SearchFails
ProjectStep == (PluginStep /\ TypingsUnchanged) \/ MigrationStep \/ DownloadArchives

Step == (ProjectStep /\ list' = list) \/ ListStep

Next ==
  \/ (Start \/ Kill) /\ list' = NoList
  \/ \E n \in Counts : StartList(n)
  \/ Step

(* A command goes on until it ends: every call it makes is answered, and    *)
(* its fibers are resumed.                                                 *)
Spec == Init /\ [][Next]_vars /\ WF_vars(Step)

--------------------------------------------------------------------------
TypeOK ==
  /\ package \in [modules : Nat, dependencies : [Names -> Reference], variables : [Names -> {"none", "default", "given"}]]
  /\ content \in [Paths -> Names \cup {NoPlugin}]
  /\ framework \in SupportedVersions
  /\ {typings, setAside} \subseteq SupportedVersions \cup {Absent, Partial}
  /\ task.id \in Identifier /\ task.reference \in Reference
  /\ archives \subseteq SupportedVersions
  /\ outcome \in {"none", "done", "failed", "migrated", "restored", "broken", "listed", "not listed", "killed"}

(* package.json has variables of a plugin only while it is a dependency. *)
VariablesOfDependencies ==
  \A n \in Names : package.variables[n] # "none" => IsListed(n)

(* A dependency on a directory or a tarball of the project is on one that  *)
(* is there and holds that plugin - but for the one a removal, going on,    *)
(* failed or killed after it deleted the directory, has not taken out yet,  *)
(* and for one that is listed though shelljs.cp could not copy it.          *)
DependenciesAreThere ==
  [][\A n \in Names :
       LET There == Dependency(n).file = NoPath \/ content[Dependency(n).file] = n
       IN There => \/ There'
                   \/ pc = "remove" /\ task'.name = n
                   \/ pc = "write" /\ task.name = n /\ task.missed]_vars

(* A plugin command that fails leaves the dependencies and their variables *)
(* as they were, whichever of its calls failed.                            *)
FailedKeepsDependencies ==
  outcome = "failed" => package = before.package

(* The state is of its type, dependencies and variables go together, and a *)
(* command that fails disturbs neither.                                    *)
DependenciesKept == TypeOK /\ VariablesOfDependencies /\ FailedKeepsDependencies

(* A version taken from the marketplace or the registry supports the       *)
(* version of the project when it is added, and so it does when the        *)
(* marketplace could not be reached and the registry was asked instead.    *)
AddedFits ==
  [][\A n \in Names :
       LET now == package'.dependencies[n]
       IN now # Dependency(n) /\ now.file = NoPath /\ now.version \notin {0, UrlVersion} =>
            \E p \in Marketplace \cup Npm : p.name = n /\ p.version = now.version /\ p.framework <= framework]_vars

(* What is listed as a dependency can be installed: it is there, but for    *)
(* those two cases, or it supports the project's version.                  *)
DependenciesInstall == DependenciesAreThere /\ AddedFits

(* After a migration that ended well the modules, the typings and the      *)
(* version of the project are those asked for, and nothing is left set     *)
(* aside - whatever a migration that failed or was killed left before.     *)
MigratedTogether ==
  outcome = "migrated" =>
    /\ package.modules = framework
    /\ TypeScript => typings = framework /\ setAside = Absent

(* A migration that reports the original state restored has restored       *)
(* package.json and, when the new typings could not be unpacked, the       *)
(* typings that were set aside.                                            *)
RestoredFromUnpack ==
  outcome = "restored" =>
    /\ package = before.package
    /\ task.failedAt = "unpack" /\ before.typings # Absent => typings = before.typings

(* A migration does all, or what it says it restored is restored.          *)
MigratedOrRestored == MigratedTogether /\ RestoredFromUnpack

(* A list of available plugins is as long as asked, or has every package   *)
(* for NativeScript the search finds, once each - or, if an answer without *)
(* a body cut the search short, every one of the pages before it.          *)
ListsEnough ==
  outcome = "listed" =>
    LET all == {i \in DOMAIN Search : IsNativeScript(i)}
        listed == {list.plugins[k] : k \in DOMAIN list.plugins}
    IN /\ listed \subseteq all /\ Cardinality(listed) = Len(list.plugins)
       /\ \/ Len(list.plugins) = list.count
          \/ ~list.cut /\ listed = all
          \/ list.cut /\ listed = {i \in all : i <= list.page * list.count}

(* Every command ends. *)
CommandsEnd == pc # "idle" ~> pc = "idle"

--------------------------------------------------------------------------
(* docs/man_pages/lib-management/plugin-remove.md:15: "For NativeScript     *)
(* projects, removes the module from the dependencies in the               *)
(* `package.json` of your project" - any that is listed, where no call and *)
(* no write fails.                                                         *)
RemovesInstalled ==
  [][task.command = "remove" /\ pc' = "idle" /\ outcome' # "killed" /\ task.id.version = Latest /\ task.id.path = NoPath
       /\ (pc = "unlist" => outcome' = "done")
       /\ (\A p \in Marketplace : p.name # task.id.name)  \* no call may fail
     => task.id.name \notin {n \in Names : package'.dependencies[n] # NotListed}]_vars

==========================================================================
