------------------------ MODULE NativeScriptPlugins ------------------------
(***************************************************************************)
(* Plugins of a NativeScript project                                       *)
(* (lib/services/nativescript-project-plugins-service.ts): the             *)
(* dependencies of its package.json and their variables, which are added,  *)
(* fetched, configured and removed by name, path or URL, and the           *)
(* directories the project keeps of local ones.                            *)
(*                                                                         *)
(* A command is a few steps `pc`, between which it may be killed; a step   *)
(* that calls a service may fail.  Versions are numbers.                   *)
(***************************************************************************)
EXTENDS Naturals, FiniteSets, Sequences

CONSTANTS
  Names,          \* of plugins
  Marketplace,    \* [name, version, framework]: framework is the lowest supported
  Npm,            \* [name, version, framework]: 0 for a package of any framework
  Variable,       \* the plugins that have a variable: "default", "none" (no default)
  Paths,          \* of local plugins
  Tarballs,       \* those of .tgz files
  Outside,        \* those that are outside the project
  InProject,      \* the path in the project each path outside is copied to
  PluginsDir,     \* plugins/<name>, where a fetched plugin is copied to
  InitialContent, \* the plugin at each path
  UrlPlugin,      \* the plugin a URL leads to
  NoPlugin, NoPath,
  SupportedVersions \* NativeScript versions of the migration data

ASSUME PackagesAssumption ==
  /\ Marketplace \cup Npm \subseteq [name : Names, version : Nat \ {0}, framework : Nat]
  /\ NoPlugin \notin Names /\ UrlPlugin \in Names
ASSUME PathsAssumption ==
  /\ Tarballs \cup Outside \subseteq Paths /\ NoPath \notin Paths
  /\ InProject \in [Outside -> Paths \ Outside] /\ PluginsDir \in [Names -> Paths \ Outside]
  /\ InitialContent \in [Paths -> Names \cup {NoPlugin}]
\* Bound: a directory of the project is of one plugin - no two outside are
\* copied to one name, nor is one to the name of another plugin.
ASSUME HomesAssumption ==
  LET AtHome(n, path) ==
        \/ InitialContent[path] = n \/ PluginsDir[n] = path
        \/ \E p \in Outside : InProject[p] = path /\ InitialContent[p] = n
  IN \A path \in Paths \ Outside : \A m, n \in Names : AtHome(m, path) /\ AtHome(n, path) => m = n
ASSUME VariableAssumption ==
  DOMAIN Variable \subseteq Names /\ \A n \in DOMAIN Variable : Variable[n] \in {"none", "default"}
ASSUME SupportedAssumption == SupportedVersions \subseteq Nat \ {0}

VARIABLES
  package,    \* package.json of the project, or none yet
  content,    \* the plugin at each path
  framework,  \* FrameworkVersion of the project
  pc,         \* where the running command is
  task,       \* the running command, and what it found so far
  outcome,    \* how the last command ended
  before      \* package.json, typings and version when it started

pluginVars == <<package, content, framework, pc, task, outcome, before>>

Latest == 0
UrlVersion == 99

(* A value of dependencies: a version, a URL, or a path with "file:". *)
Reference == [version : Nat, file : Paths \cup {NoPath}]
NotListed == [version |-> 0, file |-> NoPath]
Version(v) == [version |-> v, file |-> NoPath]
File(path) == [version |-> 0, file |-> path]

(* The default package.json lists no plugin. *)
DefaultPackage == [modules |-> 0, dependencies |-> [n \in Names |-> NotListed],
                   variables |-> [n \in Names |-> "none"]]
NoPackage == [DefaultPackage EXCEPT !.modules = 999]

Identifier == [kind : {"name", "path", "url"}, name : Names \cup {NoPlugin},
               version : Nat, path : Paths \cup {NoPath}]
Named(n, v) == [kind |-> "name", name |-> n, version |-> v, path |-> NoPath]
NamedAt(n, path) == [kind |-> "name", name |-> n, version |-> Latest, path |-> path]  \* <name>@file:<path>
At(path) == [kind |-> "path", name |-> NoPlugin, version |-> Latest, path |-> path]
Url == [kind |-> "url", name |-> NoPlugin, version |-> Latest, path |-> NoPath]

NoTask == [command |-> "none", id |-> Url, name |-> NoPlugin, reference |-> NotListed,
           known |-> TRUE, reached |-> FALSE, add |-> FALSE, var |-> FALSE, missed |-> FALSE,
           to |-> 0, failedAt |-> "none"]

Dependency(name) == package.dependencies[name]
IsListed(name) == name \in Names /\ Dependency(name) # NotListed

NothingBefore == [package |-> NoPackage, typings |-> 0, framework |-> 0]

(* checkIsValidLocalPlugin: a directory with a package.json. *)
IsValidLocalPlugin(path) == path \in Paths \ Tarballs /\ content[path] # NoPlugin

--------------------------------------------------------------------------
(* What was before is of interest while a command is under way, and when   *)
(* it failed.                                                              *)
End(result) ==
  /\ pc' = "idle" /\ outcome' = result
  /\ task' = [NoTask EXCEPT !.failedAt = task.failedAt]
  /\ before' = IF result \in {"failed", "restored"} THEN before ELSE NothingBefore

Latter(packages) == {p \in packages : \A q \in packages : q.version <= p.version}

(* Of the marketplace: none while the service cannot be reached. *)
FromMarketplace(id, reached) ==
  LET found == {p \in Marketplace : reached /\ p.name = id.name /\ id.path = NoPath}
  IN IF id.version = Latest THEN Latter(found) ELSE {p \in found : p.version = id.version}

FromNpm(id) ==
  LET found == {p \in Npm : p.name = id.name /\ id.path = NoPath}
  IN IF id.version = Latest THEN Latter(found) ELSE {p \in found : p.version = id.version}

(* As if a version of the project below the plugin's were enough. *)
NpmFitsAnyway(p) == TRUE

(* A plugin of the marketplace must support the version of the project;    *)
(* one of the registry must not name a version at or above it.             *)
MarketplaceFits(p) == p.framework <= framework
NpmFits(p) == p.framework < framework

(* getMarketplacePlugins: tried again until the service answers. *)
LookUp(reached) == task.reached => reached

Unfit(id, reached) == \E p \in FromMarketplace(id, reached) : ~MarketplaceFits(p)

(* getPluginBasicInformation: of the marketplace, or as typed - "latest"   *)
(* when no version was.                                                    *)
BasicInformation(id, reached) ==
  LET found == FromMarketplace(id, reached)
  IN IF found = {} THEN [name |-> id.name, version |-> id.version]
     ELSE LET p == CHOOSE q \in found : TRUE IN [name |-> p.name, version |-> p.version]

IsPluginInstalled(id, reached) ==
  LET info == BasicInformation(id, reached)
  IN /\ IsListed(info.name)
     /\ Dependency(info.name) = IF id.path = NoPath THEN Version(info.version) ELSE File(id.path)

--------------------------------------------------------------------------
(* A command starts in a project whose version supports plugins, and makes *)
(* package.json if there is none.                                          *)
StartPlugins(command, id, var) ==
  /\ pc = "idle" /\ framework \in SupportedVersions
  /\ task' = [NoTask EXCEPT !.command = command, !.id = id, !.var = var]
  /\ pc' = IF command \in {"add", "fetch"} THEN command ELSE "validate"
  /\ package' = IF package = NoPackage THEN DefaultPackage ELSE package
  /\ outcome' = "none"
  /\ before' = [NothingBefore EXCEPT !.package = package']
  /\ UNCHANGED <<content, framework>>

Add(id, var) == StartPlugins("add", id, var)
Fetch(id, var) == StartPlugins("fetch", id, var)
Configure(id, var) == StartPlugins("configure", id, var)
Remove(id) == StartPlugins("remove", id, FALSE)

Unchanged == UNCHANGED <<package, content, framework>>

FoundWith(name, reference, known, reached, next) ==
  /\ task' = [task EXCEPT !.name = name, !.reference = reference, !.known = known, !.reached = reached,
                          !.add = task.command \in {"add", "fetch"}]
  /\ pc' = next
  /\ UNCHANGED <<outcome, before>>

Found(name, reference, reached, next) == FoundWith(name, reference, TRUE, reached, next)

(* The path typed, if it is one. *)
TypedPath == IF task.id.kind = "path" THEN task.id.path ELSE NoPath

(* installLocalPlugin: one outside the project is copied to plugins. *)
LocalPath(path) == IF path \in Outside THEN InProject[path] ELSE path
InstallLocal(path, reached) == Found(content[path], File(path), reached, "copy")

AddPlugin ==
  /\ pc = "add"
  /\ \E reached \in BOOLEAN :
       /\ LookUp(reached)
       /\ IF Unfit(task.id, reached) THEN End("failed")
          ELSE IF IsPluginInstalled(task.id, reached) THEN End("done")
          ELSE IF TypedPath \in Tarballs THEN Found(NoPlugin, NotListed, reached, "fetch")
          ELSE IF IsValidLocalPlugin(TypedPath) THEN InstallLocal(TypedPath, reached)
          ELSE Found(task.id.name, NotListed, reached, "registry")
  /\ Unchanged

(* fetchPluginBasicInformation: npm installs the package in a temporary    *)
(* directory, if it can.  A path is installed from where it is, anything   *)
(* else is copied to plugins/<name>.                                       *)
FetchPlugin ==
  /\ pc = "fetch"
  /\ \/ TypedPath \in Paths /\ content[TypedPath] # NoPlugin /\ InstallLocal(TypedPath, task.reached)
     \/ \E p \in FromNpm(task.id) : Found(p.name, File(PluginsDir[p.name]), task.reached, "copy")
     \/ task.id.kind = "url" /\ Found(UrlPlugin, File(PluginsDir[UrlPlugin]), task.reached, "copy")
     \/ End("failed")
  /\ Unchanged

(* shelljs.cp does not throw: a plugin it cannot copy - there is no         *)
(* directory plugins, say - is only missing.  What is in the project         *)
(* already is not copied.                                                    *)
Copy ==
  /\ pc = "copy"
  /\ LET to == LocalPath(task.reference.file)
     IN /\ content' \in {content, [content EXCEPT ![to] = task.name]}
        /\ \/ /\ task' = [task EXCEPT !.reference = File(to), !.missed = content'[to] # task.name]
              /\ pc' = "write"
              /\ UNCHANGED <<outcome, before>>
           \/ End("failed")
  /\ UNCHANGED <<package, framework>>

(* setPluginInPackageJson: the marketplace, the registry - which may not   *)
(* answer, and knows the variables of both - or the URL.                   *)
FindInRegistry ==
  /\ pc = "registry"
  /\ \E reached, answered \in BOOLEAN :
       LET id == [task.id EXCEPT !.version = BasicInformation(task.id, reached).version]
           npm == {p \in FromNpm(id) : answered}
           Choose(packages) == LET p == CHOOSE q \in packages : TRUE
                               IN FoundWith(p.name, Version(p.version), answered, reached, "write")
       IN /\ LookUp(reached)
          /\ IF Unfit(id, reached) THEN End("failed")
             ELSE IF FromMarketplace(id, reached) # {} THEN Choose(FromMarketplace(id, reached))
             ELSE IF npm # {} THEN (IF \E p \in npm : ~NpmFits(p) THEN End("failed") ELSE Choose(npm))
             ELSE IF id.kind = "url" /\ answered THEN Found(UrlPlugin, Version(UrlVersion), reached, "write")
             ELSE End("failed")
  /\ Unchanged

(* PluginConfigureCommandParameter. *)
Validate ==
  /\ pc = "validate"
  /\ \E reached \in BOOLEAN :
       /\ LookUp(reached)
       /\ IF Unfit(task.id, reached) \/ ~IsPluginInstalled(task.id, reached) THEN End("failed")
          ELSE Found(task.id.name, NotListed, reached, task.command)
  /\ Unchanged

ConfigurePlugin ==
  /\ pc = "configure"
  /\ \E reached \in BOOLEAN :
       LET name == BasicInformation(task.id, reached).name
       IN /\ LookUp(reached)
          /\ IF Unfit(task.id, reached) \/ ~IsListed(name) THEN End("failed")
             ELSE IF IsValidLocalPlugin(Dependency(name).file) THEN InstallLocal(Dependency(name).file, reached)
             ELSE Found(name, NotListed, reached, "registry")
  /\ Unchanged

(* A local plugin's directory is deleted first. *)
RemovePlugin ==
  /\ pc = "remove"
  /\ \E reached \in BOOLEAN :
       LET name == BasicInformation(task.id, reached).name
       IN /\ LookUp(reached)
          /\ IF Unfit(task.id, reached) THEN End("failed") /\ UNCHANGED content
             ELSE IF ~IsListed(name) THEN End("done") /\ UNCHANGED content
             ELSE /\ Found(name, NotListed, reached, "unlist")
                  /\ content' = IF IsValidLocalPlugin(Dependency(name).file)
                                THEN [content EXCEPT ![Dependency(name).file] = NoPlugin] ELSE content
  /\ UNCHANGED <<package, framework>>

Unlist ==
  /\ pc = "unlist"
  /\ \/ /\ package' = [package EXCEPT !.dependencies[task.name] = NotListed, !.variables[task.name] = "none"]
        /\ End("done")
     \/ End("failed") /\ UNCHANGED package
  /\ UNCHANGED <<content, framework>>

--------------------------------------------------------------------------
(* gatherVariableInformation: --var, else (the console is not interactive) *)
(* the value the plugin has, else the default; "none" when there is none.  *)
VariableValue(name) ==
  IF task.var THEN "given"
  ELSE IF package.variables[name] # "none" THEN package.variables[name]
  ELSE Variable[name]

HasVariable == task.known /\ task.name \in DOMAIN Variable
HasNoValue == HasVariable /\ VariableValue(task.name) = "none"

Written == [package EXCEPT !.dependencies[task.name] = IF task.add THEN task.reference ELSE @,
                           !.variables[task.name] = IF HasVariable THEN VariableValue(task.name) ELSE @]

(* As if the dependency were written before its variables were asked for. *)
WriteListedFirst ==
  /\ pc = "write"
  /\ package' = Written
  /\ End(IF HasNoValue THEN "failed" ELSE "done")
  /\ UNCHANGED <<content, framework>>

(* The dependency and its variables are written together, unless a         *)
(* variable has no value or the file cannot be written.                     *)
Write ==
  /\ pc = "write"
  /\ \/ ~HasNoValue /\ package' = Written /\ End("done")
     \/ End("failed") /\ UNCHANGED package
  /\ UNCHANGED <<content, framework>>

PluginStep ==
  \/ AddPlugin \/ FetchPlugin \/ Copy \/ FindInRegistry
  \/ Validate \/ ConfigurePlugin \/ RemovePlugin \/ Unlist \/ Write
==========================================================================
