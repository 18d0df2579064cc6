------------------------- MODULE NativeScriptProofs -------------------------
(***************************************************************************)
(* Proofs about NativeScriptProject, for any plugins, paths, versions and  *)
(* services: dependencies and their variables stay together and can be     *)
(* installed, and a migration does all or restores what it says.           *)
(***************************************************************************)
EXTENDS NativeScriptProject, FiniteSetTheorems, TLAPS

(* The steps of a plugin command, of a migration up to its last write, and *)
(* of the restoration after one of them failed.                            *)
PluginPc == {"add", "fetch", "copy", "registry", "validate", "configure", "remove", "unlist", "write"}
MigratePc == {"modules", "set aside", "unpack", "delete aside", "save"}
RestorePc == {"restore package", "delete typings", "put back"}

(* The types of package.json, of what a command knows, and of what was     *)
(* before it.                                                              *)
PackageJson ==
  [modules : Nat, dependencies : [Names -> Reference], variables : [Names -> {"none", "default", "given"}]]

Task ==
  [command : {"none", "add", "fetch", "configure", "remove", "save", "migrate", "download", "list"},
   id : {id \in Identifier : id.kind = "name" \/ id.name = NoPlugin}, name : Names \cup {NoPlugin}, reference : Reference,
   known : BOOLEAN, reached : BOOLEAN, add : BOOLEAN, var : BOOLEAN, missed : BOOLEAN,
   to : SupportedVersions \cup {0}, failedAt : {"none", "modules", "set aside", "unpack", "delete aside"}]

Typings == SupportedVersions \cup {Absent, Partial}

(* A plugin is at a path only where it was first, where it is copied from   *)
(* outside the project, or in its directory under plugins.                 *)
AtHome(n, path) ==
  \/ InitialContent[path] = n \/ PluginsDir[n] = path
  \/ \E p \in Outside : InProject[p] = path /\ InitialContent[p] = n

(* The type invariant. *)
TypeInv ==
  /\ package \in PackageJson
  /\ content \in [Paths -> Names \cup {NoPlugin}]
  /\ framework \in SupportedVersions
  /\ typings \in Typings /\ setAside \in Typings
  /\ pc \in {"idle", "download", "page"} \cup PluginPc \cup MigratePc \cup RestorePc
  /\ task \in Task
  /\ archives \subseteq SupportedVersions
  /\ before \in [package : PackageJson, typings : Typings, framework : SupportedVersions \cup {0}]
  /\ outcome \in {"none", "done", "failed", "migrated", "restored", "broken", "listed", "not listed", "killed"}
  /\ pc # "idle" => outcome = "none"

(* Directories hold plugins at home there, those outside what they held     *)
(* first, and a local dependency is on a directory of its plugin.          *)
HomesInv ==
  /\ \A path \in Outside : content[path] = InitialContent[path]
  /\ \A path \in Paths : content[path] # NoPlugin => AtHome(content[path], path)
  /\ \A n \in Names :
       Dependency(n).file # NoPath => Dependency(n).file \in Paths \ Outside /\ AtHome(n, Dependency(n).file)

(* A version that is about to be written, and one that was.                *)
Fits(n, version) ==
  \E p \in Marketplace \cup Npm : p.name = n /\ p.version = version /\ p.framework <= framework

(* What a plugin command has found at each step. *)
PluginInv ==
  /\ pc \in PluginPc => before.package = package
  /\ pc \in {"copy", "write"} /\ ~task.add => IsListed(task.name)
  /\ pc \in {"add", "fetch"} => task.command \in {"add", "fetch"}
  /\ pc = "validate" => task.command \in {"configure", "remove"}
  /\ pc = "registry" /\ task.command \notin {"add", "fetch"} => IsListed(task.id.name)
  /\ pc = "copy" =>
       LET to == LocalPath(task.reference.file)
       IN task.name \in Names /\ task.reference.file \in Paths /\ to \in Paths \ Outside /\ AtHome(task.name, to)
  /\ pc = "write" /\ task.add =>
       /\ task.reference # NotListed
       /\ \/ task.reference.file = NoPath
          \/ /\ task.reference.file \in Paths \ Outside
             /\ content[task.reference.file] = task.name \/ task.missed
             /\ AtHome(task.name, task.reference.file)
       /\ (task.reference.file = NoPath /\ task.reference.version \notin {0, UrlVersion}) =>
            Fits(task.name, task.reference.version)

(* What a migration has done at each step: dependencies and variables are   *)
(* left alone, and what is to be put back is where it was put.             *)
SetAsideInv == before.typings # Absent => setAside = before.typings

MigrationInv ==
  /\ pc \in MigratePc => task.failedAt = "none" /\ task.to \in SupportedVersions
  /\ pc \in (MigratePc \ {"save"}) \cup RestorePc =>
       /\ before.package.dependencies = package.dependencies
       /\ before.package.variables = package.variables
  /\ pc \in {"set aside", "unpack", "delete aside", "delete typings", "put back"} => TypeScript
  /\ pc = "modules" => package = before.package
  /\ pc \in {"modules", "set aside"} => typings = before.typings
  /\ pc \in {"set aside", "unpack", "delete aside"} => package.modules = task.to
  /\ pc = "unpack" => SetAsideInv
  /\ pc = "delete aside" => typings = task.to
  /\ pc = "save" /\ task.command = "migrate" =>
       /\ package.modules = task.to
       /\ TypeScript => typings = task.to /\ setAside = Absent
  /\ pc \in RestorePc /\ task.failedAt = "unpack" => TypeScript /\ SetAsideInv
  /\ pc \in {"delete typings", "put back"} => package = before.package

(* The inductive invariant. *)
IInv ==
  /\ TypeInv /\ HomesInv /\ PluginInv /\ MigrationInv
  /\ VariablesOfDependencies /\ FailedKeepsDependencies /\ MigratedOrRestored

--------------------------------------------------------------------------
(* The packages a lookup finds are of those there are, and carry the name   *)
(* looked for; the name it answers is one of a plugin, or as typed.        *)
LEMMA LookUpTypes ==
  ASSUME NEW id \in Identifier, NEW reached \in BOOLEAN
  PROVE  /\ \A p \in FromMarketplace(id, reached) : p \in Marketplace
         /\ \A p \in FromNpm(id) : p \in Npm
         /\ BasicInformation(id, reached) \in [name : Names \cup {NoPlugin}, version : Nat]
<1>1. \A p \in FromMarketplace(id, reached) : p \in Marketplace
  BY DEF FromMarketplace, Latter
<1>2. \A p \in FromNpm(id) : p \in Npm
  BY DEF FromNpm, Latter
<1>3. BasicInformation(id, reached) \in [name : Names \cup {NoPlugin}, version : Nat]
  <2>1. CASE FromMarketplace(id, reached) = {}
    BY <2>1 DEF BasicInformation, Identifier
  <2>2. CASE FromMarketplace(id, reached) # {}
    <3> DEFINE p == CHOOSE q \in FromMarketplace(id, reached) : TRUE
    <3>1. p \in Marketplace
      BY <1>1, <2>2
    <3>2. p \in [name : Names, version : Nat \ {0}, framework : Nat]
      BY <3>1, PackagesAssumption
    <3>3. BasicInformation(id, reached) = [name |-> p.name, version |-> p.version]
      BY <2>2 DEF BasicInformation
    <3>4. QED
      BY <3>2, <3>3
  <2>3. QED
    BY <2>1, <2>2
<1>4. QED
  BY <1>1, <1>2, <1>3

(* Every package is of its type. *)
LEMMA PackageTypes ==
  \A p \in Marketplace \cup Npm : p.name \in Names /\ p.version \in Nat \ {0} /\ p.framework \in Nat
  BY PackagesAssumption

(* The references a command makes are references. *)
LEMMA ReferenceTypes ==
  /\ NotListed \in Reference
  /\ \A v \in Nat : Version(v) \in Reference /\ Version(v).file = NoPath /\ Version(v).version = v
  /\ \A path \in Paths : File(path) \in Reference /\ File(path) # NotListed /\ File(path).file = path
  /\ \A v \in Nat \ {0} : Version(v) # NotListed
  /\ NotListed.file = NoPath /\ NotListed.version = 0
  BY PathsAssumption DEF NotListed, Reference, Version, File

(* So is the default package.json, and nothing is listed in it. *)
LEMMA PackageJsonTypes ==
  /\ DefaultPackage \in PackageJson /\ NoPackage \in PackageJson
  /\ DefaultPackage.dependencies = NoPackage.dependencies /\ DefaultPackage.variables = NoPackage.variables
  /\ \A n \in Names : DefaultPackage.dependencies[n] = NotListed /\ DefaultPackage.variables[n] = "none"
<1>1. DefaultPackage \in PackageJson
  BY ReferenceTypes DEF DefaultPackage, PackageJson
<1>2. NoPackage \in PackageJson
  BY <1>1 DEF NoPackage, PackageJson
<1>3. QED
  BY <1>1, <1>2 DEF DefaultPackage, NoPackage

(* No task is a task, and nothing before is of its type. *)
LEMMA NothingTypes ==
  /\ NoTask \in Task
  /\ NothingBefore \in [package : PackageJson, typings : Typings, framework : SupportedVersions \cup {0}]
<1>1. Url \in {id \in Identifier : id.kind = "name" \/ id.name = NoPlugin}
  BY DEF Url, Identifier, Latest
<1>2. NoTask \in Task
  BY <1>1, ReferenceTypes DEF NoTask, Task
<1>3. QED
  BY <1>2, PackageJsonTypes DEF NothingBefore, Typings, Absent

(* The end of a command leaves it idle and typed. *)
LEMMA EndTypes ==
  ASSUME TypeInv, NEW result, End(result)
  PROVE  /\ pc' = "idle" /\ outcome' = result
         /\ task' \in Task /\ task'.failedAt = task.failedAt
         /\ before' \in [package : PackageJson, typings : Typings, framework : SupportedVersions \cup {0}]
         /\ result \in {"failed", "restored"} => before' = before
<1>1. task' \in Task /\ task'.failedAt = task.failedAt
  BY NothingTypes DEF End, TypeInv, Task
<1>2. QED
  BY <1>1, NothingTypes DEF End, TypeInv

(* What a plugin command finds is of its type. *)
LEMMA FoundTypes ==
  ASSUME TypeInv, NEW name \in Names \cup {NoPlugin}, NEW reference \in Reference,
         NEW known \in BOOLEAN, NEW reached \in BOOLEAN, NEW next,
         FoundWith(name, reference, known, reached, next)
  PROVE  /\ task' \in Task /\ pc' = next /\ outcome' = outcome /\ before' = before
         /\ task'.name = name /\ task'.reference = reference /\ task'.failedAt = task.failedAt
         /\ task'.add = (task.command \in {"add", "fetch"}) /\ task'.command = task.command /\ task'.id = task.id
<1>1. task \in Task
  BY DEF TypeInv
<1>2. task' = [task EXCEPT !.name = name, !.reference = reference, !.known = known, !.reached = reached,
                           !.add = task.command \in {"add", "fetch"}]
  BY DEF FoundWith
<1>3. task' \in Task
  <2> DEFINE add == task.command \in {"add", "fetch"}
  <2>1. add \in BOOLEAN
    OBVIOUS
  <2>2. task' = [task EXCEPT !.name = name, !.reference = reference, !.known = known, !.reached = reached, !.add = add]
    BY <1>2
  <2> HIDE DEF add
  <2>3. QED
    BY <1>1, <2>1, <2>2 DEF Task
<1>4. /\ task'.name = name /\ task'.reference = reference /\ task'.failedAt = task.failedAt
      /\ task'.add = (task.command \in {"add", "fetch"}) /\ task'.command = task.command /\ task'.id = task.id
  BY <1>1, <1>2 DEF Task
<1>5. QED
  BY <1>3, <1>4 DEF FoundWith

--------------------------------------------------------------------------
(* What a step may not do to dependencies: the two parts of                *)
(* DependenciesInstall.                                                    *)
ThereStep ==
  \A n \in Names :
    LET There == Dependency(n).file = NoPath \/ content[Dependency(n).file] = n
    IN There => \/ There'
                \/ pc = "remove" /\ task'.name = n
                \/ pc = "write" /\ task.name = n /\ task.missed

AddedStep ==
  \A n \in Names :
    LET now == package'.dependencies[n]
    IN now # Dependency(n) /\ now.file = NoPath /\ now.version \notin {0, UrlVersion} =>
         \E p \in Marketplace \cup Npm : p.name = n /\ p.version = now.version /\ p.framework <= framework

(* A step that leaves dependencies and directories alone does neither. *)
LEMMA NothingInstalled ==
  ASSUME package'.dependencies = package.dependencies, content' = content
  PROVE  ThereStep /\ AddedStep
  BY DEF ThereStep, AddedStep, Dependency

(* A migration has nothing to do with the steps of plugins. *)
LEMMA PluginsBesideMigration ==
  ASSUME pc' \in {"idle"} \cup PluginPc, outcome' \notin {"migrated", "restored"}
  PROVE  MigrationInv' /\ MigratedOrRestored'
  BY DEF MigrationInv, MigratedOrRestored, MigratedTogether, RestoredFromUnpack, PluginPc, MigratePc, RestorePc

(* A plugin command that found what the next step needs goes on. *)
LEMMA FoundKeeps ==
  ASSUME IInv, pc \in PluginPc, Unchanged, TypingsUnchanged,
         NEW name \in Names \cup {NoPlugin}, NEW reference \in Reference,
         NEW known \in BOOLEAN, NEW reached \in BOOLEAN, NEW next \in PluginPc,
         FoundWith(name, reference, known, reached, next),
         next \in {"add", "fetch"} => task.command \in {"add", "fetch"},
         next = "validate" => task.command \in {"configure", "remove"},
         next = "registry" /\ task.command \notin {"add", "fetch"} => IsListed(task.id.name),
         next \in {"copy", "write"} /\ task.command \notin {"add", "fetch"} => IsListed(name),
         next = "copy" =>
           LET to == LocalPath(reference.file)
           IN name \in Names /\ reference.file \in Paths /\ to \in Paths \ Outside /\ AtHome(name, to),
         next = "write" =>
           /\ reference # NotListed /\ reference.file = NoPath
           /\ reference.version # UrlVersion => Fits(name, reference.version)
  PROVE  IInv' /\ ThereStep /\ AddedStep
<1>1. /\ task' \in Task /\ pc' = next /\ outcome' = outcome /\ before' = before
      /\ task'.name = name /\ task'.reference = reference
      /\ task'.add = (task.command \in {"add", "fetch"}) /\ task'.command = task.command /\ task'.id = task.id
  BY FoundTypes DEF IInv
<1>2. package' = package /\ content' = content /\ framework' = framework
  BY DEF Unchanged
<1>3. outcome' = "none"
  BY <1>1 DEF IInv, TypeInv, PluginPc
<1>4. TypeInv'
  BY <1>1, <1>2 DEF IInv, TypeInv, PluginPc, TypingsUnchanged
<1>5. HomesInv'
  BY <1>2 DEF IInv, HomesInv, Dependency
<1>6. PluginInv'
  <2>1. (pc \in PluginPc => before.package = package)'
    BY <1>1, <1>2 DEF IInv, PluginInv
  <2>2. (pc \in {"copy", "write"} /\ ~task.add => IsListed(task.name))'
    BY <1>1, <1>2 DEF IsListed, Dependency
  <2>3. (/\ pc \in {"add", "fetch"} => task.command \in {"add", "fetch"}
         /\ pc = "validate" => task.command \in {"configure", "remove"})'
    BY <1>1
  <2>4. (pc = "registry" /\ task.command \notin {"add", "fetch"} => IsListed(task.id.name))'
    BY <1>1, <1>2 DEF IsListed, Dependency
  <2>5. (pc = "copy" =>
           LET to == LocalPath(task.reference.file)
           IN task.name \in Names /\ task.reference.file \in Paths /\ to \in Paths \ Outside /\ AtHome(task.name, to))'
    BY <1>1 DEF LocalPath, AtHome
  <2>6. ASSUME pc' = "write", task'.add
        PROVE  /\ task'.reference # NotListed
               /\ task'.reference.file = NoPath
               /\ task'.reference.version # UrlVersion => Fits(task.name, task.reference.version)'
    BY <1>1, <1>2, <2>6 DEF Fits
  <2>7. QED
    BY <2>1, <2>2, <2>3, <2>4, <2>5, <2>6 DEF PluginInv
<1>7. VariablesOfDependencies' /\ FailedKeepsDependencies'
  BY <1>2, <1>3 DEF IInv, VariablesOfDependencies, FailedKeepsDependencies, IsListed, Dependency
<1>8. MigrationInv' /\ MigratedOrRestored'
  BY <1>1, <1>3, PluginsBesideMigration
<1>9. ThereStep /\ AddedStep
  BY <1>2, NothingInstalled
<1>10. QED
  BY <1>4, <1>5, <1>6, <1>7, <1>8, <1>9 DEF IInv

(* A command that ends, done or failed, leaves everything as it is. *)
LEMMA EndKeeps ==
  ASSUME IInv, Unchanged, TypingsUnchanged, NEW result \in {"done", "failed", "killed", "broken", "listed", "not listed"},
         End(result), result = "failed" => pc \in PluginPc
  PROVE  IInv' /\ ThereStep /\ AddedStep
<1>1. /\ pc' = "idle" /\ outcome' = result
      /\ task' \in Task
      /\ before' \in [package : PackageJson, typings : Typings, framework : SupportedVersions \cup {0}]
      /\ result \in {"failed", "restored"} => before' = before
  BY EndTypes DEF IInv
<1>2. package' = package /\ content' = content /\ framework' = framework
  BY DEF Unchanged
<1>3. TypeInv'
  BY <1>1, <1>2 DEF IInv, TypeInv, TypingsUnchanged
<1>4. HomesInv'
  BY <1>2 DEF IInv, HomesInv, Dependency
<1>5. PluginInv'
  BY <1>1 DEF PluginInv, PluginPc
<1>6. VariablesOfDependencies'
  BY <1>2 DEF IInv, VariablesOfDependencies, IsListed, Dependency
<1>7. FailedKeepsDependencies'
  BY <1>1, <1>2 DEF FailedKeepsDependencies, IInv, PluginInv
<1>8. MigrationInv' /\ MigratedOrRestored'
  BY <1>1, PluginsBesideMigration
<1>9. ThereStep /\ AddedStep
  BY <1>2, NothingInstalled
<1>10. QED
  BY <1>3, <1>4, <1>5, <1>6, <1>7, <1>8, <1>9 DEF IInv

(* The name of a plugin is the one typed, however it was looked up, and a   *)
(* version that fits is of a package.                                      *)
LEMMA LookUpNames ==
  ASSUME NEW id \in Identifier, NEW reached \in BOOLEAN, framework \in Nat
  PROVE  /\ BasicInformation(id, reached).name = id.name
         /\ \A p \in FromMarketplace(id, reached) : p.name = id.name /\ (~Unfit(id, reached) => Fits(p.name, p.version))
         /\ \A p \in FromNpm(id) : p.name = id.name /\ (NpmFits(p) => Fits(p.name, p.version))
<1>1. \A p \in FromMarketplace(id, reached) : p.name = id.name
  BY DEF FromMarketplace, Latter
<1>2. ASSUME NEW p \in FromMarketplace(id, reached), ~Unfit(id, reached)
      PROVE  Fits(p.name, p.version)
  BY <1>2, LookUpTypes DEF Unfit, MarketplaceFits, Fits
<1>3. \A p \in FromNpm(id) : p.name = id.name
  BY DEF FromNpm, Latter
<1>4. ASSUME NEW p \in FromNpm(id), NpmFits(p)
      PROVE  Fits(p.name, p.version)
  BY <1>4, LookUpTypes, PackageTypes DEF NpmFits, Fits
<1>5. BasicInformation(id, reached).name = id.name
  BY <1>1 DEF BasicInformation
<1>6. QED
  BY <1>1, <1>2, <1>3, <1>4, <1>5

(* What holds of a plugin command under way, in the form the steps need it. *)
LEMMA UnderWay ==
  ASSUME IInv
  PROVE  /\ framework \in Nat /\ task \in Task /\ task.id \in Identifier
         /\ task.id.name \in Names \cup {NoPlugin} /\ task.name \in Names \cup {NoPlugin}
         /\ task.reached \in BOOLEAN /\ task.reference \in Reference
         /\ content \in [Paths -> Names \cup {NoPlugin}]
         /\ package \in PackageJson
         /\ pc # "idle" => outcome = "none"
<1>1. task \in Task /\ framework \in SupportedVersions
  BY DEF IInv, TypeInv
<1>2. /\ task.id \in Identifier /\ task.id.name \in Names \cup {NoPlugin} /\ task.name \in Names \cup {NoPlugin}
      /\ task.reached \in BOOLEAN /\ task.reference \in Reference
  BY <1>1 DEF Task, Identifier
<1>3. QED
  BY <1>1, <1>2, SupportedAssumption DEF IInv, TypeInv

(* A local plugin that is there can be installed from where it is, or from  *)
(* where it is copied to, under the name it has.                           *)
LEMMA InstallLocalKeeps ==
  ASSUME IInv, pc \in PluginPc, Unchanged, TypingsUnchanged,
         NEW path \in Paths, content[path] # NoPlugin, NEW reached \in BOOLEAN,
         InstallLocal(path, reached),
         task.command \notin {"add", "fetch"} => IsListed(content[path])
  PROVE  IInv' /\ ThereStep /\ AddedStep
<1> DEFINE to == LocalPath(File(path).file)
<1>1. content[path] \in Names
  BY UnderWay
<1>2. File(path) \in Reference /\ File(path).file = path
  BY ReferenceTypes
<1>3. to \in Paths \ Outside /\ AtHome(content[path], to)
  <2>1. CASE path \in Outside
    <3>1. to = InProject[path] /\ InProject[path] \in Paths \ Outside
      BY <2>1, <1>2, PathsAssumption DEF LocalPath
    <3>2. content[path] = InitialContent[path]
      BY <2>1 DEF IInv, HomesInv
    <3>3. QED
      BY <2>1, <3>1, <3>2 DEF AtHome
  <2>2. CASE path \notin Outside
    <3>1. to = path
      BY <2>2, <1>2 DEF LocalPath
    <3>2. AtHome(content[path], path)
      BY DEF IInv, HomesInv
    <3>3. QED
      BY <2>2, <3>1, <3>2
  <2>3. QED
    BY <2>1, <2>2
<1>4. FoundWith(content[path], File(path), TRUE, reached, "copy")
  BY DEF InstallLocal, Found
<1>5. "copy" \in PluginPc
  BY DEF PluginPc
<1> HIDE DEF to
<1>6. QED
  BY <1>1, <1>2, <1>3, <1>4, <1>5, FoundKeeps DEF to

(* plugin add: checked, taken from where it is, fetched or looked up. *)
LEMMA AddPluginKeeps ==
  ASSUME IInv, AddPlugin, TypingsUnchanged
  PROVE  IInv' /\ ThereStep /\ AddedStep
<1>1. pc = "add" /\ pc \in PluginPc /\ Unchanged
  BY DEF AddPlugin, PluginPc
<1>2. PICK reached \in BOOLEAN :
        \/ End("failed")
        \/ End("done")
        \/ Found(NoPlugin, NotListed, reached, "fetch")
        \/ IsValidLocalPlugin(TypedPath) /\ InstallLocal(TypedPath, reached)
        \/ Found(task.id.name, NotListed, reached, "registry")
  BY DEF AddPlugin
<1>3. CASE End("failed") \/ End("done")
  BY <1>1, <1>3, EndKeeps
<1>4. task.command \in {"add", "fetch"} /\ NotListed \in Reference /\ "fetch" \in PluginPc /\ "registry" \in PluginPc
  BY <1>1, ReferenceTypes DEF IInv, PluginInv, PluginPc
<1>5. CASE Found(NoPlugin, NotListed, reached, "fetch")
  <2>1. FoundWith(NoPlugin, NotListed, TRUE, reached, "fetch")
    BY <1>5 DEF Found
  <2>2. QED
    BY <1>1, <1>4, <2>1, FoundKeeps
<1>6. CASE IsValidLocalPlugin(TypedPath) /\ InstallLocal(TypedPath, reached)
  BY <1>1, <1>4, <1>6, InstallLocalKeeps DEF IsValidLocalPlugin
<1>7. CASE Found(task.id.name, NotListed, reached, "registry")
  <2>1. FoundWith(task.id.name, NotListed, TRUE, reached, "registry")
    BY <1>7 DEF Found
  <2>2. QED
    BY <1>1, <1>4, <2>1, FoundKeeps, UnderWay
<1>8. QED
  BY <1>2, <1>3, <1>5, <1>6, <1>7

(* plugin fetch, and plugin add of a tarball. *)
LEMMA FetchPluginKeeps ==
  ASSUME IInv, FetchPlugin, TypingsUnchanged
  PROVE  IInv' /\ ThereStep /\ AddedStep
<1>1. pc = "fetch" /\ pc \in PluginPc /\ Unchanged /\ task.command \in {"add", "fetch"}
  BY DEF FetchPlugin, PluginPc, IInv, PluginInv
<1>2. task.reached \in BOOLEAN /\ task.id \in Identifier
  BY UnderWay
<1>3. CASE TypedPath \in Paths /\ content[TypedPath] # NoPlugin /\ InstallLocal(TypedPath, task.reached)
  BY <1>1, <1>2, <1>3, InstallLocalKeeps
<1>4. ASSUME NEW n \in Names, Found(n, File(PluginsDir[n]), task.reached, "copy")
      PROVE  IInv' /\ ThereStep /\ AddedStep
  <2>1. PluginsDir[n] \in Paths \ Outside /\ AtHome(n, PluginsDir[n])
    BY PathsAssumption DEF AtHome
  <2>2. LocalPath(PluginsDir[n]) = PluginsDir[n]
    BY <2>1 DEF LocalPath
  <2>3. File(PluginsDir[n]) \in Reference /\ File(PluginsDir[n]).file = PluginsDir[n]
    BY <2>1, ReferenceTypes
  <2>4. FoundWith(n, File(PluginsDir[n]), TRUE, task.reached, "copy")
    BY <1>4 DEF Found
  <2>5. QED
    BY <1>1, <1>2, <2>1, <2>2, <2>3, <2>4, FoundKeeps DEF PluginPc
<1>5. CASE \E p \in FromNpm(task.id) : Found(p.name, File(PluginsDir[p.name]), task.reached, "copy")
  BY <1>2, <1>4, <1>5, LookUpTypes, PackageTypes
<1>6. CASE Found(UrlPlugin, File(PluginsDir[UrlPlugin]), task.reached, "copy")
  BY <1>4, <1>6, PackagesAssumption
<1>7. CASE End("failed")
  BY <1>1, <1>7, EndKeeps
<1>8. QED
  BY <1>3, <1>5, <1>6, <1>7 DEF FetchPlugin

(* A local plugin is copied to where it is installed from. *)
LEMMA CopyKeeps ==
  ASSUME IInv, Copy, TypingsUnchanged
  PROVE  IInv' /\ ThereStep /\ AddedStep
<1> DEFINE to == LocalPath(task.reference.file)
<1>1. pc = "copy" /\ pc \in PluginPc /\ pc # "remove"
  BY DEF Copy, PluginPc
<1>2. task.name \in Names /\ to \in Paths \ Outside /\ AtHome(task.name, to) /\ (~task.add => IsListed(task.name))
  BY <1>1 DEF IInv, PluginInv
<1>3. /\ content' \in {content, [content EXCEPT ![to] = task.name]}
      /\ \/ /\ task' = [task EXCEPT !.reference = File(to), !.missed = content'[to] # task.name]
            /\ pc' = "write" /\ outcome' = outcome /\ before' = before
         \/ End("failed")
      /\ package' = package /\ framework' = framework
  BY DEF Copy
<1> HIDE DEF to
<1>4. File(to) \in Reference /\ File(to) # NotListed /\ File(to).file = to /\ to # NoPath
  BY <1>2, ReferenceTypes, PathsAssumption
<1>5. content' \in [Paths -> Names \cup {NoPlugin}] /\ content'[to] \in {content[to], task.name}
      /\ \A path \in Paths : path # to => content'[path] = content[path]
  BY <1>2, <1>3, UnderWay
<1>6. HomesInv'
  <2>1. \A path \in Outside : content'[path] = InitialContent[path]
    BY <1>2, <1>5, PathsAssumption DEF IInv, HomesInv
  <2>2. \A path \in Paths : content'[path] # NoPlugin => AtHome(content'[path], path)
    BY <1>2, <1>5 DEF IInv, HomesInv
  <2>3. QED
    BY <1>3, <2>1, <2>2 DEF IInv, HomesInv, Dependency, AtHome
<1>7. ThereStep
  <2> SUFFICES ASSUME NEW n \in Names, content[Dependency(n).file] = n, Dependency(n).file # NoPath
               PROVE  content'[Dependency(n).file] = n
    BY <1>3 DEF ThereStep, Dependency
  <2>1. Dependency(n).file \in Paths \ Outside /\ AtHome(n, Dependency(n).file)
    BY DEF IInv, HomesInv
  <2>2. CASE Dependency(n).file = to
    BY <1>2, <1>5, <2>1, <2>2, HomesAssumption DEF AtHome
  <2>3. CASE Dependency(n).file # to
    BY <1>5, <2>1, <2>3
  <2>4. QED
    BY <2>2, <2>3
<1>8. AddedStep
  BY <1>3 DEF AddedStep, Dependency
<1>9. VariablesOfDependencies'
  BY <1>3 DEF IInv, VariablesOfDependencies, IsListed, Dependency
<1>10. CASE End("failed")
  <2>1. /\ pc' = "idle" /\ outcome' = "failed" /\ task' \in Task /\ before' = before
        /\ before' \in [package : PackageJson, typings : Typings, framework : SupportedVersions \cup {0}]
    BY <1>10, EndTypes DEF IInv
  <2>2. TypeInv'
    BY <1>3, <1>5, <2>1 DEF IInv, TypeInv, TypingsUnchanged
  <2>3. PluginInv' /\ FailedKeepsDependencies'
    BY <1>1, <1>3, <2>1 DEF PluginInv, PluginPc, FailedKeepsDependencies, IInv
  <2>4. MigrationInv' /\ MigratedOrRestored'
    BY <2>1, PluginsBesideMigration
  <2>5. QED
    BY <1>6, <1>7, <1>8, <1>9, <2>2, <2>3, <2>4 DEF IInv
<1>11. CASE /\ task' = [task EXCEPT !.reference = File(to), !.missed = content'[to] # task.name]
            /\ pc' = "write" /\ outcome' = outcome /\ before' = before
  <2> DEFINE missed == content'[to] # task.name
  <2>1. task' \in Task /\ task'.reference = File(to) /\ task'.name = task.name /\ task'.add = task.add /\ task'.missed = missed
    <3>1. missed \in BOOLEAN /\ task' = [task EXCEPT !.reference = File(to), !.missed = missed]
      BY <1>11
    <3> HIDE DEF missed
    <3>2. QED
      BY <1>4, <3>1, UnderWay DEF Task
  <2>2. outcome' = "none"
    BY <1>1, <1>11, UnderWay DEF PluginPc
  <2>3. TypeInv'
    BY <1>3, <1>5, <1>11, <2>1, <2>2 DEF IInv, TypeInv, PluginPc, TypingsUnchanged
  <2>4. content'[to] = task.name \/ task'.missed
    BY <2>1
  <2> HIDE DEF missed
  <2>5. PluginInv'
    BY <1>1, <1>2, <1>3, <1>4, <1>11, <2>1, <2>4 DEF IInv, PluginInv, IsListed, Dependency, AtHome, PluginPc
  <2>6. FailedKeepsDependencies'
    BY <2>2 DEF FailedKeepsDependencies
  <2>7. MigrationInv' /\ MigratedOrRestored'
    BY <1>11, <2>2, PluginsBesideMigration DEF PluginPc
  <2>8. QED
    BY <1>6, <1>7, <1>8, <1>9, <2>3, <2>5, <2>6, <2>7 DEF IInv
<1>12. QED
  BY <1>3, <1>10, <1>11

(* A package that fits, found for the name typed, is written next. *)
LEMMA PackageFound ==
  ASSUME IInv, pc = "registry", Unchanged, TypingsUnchanged,
         NEW p \in Marketplace \cup Npm, p.name = task.id.name, Fits(p.name, p.version),
         NEW known \in BOOLEAN, NEW reached \in BOOLEAN,
         FoundWith(p.name, Version(p.version), known, reached, "write")
  PROVE  IInv' /\ ThereStep /\ AddedStep
<1>1. p.name \in Names /\ p.version \in Nat \ {0}
  BY PackageTypes
<1>2. /\ Version(p.version) \in Reference /\ Version(p.version) # NotListed
      /\ Version(p.version).file = NoPath /\ Version(p.version).version = p.version
  BY <1>1, ReferenceTypes
<1>3. pc \in PluginPc /\ "write" \in PluginPc
  BY DEF PluginPc
<1>4. task.command \notin {"add", "fetch"} => IsListed(p.name)
  BY DEF IInv, PluginInv
<1>5. QED
  BY <1>1, <1>2, <1>3, <1>4, FoundKeeps

(* The marketplace, the registry, or the URL. *)
LEMMA FindInRegistryKeeps ==
  ASSUME IInv, FindInRegistry, TypingsUnchanged
  PROVE  IInv' /\ ThereStep /\ AddedStep
<1>1. pc = "registry" /\ pc \in PluginPc /\ "write" \in PluginPc /\ Unchanged
  BY DEF FindInRegistry, PluginPc
<1> DEFINE Id(reached) == [task.id EXCEPT !.version = BasicInformation(task.id, reached).version]
           Chosen(packages) == CHOOSE q \in packages : TRUE
           NpmOf(reached, answered) == {p \in FromNpm(Id(reached)) : answered}
<1>2. PICK reached \in BOOLEAN, answered \in BOOLEAN :
        \/ End("failed")
        \/ /\ ~Unfit(Id(reached), reached) /\ FromMarketplace(Id(reached), reached) # {}
           /\ LET p == Chosen(FromMarketplace(Id(reached), reached))
              IN FoundWith(p.name, Version(p.version), answered, reached, "write")
        \/ /\ NpmOf(reached, answered) # {} /\ \A p \in NpmOf(reached, answered) : NpmFits(p)
           /\ LET p == Chosen(NpmOf(reached, answered))
              IN FoundWith(p.name, Version(p.version), answered, reached, "write")
        \/ /\ Id(reached).kind = "url" /\ Found(UrlPlugin, Version(UrlVersion), reached, "write")
  BY DEF FindInRegistry
<1> DEFINE id == Id(reached)
<1>3. /\ task.id \in Identifier /\ framework \in Nat
      /\ BasicInformation(task.id, reached).version \in Nat
  BY UnderWay, LookUpTypes
<1>4. id \in Identifier /\ id.name = task.id.name /\ id.kind = task.id.kind
  BY <1>3 DEF Identifier
<1> HIDE DEF id
<1>5. CASE End("failed")
  BY <1>1, <1>5, EndKeeps
<1>6. CASE /\ ~Unfit(id, reached) /\ FromMarketplace(id, reached) # {}
           /\ LET p == Chosen(FromMarketplace(id, reached))
              IN FoundWith(p.name, Version(p.version), answered, reached, "write")
  <2> DEFINE p == Chosen(FromMarketplace(id, reached))
  <2>1. p \in FromMarketplace(id, reached)
    BY <1>6
  <2>2. p \in Marketplace /\ p.name = task.id.name /\ Fits(p.name, p.version)
    BY <1>3, <1>4, <1>6, <2>1, LookUpTypes, LookUpNames
  <2>3. FoundWith(p.name, Version(p.version), answered, reached, "write")
    BY <1>6
  <2> HIDE DEF p
  <2>4. QED
    BY <1>1, <2>2, <2>3, PackageFound
<1>7. CASE /\ NpmOf(reached, answered) # {} /\ \A p \in NpmOf(reached, answered) : NpmFits(p)
           /\ LET p == Chosen(NpmOf(reached, answered))
              IN FoundWith(p.name, Version(p.version), answered, reached, "write")
  <2> DEFINE p == Chosen(NpmOf(reached, answered))
  <2>1. p \in FromNpm(id) /\ NpmFits(p)
    BY <1>7 DEF id
  <2>2. p \in Npm /\ p.name = task.id.name /\ Fits(p.name, p.version)
    BY <1>3, <1>4, <2>1, LookUpTypes, LookUpNames
  <2>3. FoundWith(p.name, Version(p.version), answered, reached, "write")
    BY <1>7
  <2> HIDE DEF p
  <2>4. QED
    BY <1>1, <2>2, <2>3, PackageFound
<1>8. CASE id.kind = "url" /\ Found(UrlPlugin, Version(UrlVersion), reached, "write")
  <2>1. task.id.name = NoPlugin /\ ~IsListed(NoPlugin)
    BY <1>4, <1>8, UnderWay, PackagesAssumption DEF Task, IsListed
  <2>2. task.command \in {"add", "fetch"}
    BY <1>1, <2>1 DEF IInv, PluginInv
  <2>3. UrlPlugin \in Names /\ Version(UrlVersion) \in Reference /\ Version(UrlVersion) # NotListed
        /\ Version(UrlVersion).file = NoPath /\ Version(UrlVersion).version = UrlVersion
    BY PackagesAssumption, ReferenceTypes DEF UrlVersion
  <2>4. FoundWith(UrlPlugin, Version(UrlVersion), TRUE, reached, "write")
    BY <1>8 DEF Found
  <2>5. QED
    BY <1>1, <2>2, <2>3, <2>4, FoundKeeps
<1>9. QED
  BY <1>2, <1>5, <1>6, <1>7, <1>8 DEF id

(* The check of what is to be configured or removed. *)
LEMMA ValidateKeeps ==
  ASSUME IInv, Validate, TypingsUnchanged
  PROVE  IInv' /\ ThereStep /\ AddedStep
<1>1. pc = "validate" /\ pc \in PluginPc /\ Unchanged /\ NotListed \in Reference
  BY ReferenceTypes DEF Validate, PluginPc
<1>2. PICK reached \in BOOLEAN : End("failed") \/ Found(task.id.name, NotListed, reached, task.command)
  BY DEF Validate
<1>3. CASE End("failed")
  BY <1>1, <1>3, EndKeeps
<1>4. CASE Found(task.id.name, NotListed, reached, task.command)
  <2>1. task.command \in {"configure", "remove"} /\ task.command \in PluginPc
    BY <1>1 DEF IInv, PluginInv, PluginPc
  <2>2. FoundWith(task.id.name, NotListed, TRUE, reached, task.command)
    BY <1>4 DEF Found
  <2>3. QED
    BY <1>1, <2>1, <2>2, FoundKeeps, UnderWay
<1>5. QED
  BY <1>2, <1>3, <1>4

(* plugin configure: from its directory, or looked up. *)
LEMMA ConfigurePluginKeeps ==
  ASSUME IInv, ConfigurePlugin, TypingsUnchanged
  PROVE  IInv' /\ ThereStep /\ AddedStep
<1>1. pc = "configure" /\ pc \in PluginPc /\ "registry" \in PluginPc /\ Unchanged /\ NotListed \in Reference
  BY ReferenceTypes DEF ConfigurePlugin, PluginPc
<1> DEFINE Name(reached) == BasicInformation(task.id, reached).name
<1>2. PICK reached \in BOOLEAN :
        \/ End("failed")
        \/ /\ IsListed(Name(reached))
           /\ \/ /\ IsValidLocalPlugin(Dependency(Name(reached)).file)
                 /\ InstallLocal(Dependency(Name(reached)).file, reached)
              \/ Found(Name(reached), NotListed, reached, "registry")
  BY DEF ConfigurePlugin
<1>3. Name(reached) = task.id.name
  BY UnderWay, LookUpNames
<1>4. CASE End("failed")
  BY <1>1, <1>4, EndKeeps
<1>5. CASE /\ IsListed(task.id.name)
           /\ IsValidLocalPlugin(Dependency(task.id.name).file)
           /\ InstallLocal(Dependency(task.id.name).file, reached)
  <2> DEFINE path == Dependency(task.id.name).file
  <2>1. task.id.name \in Names /\ path \in Paths /\ path # NoPath /\ content[path] # NoPlugin
    BY <1>5, PathsAssumption DEF IsListed, IsValidLocalPlugin
  <2>2. path \in Paths \ Outside /\ AtHome(task.id.name, path) /\ AtHome(content[path], path)
    BY <2>1 DEF IInv, HomesInv
  <2>3. content[path] \in Names
    BY <2>1, UnderWay
  <2>4. content[path] = task.id.name
    BY <2>1, <2>2, <2>3, HomesAssumption DEF AtHome
  <2> HIDE DEF path
  <2>5. QED
    BY <1>1, <1>5, <2>1, <2>4, InstallLocalKeeps DEF path
<1>6. CASE IsListed(task.id.name) /\ Found(task.id.name, NotListed, reached, "registry")
  <2>1. FoundWith(task.id.name, NotListed, TRUE, reached, "registry")
    BY <1>6 DEF Found
  <2>2. QED
    BY <1>1, <1>6, <2>1, FoundKeeps, UnderWay
<1>7. QED
  BY <1>2, <1>3, <1>4, <1>5, <1>6

(* plugin remove: its directory is deleted first, and with it no other      *)
(* plugin.                                                                 *)
LEMMA RemovePluginKeeps ==
  ASSUME IInv, RemovePlugin, TypingsUnchanged
  PROVE  IInv' /\ ThereStep /\ AddedStep
<1>1. /\ pc = "remove" /\ pc \in PluginPc /\ "unlist" \in PluginPc /\ NotListed \in Reference
      /\ package' = package /\ framework' = framework
  BY ReferenceTypes DEF RemovePlugin, PluginPc
<1> DEFINE Name(reached) == BasicInformation(task.id, reached).name
           path == Dependency(task.id.name).file
<1>2. PICK reached \in BOOLEAN :
        \/ (End("failed") \/ End("done")) /\ content' = content
        \/ /\ IsListed(Name(reached)) /\ Found(Name(reached), NotListed, reached, "unlist")
           /\ content' = IF IsValidLocalPlugin(Dependency(Name(reached)).file)
                         THEN [content EXCEPT ![Dependency(Name(reached)).file] = NoPlugin] ELSE content
  BY DEF RemovePlugin
<1>3. Name(reached) = task.id.name
  BY UnderWay, LookUpNames
<1>4. CASE (End("failed") \/ End("done")) /\ content' = content
  BY <1>1, <1>4, EndKeeps DEF Unchanged
<1>5. CASE /\ IsListed(task.id.name) /\ Found(task.id.name, NotListed, reached, "unlist")
           /\ content' = IF IsValidLocalPlugin(path) THEN [content EXCEPT ![path] = NoPlugin] ELSE content
  <2>1. task.id.name \in Names
    BY <1>5 DEF IsListed
  <2>2. FoundWith(task.id.name, NotListed, TRUE, reached, "unlist")
    BY <1>5 DEF Found
  <2>3. /\ task' \in Task /\ pc' = "unlist" /\ outcome' = outcome /\ before' = before /\ task'.name = task.id.name
    BY <1>1, <2>1, <2>2, FoundTypes DEF IInv
  <2>4. outcome' = "none"
    BY <1>1, <2>3, UnderWay DEF PluginPc
  <2>5. CASE ~IsValidLocalPlugin(path)
    BY <1>1, <1>5, <2>1, <2>2, <2>5, FoundKeeps DEF Unchanged
  <2>6. CASE IsValidLocalPlugin(path)
    <3>1. path \in Paths /\ path # NoPath /\ content[path] # NoPlugin
      BY <2>6, PathsAssumption DEF IsValidLocalPlugin
    <3>2. path \in Paths \ Outside /\ AtHome(task.id.name, path)
      BY <2>1, <3>1 DEF IInv, HomesInv
    <3>3. content' = [content EXCEPT ![path] = NoPlugin]
      BY <1>5, <2>6
    <3>4. content' \in [Paths -> Names \cup {NoPlugin}]
          /\ content'[path] = NoPlugin /\ \A other \in Paths : other # path => content'[other] = content[other]
      BY <3>1, <3>3, UnderWay
    <3>5. TypeInv'
      BY <1>1, <2>3, <2>4, <3>4 DEF IInv, TypeInv, PluginPc, TypingsUnchanged
    <3>6. HomesInv'
      <4>1. \A other \in Outside : content'[other] = InitialContent[other]
        BY <3>2, <3>4, PathsAssumption DEF IInv, HomesInv
      <4>2. \A other \in Paths : content'[other] # NoPlugin => AtHome(content'[other], other)
        BY <3>4 DEF IInv, HomesInv
      <4>3. QED
        BY <1>1, <4>1, <4>2 DEF IInv, HomesInv, Dependency, AtHome
    <3>7. PluginInv'
      BY <1>1, <2>3 DEF IInv, PluginInv, PluginPc
    <3>8. VariablesOfDependencies' /\ FailedKeepsDependencies'
      BY <1>1, <2>4 DEF IInv, VariablesOfDependencies, FailedKeepsDependencies, IsListed, Dependency
    <3>9. MigrationInv' /\ MigratedOrRestored'
      BY <1>1, <2>3, <2>4, PluginsBesideMigration
    <3>10. ThereStep
      <4> SUFFICES ASSUME NEW n \in Names, content[Dependency(n).file] = n, Dependency(n).file # NoPath, n # task.id.name
                   PROVE  content'[Dependency(n).file] = n
        BY <1>1, <2>3 DEF ThereStep, Dependency
      <4>1. Dependency(n).file \in Paths \ Outside /\ AtHome(n, Dependency(n).file)
        BY DEF IInv, HomesInv
      <4>2. Dependency(n).file # path
        BY <2>1, <3>2, <4>1, HomesAssumption DEF AtHome
      <4>3. QED
        BY <3>4, <4>1, <4>2
    <3>11. AddedStep
      BY <1>1 DEF AddedStep, Dependency
    <3>12. QED
      BY <3>5, <3>6, <3>7, <3>8, <3>9, <3>10, <3>11 DEF IInv
  <2>7. QED
    BY <2>5, <2>6
<1>6. QED
  BY <1>2, <1>3, <1>4, <1>5

(* A plugin is not listed any more. *)
LEMMA UnlistKeeps ==
  ASSUME IInv, Unlist, TypingsUnchanged
  PROVE  IInv' /\ ThereStep /\ AddedStep
<1>1. CASE End("failed") /\ package' = package
  <2>1. Unchanged /\ pc \in PluginPc
    BY <1>1 DEF Unlist, Unchanged, PluginPc
  <2>2. QED
    BY <1>1, <2>1, EndKeeps
<1>2. CASE /\ package' = [package EXCEPT !.dependencies[task.name] = NotListed, !.variables[task.name] = "none"]
           /\ End("done")
  <2>1. /\ pc = "unlist" /\ content' = content /\ framework' = framework /\ End("done")
        /\ package' = [package EXCEPT !.dependencies[task.name] = NotListed, !.variables[task.name] = "none"]
    BY <1>2 DEF Unlist
  <2>2. /\ pc' = "idle" /\ outcome' = "done" /\ task' \in Task
        /\ before' \in [package : PackageJson, typings : Typings, framework : SupportedVersions \cup {0}]
    BY <2>1, EndTypes DEF IInv
  <2>3. package' \in PackageJson
        /\ \A n \in Names : /\ package'.dependencies[n] = IF n = task.name THEN NotListed ELSE Dependency(n)
                            /\ package'.variables[n] = IF n = task.name THEN "none" ELSE package.variables[n]
    BY <2>1, UnderWay, ReferenceTypes DEF PackageJson, Dependency
  <2>4. TypeInv'
    BY <2>1, <2>2, <2>3 DEF IInv, TypeInv, TypingsUnchanged
  <2>5. HomesInv'
    <3>1. \A n \in Names : package'.dependencies[n].file # NoPath =>
            package'.dependencies[n].file \in Paths \ Outside /\ AtHome(n, package'.dependencies[n].file)
      BY <2>3, ReferenceTypes DEF IInv, HomesInv
    <3>2. QED
      BY <2>1, <3>1 DEF IInv, HomesInv, Dependency, AtHome
  <2>6. PluginInv' /\ FailedKeepsDependencies'
    BY <2>2 DEF PluginInv, PluginPc, FailedKeepsDependencies
  <2>7. VariablesOfDependencies'
    BY <2>3 DEF IInv, VariablesOfDependencies, IsListed, Dependency
  <2>8. MigrationInv' /\ MigratedOrRestored'
    BY <2>2, PluginsBesideMigration
  <2>9. ThereStep
    BY <2>1, <2>3, ReferenceTypes DEF ThereStep, Dependency
  <2>10. AddedStep
    BY <2>3, ReferenceTypes DEF AddedStep, Dependency
  <2>11. QED
    BY <2>4, <2>5, <2>6, <2>7, <2>8, <2>9, <2>10 DEF IInv
<1>3. QED
  BY <1>1, <1>2 DEF Unlist

(* The value a variable is given is one. *)
LEMMA VariableTypes ==
  ASSUME IInv, HasVariable
  PROVE  task.name \in Names /\ VariableValue(task.name) \in {"none", "default", "given"}
<1>1. task.name \in DOMAIN Variable /\ task.name \in Names
  BY VariableAssumption DEF HasVariable
<1>2. package.variables[task.name] \in {"none", "default", "given"}
  BY <1>1, UnderWay DEF PackageJson
<1>3. QED
  BY <1>1, <1>2, VariableAssumption DEF VariableValue

(* The dependency and its variables are written together. *)
LEMMA WriteKeeps ==
  ASSUME IInv, Write, TypingsUnchanged
  PROVE  IInv' /\ ThereStep /\ AddedStep
<1>1. CASE End("failed") /\ package' = package
  <2>1. Unchanged /\ pc \in PluginPc
    BY <1>1 DEF Write, Unchanged, PluginPc
  <2>2. QED
    BY <1>1, <2>1, EndKeeps
<1>2. CASE ~HasNoValue /\ package' = Written /\ End("done")
  <2> DEFINE Value == IF HasVariable THEN VariableValue(task.name) ELSE package.variables[task.name]
             Reference1 == IF task.add THEN task.reference ELSE package.dependencies[task.name]
  <2>1. /\ pc = "write" /\ content' = content /\ framework' = framework /\ End("done")
        /\ package' = [package EXCEPT !.dependencies[task.name] = Reference1, !.variables[task.name] = Value]
    BY <1>2 DEF Write, Written
  <2>2. /\ pc' = "idle" /\ outcome' = "done" /\ task' \in Task
        /\ before' \in [package : PackageJson, typings : Typings, framework : SupportedVersions \cup {0}]
    BY <2>1, EndTypes DEF IInv
  <2>3. /\ ~task.add => IsListed(task.name)
        /\ task.add =>
             /\ task.reference # NotListed
             /\ \/ task.reference.file = NoPath
                \/ /\ task.reference.file \in Paths \ Outside
                   /\ content[task.reference.file] = task.name \/ task.missed
                   /\ AtHome(task.name, task.reference.file)
             /\ (task.reference.file = NoPath /\ task.reference.version \notin {0, UrlVersion}) =>
                  Fits(task.name, task.reference.version)
    BY <2>1 DEF IInv, PluginInv
  <2>4. HasVariable => Value \in {"default", "given"}
    BY <1>2, VariableTypes DEF HasNoValue
  <2>5. task.name \in Names => Value \in {"none", "default", "given"} /\ Reference1 \in Reference /\ Reference1 # NotListed
    BY <2>3, <2>4, UnderWay DEF PackageJson, IsListed, Dependency
  <2> HIDE DEF Value, Reference1
  <2>6. package' \in PackageJson
        /\ \A n \in Names : /\ package'.dependencies[n] = IF n = task.name THEN Reference1 ELSE Dependency(n)
                            /\ package'.variables[n] = IF n = task.name THEN Value ELSE package.variables[n]
    BY <2>1, <2>5, UnderWay DEF PackageJson, Dependency
  <2>7. TypeInv'
    BY <2>1, <2>2, <2>6 DEF IInv, TypeInv, TypingsUnchanged
  <2>8. HomesInv'
    <3>1. \A n \in Names : package'.dependencies[n].file # NoPath =>
            package'.dependencies[n].file \in Paths \ Outside /\ AtHome(n, package'.dependencies[n].file)
      BY <2>3, <2>6 DEF IInv, HomesInv, Reference1, Dependency
    <3>2. QED
      BY <2>1, <3>1 DEF IInv, HomesInv, Dependency, AtHome
  <2>9. PluginInv' /\ FailedKeepsDependencies'
    BY <2>2 DEF PluginInv, PluginPc, FailedKeepsDependencies
  <2>10. VariablesOfDependencies'
    BY <2>5, <2>6 DEF IInv, VariablesOfDependencies, IsListed, Dependency
  <2>11. MigrationInv' /\ MigratedOrRestored'
    BY <2>2, PluginsBesideMigration
  <2>12. ThereStep
    BY <2>1, <2>3, <2>6 DEF ThereStep, Dependency, Reference1
  <2>13. AddedStep
    BY <2>3, <2>6 DEF AddedStep, Dependency, Reference1, Fits
  <2>14. QED
    BY <2>7, <2>8, <2>9, <2>10, <2>11, <2>12, <2>13 DEF IInv
<1>3. QED
  BY <1>1, <1>2 DEF Write

(* Every step of a plugin command. *)
LEMMA PluginStepKeeps ==
  ASSUME IInv, PluginStep, TypingsUnchanged
  PROVE  IInv' /\ ThereStep /\ AddedStep
  BY AddPluginKeeps, FetchPluginKeeps, CopyKeeps, FindInRegistryKeeps, ValidateKeeps, ConfigurePluginKeeps,
     RemovePluginKeeps, UnlistKeeps, WriteKeeps DEF PluginStep

--------------------------------------------------------------------------
(* A step of no plugin command that leaves dependencies, variables and      *)
(* directories as they are leaves what is said of plugins.                 *)
LEMMA PluginsKept ==
  ASSUME IInv, package'.dependencies = package.dependencies, package'.variables = package.variables,
         content' = content, framework' \in Nat,
         pc' \in {"idle", "download", "page"} \cup MigratePc \cup RestorePc, outcome' # "failed"
  PROVE  HomesInv' /\ PluginInv' /\ VariablesOfDependencies' /\ FailedKeepsDependencies' /\ ThereStep /\ AddedStep
<1>1. HomesInv' /\ VariablesOfDependencies'
  BY DEF IInv, HomesInv, VariablesOfDependencies, IsListed, Dependency, AtHome
<1>2. PluginInv' /\ FailedKeepsDependencies'
  BY DEF PluginInv, FailedKeepsDependencies, PluginPc, MigratePc, RestorePc
<1>3. QED
  BY <1>1, <1>2, NothingInstalled

(* A command that makes package.json when there is none changes nothing     *)
(* that is listed.                                                         *)
LEMMA PackageMade ==
  ASSUME IInv, package' = package \/ (package = NoPackage /\ package' = DefaultPackage)
  PROVE  /\ package' \in PackageJson
         /\ package'.dependencies = package.dependencies /\ package'.variables = package.variables
  BY UnderWay, PackageJsonTypes

(* A command on a plugin starts. *)
LEMMA StartPluginsKeeps ==
  ASSUME IInv, NEW command \in {"add", "fetch", "configure", "remove"}, NEW id \in Typed, NEW var \in BOOLEAN,
         StartPlugins(command, id, var), TypingsUnchanged
  PROVE  IInv' /\ ThereStep /\ AddedStep
<1>1. /\ pc = "idle" /\ outcome' = "none" /\ content' = content /\ framework' = framework
      /\ task' = [NoTask EXCEPT !.command = command, !.id = id, !.var = var]
      /\ pc' = IF command \in {"add", "fetch"} THEN command ELSE "validate"
      /\ before' = [NothingBefore EXCEPT !.package = package']
      /\ package' = package \/ (package = NoPackage /\ package' = DefaultPackage)
  BY DEF StartPlugins
<1>2. package' \in PackageJson /\ package'.dependencies = package.dependencies /\ package'.variables = package.variables
  BY <1>1, PackageMade
<1>3. id \in {i \in Identifier : i.kind = "name" \/ i.name = NoPlugin}
  BY TypedAssumption
<1>4. task' \in Task /\ task'.command = command
  BY <1>1, <1>3, NothingTypes DEF Task
<1>5. before' \in [package : PackageJson, typings : Typings, framework : SupportedVersions \cup {0}] /\ before'.package = package'
  BY <1>1, <1>2, NothingTypes
<1>6. pc' \in {"add", "fetch", "validate"} /\ (pc' # "validate" => command = pc') /\ (pc' = "validate" => command \notin {"add", "fetch"})
  BY <1>1
<1>7. TypeInv'
  BY <1>1, <1>2, <1>4, <1>5, <1>6 DEF IInv, TypeInv, PluginPc, TypingsUnchanged
<1>8. HomesInv' /\ VariablesOfDependencies'
  BY <1>1, <1>2 DEF IInv, HomesInv, VariablesOfDependencies, IsListed, Dependency, AtHome
<1>9. PluginInv' /\ FailedKeepsDependencies'
  BY <1>1, <1>4, <1>5, <1>6 DEF PluginInv, FailedKeepsDependencies, PluginPc
<1>10. MigrationInv' /\ MigratedOrRestored'
  BY <1>1, <1>6, PluginsBesideMigration DEF PluginPc
<1>11. ThereStep /\ AddedStep
  BY <1>1, <1>2, NothingInstalled
<1>12. QED
  BY <1>7, <1>8, <1>9, <1>10, <1>11 DEF IInv

(* A migration starts, or a version that is the project's is saved. *)
LEMMA StartMigrationKeeps ==
  ASSUME IInv, NEW version \in SupportedVersions, StartMigration(version)
  PROVE  IInv' /\ ThereStep /\ AddedStep
<1>1. /\ pc = "idle" /\ outcome' = "none" /\ content' = content /\ framework' = framework
      /\ typings' = typings /\ setAside' = setAside /\ archives' = archives
      /\ task' = [NoTask EXCEPT !.command = IF version = framework THEN "save" ELSE "migrate", !.to = version]
      /\ pc' = IF version = framework THEN "save" ELSE "modules"
      /\ before' = [package |-> package', typings |-> typings, framework |-> framework]
      /\ package' = package \/ (package = NoPackage /\ package' = DefaultPackage)
  BY DEF StartMigration, TypingsUnchanged
<1>2. package' \in PackageJson /\ package'.dependencies = package.dependencies /\ package'.variables = package.variables
  BY <1>1, PackageMade
<1>3. /\ task' \in Task /\ task'.to = version /\ task'.failedAt = "none"
      /\ task'.command = IF version = framework THEN "save" ELSE "migrate"
  BY <1>1, NothingTypes DEF Task, NoTask
<1>4. /\ before' \in [package : PackageJson, typings : Typings, framework : SupportedVersions \cup {0}]
      /\ before'.package = package' /\ before'.typings = typings'
  BY <1>1, <1>2 DEF IInv, TypeInv
<1>5. TypeInv'
  BY <1>1, <1>2, <1>3, <1>4 DEF IInv, TypeInv, MigratePc
<1>6. HomesInv' /\ PluginInv' /\ VariablesOfDependencies' /\ FailedKeepsDependencies' /\ ThereStep /\ AddedStep
  BY <1>1, <1>2, PluginsKept, UnderWay DEF MigratePc
<1>7. MigrationInv'
  BY <1>1, <1>3, <1>4 DEF MigrationInv, MigratePc, RestorePc
<1>8. MigratedOrRestored'
  BY <1>1 DEF MigratedOrRestored, MigratedTogether, RestoredFromUnpack
<1>9. QED
  BY <1>5, <1>6, <1>7, <1>8 DEF IInv

(* A step of a migration that leaves dependencies alone keeps the invariant *)
(* if it keeps what is said of the migration.                              *)
LEMMA MigrationKeeps ==
  ASSUME IInv, TypeInv', MigrationInv', MigratedOrRestored',
         package'.dependencies = package.dependencies, package'.variables = package.variables, content' = content,
         pc' \in {"idle", "download", "page"} \cup MigratePc \cup RestorePc, outcome' # "failed"
  PROVE  IInv' /\ ThereStep /\ AddedStep
<1>1. framework' \in Nat
  BY SupportedAssumption DEF TypeInv
<1>2. QED
  BY <1>1, PluginsKept DEF IInv

(* The failure of a step of a migration is remembered. *)
LEMMA FailsTypes ==
  ASSUME IInv, pc # "idle", NEW step \in {"modules", "set aside", "unpack", "delete aside"}, Fails(step)
  PROVE  /\ pc' = "restore package" /\ task' \in Task /\ task'.failedAt = step
         /\ outcome' = "none" /\ before' = before
  BY UnderWay DEF Fails, Task

(* The version of the modules is written first. *)
LEMMA ChangeModulesKeeps ==
  ASSUME IInv, ChangeModules
  PROVE  IInv' /\ ThereStep /\ AddedStep
<1>1. /\ pc = "modules" /\ content' = content /\ framework' = framework
      /\ typings' = typings /\ setAside' = setAside /\ archives' = archives
  BY DEF ChangeModules, TypingsUnchanged
<1>2. /\ task.failedAt = "none" /\ task.to \in SupportedVersions /\ package = before.package /\ typings = before.typings
  BY <1>1 DEF IInv, MigrationInv, MigratePc
<1>3. CASE Fails("modules") /\ package' = package
  <2>1. pc' = "restore package" /\ task' \in Task /\ task'.failedAt = "modules" /\ outcome' = "none" /\ before' = before
    BY <1>1, <1>3, FailsTypes
  <2>2. TypeInv'
    BY <1>1, <1>3, <2>1 DEF IInv, TypeInv, RestorePc
  <2>3. MigrationInv' /\ MigratedOrRestored'
    BY <1>2, <1>3, <2>1 DEF MigrationInv, MigratePc, RestorePc, MigratedOrRestored, MigratedTogether, RestoredFromUnpack
  <2>4. QED
    BY <1>1, <1>3, <2>1, <2>2, <2>3, MigrationKeeps DEF RestorePc
<1>4. CASE /\ package' = [package EXCEPT !.modules = task.to]
           /\ Goto(IF TypeScript THEN "set aside" ELSE "save")
  <2>1. /\ package' \in PackageJson /\ package'.modules = task.to
        /\ package'.dependencies = package.dependencies /\ package'.variables = package.variables
    BY <1>2, <1>4, UnderWay, SupportedAssumption DEF PackageJson
  <2>2. /\ pc' = (IF TypeScript THEN "set aside" ELSE "save") /\ task' = task /\ outcome' = "none" /\ before' = before
    BY <1>1, <1>4, UnderWay DEF Goto
  <2>3. TypeInv'
    BY <1>1, <2>1, <2>2 DEF IInv, TypeInv, MigratePc
  <2>4. MigrationInv' /\ MigratedOrRestored'
    BY <1>1, <1>2, <2>1, <2>2
    DEF MigrationInv, MigratePc, RestorePc, MigratedOrRestored, MigratedTogether, RestoredFromUnpack
  <2>5. QED
    BY <1>1, <2>1, <2>2, <2>3, <2>4, MigrationKeeps DEF MigratePc
<1>5. QED
  BY <1>3, <1>4 DEF ChangeModules

(* The typings are set aside, unless something was set aside before. *)
LEMMA SetAsideKeeps ==
  ASSUME IInv, SetAside
  PROVE  IInv' /\ ThereStep /\ AddedStep
<1>1. /\ pc = "set aside" /\ content' = content /\ framework' = framework
      /\ package' = package /\ archives' = archives
  BY DEF SetAside, ProjectUnchanged
<1>2. /\ task.failedAt = "none" /\ task.to \in SupportedVersions /\ typings = before.typings /\ TypeScript
      /\ package.modules = task.to
      /\ before.package.dependencies = package.dependencies /\ before.package.variables = package.variables
  BY <1>1 DEF IInv, MigrationInv, MigratePc
<1>3. CASE Fails("set aside") /\ typings' = typings /\ setAside' = setAside
  <2>1. pc' = "restore package" /\ task' \in Task /\ task'.failedAt = "set aside" /\ outcome' = "none" /\ before' = before
    BY <1>1, <1>3, FailsTypes
  <2>2. TypeInv'
    BY <1>1, <1>3, <2>1 DEF IInv, TypeInv, RestorePc
  <2>3. MigrationInv' /\ MigratedOrRestored'
    BY <1>1, <1>2, <1>3, <2>1
    DEF MigrationInv, MigratePc, RestorePc, MigratedOrRestored, MigratedTogether, RestoredFromUnpack
  <2>4. QED
    BY <1>1, <1>3, <2>1, <2>2, <2>3, MigrationKeeps DEF RestorePc
<1>4. CASE /\ Rename(typings, setAside) /\ Goto("unpack")
           /\ setAside' = IF typings = Absent THEN setAside ELSE typings
           /\ typings' = Absent
  <2>1. pc' = "unpack" /\ task' = task /\ outcome' = "none" /\ before' = before
    BY <1>1, <1>4, UnderWay DEF Goto
  <2>2. TypeInv'
    BY <1>1, <1>4, <2>1 DEF IInv, TypeInv, MigratePc, Typings
  <2>3. SetAsideInv'
    BY <1>2, <1>4, <2>1 DEF SetAsideInv
  <2>4. MigrationInv' /\ MigratedOrRestored'
    BY <1>1, <1>2, <2>1, <2>3
    DEF MigrationInv, MigratePc, RestorePc, MigratedOrRestored, MigratedTogether, RestoredFromUnpack
  <2>5. QED
    BY <1>1, <2>1, <2>2, <2>4, MigrationKeeps DEF MigratePc
<1>5. QED
  BY <1>3, <1>4 DEF SetAside

(* The new typings are unpacked, in part when that fails. *)
LEMMA UnpackKeeps ==
  ASSUME IInv, Unpack
  PROVE  IInv' /\ ThereStep /\ AddedStep
<1>1. /\ pc = "unpack" /\ content' = content /\ framework' = framework
      /\ package' = package /\ archives' = archives /\ setAside' = setAside
  BY DEF Unpack, ProjectUnchanged
<1>2. /\ task.failedAt = "none" /\ task.to \in SupportedVersions /\ TypeScript
      /\ package.modules = task.to /\ SetAsideInv
      /\ before.package.dependencies = package.dependencies /\ before.package.variables = package.variables
  BY <1>1 DEF IInv, MigrationInv, MigratePc
<1>3. CASE Fails("unpack") /\ typings' \in {Absent, Partial}
  <2>1. pc' = "restore package" /\ task' \in Task /\ task'.failedAt = "unpack" /\ outcome' = "none" /\ before' = before
    BY <1>1, <1>3, FailsTypes
  <2>2. TypeInv'
    BY <1>1, <1>3, <2>1 DEF IInv, TypeInv, RestorePc, Typings
  <2>3. MigrationInv' /\ MigratedOrRestored'
    BY <1>1, <1>2, <2>1
    DEF MigrationInv, SetAsideInv, MigratePc, RestorePc, MigratedOrRestored, MigratedTogether, RestoredFromUnpack
  <2>4. QED
    BY <1>1, <2>1, <2>2, <2>3, MigrationKeeps DEF RestorePc
<1>4. CASE Goto("delete aside") /\ typings' = task.to
  <2>1. pc' = "delete aside" /\ task' = task /\ outcome' = "none" /\ before' = before
    BY <1>1, <1>4, UnderWay DEF Goto
  <2>2. TypeInv'
    BY <1>1, <1>2, <1>4, <2>1 DEF IInv, TypeInv, MigratePc, Typings
  <2>3. MigrationInv' /\ MigratedOrRestored'
    BY <1>1, <1>2, <1>4, <2>1
    DEF MigrationInv, MigratePc, RestorePc, MigratedOrRestored, MigratedTogether, RestoredFromUnpack
  <2>4. QED
    BY <1>1, <2>1, <2>2, <2>3, MigrationKeeps DEF MigratePc
<1>5. QED
  BY <1>3, <1>4 DEF Unpack

(* What was set aside is deleted, in part when that fails. *)
LEMMA DeleteAsideKeeps ==
  ASSUME IInv, DeleteAside
  PROVE  IInv' /\ ThereStep /\ AddedStep
<1>1. /\ pc = "delete aside" /\ content' = content /\ framework' = framework
      /\ package' = package /\ archives' = archives /\ typings' = typings
  BY DEF DeleteAside, ProjectUnchanged
<1>2. /\ task.failedAt = "none" /\ task.to \in SupportedVersions /\ TypeScript
      /\ package.modules = task.to /\ typings = task.to
      /\ before.package.dependencies = package.dependencies /\ before.package.variables = package.variables
  BY <1>1 DEF IInv, MigrationInv, MigratePc
<1>3. CASE Fails("delete aside") /\ setAside' \in {setAside, Partial}
  <2>1. pc' = "restore package" /\ task' \in Task /\ task'.failedAt = "delete aside" /\ outcome' = "none" /\ before' = before
    BY <1>1, <1>3, FailsTypes
  <2>2. TypeInv'
    BY <1>1, <1>3, <2>1 DEF IInv, TypeInv, RestorePc, Typings
  <2>3. MigrationInv' /\ MigratedOrRestored'
    BY <1>1, <1>2, <2>1
    DEF MigrationInv, MigratePc, RestorePc, MigratedOrRestored, MigratedTogether, RestoredFromUnpack
  <2>4. QED
    BY <1>1, <2>1, <2>2, <2>3, MigrationKeeps DEF RestorePc
<1>4. CASE Goto("save") /\ setAside' = Absent
  <2>1. pc' = "save" /\ task' = task /\ outcome' = "none" /\ before' = before
    BY <1>1, <1>4, UnderWay DEF Goto
  <2>2. TypeInv'
    BY <1>1, <1>4, <2>1 DEF IInv, TypeInv, MigratePc, Typings
  <2>3. MigrationInv' /\ MigratedOrRestored'
    BY <1>1, <1>2, <1>4, <2>1
    DEF MigrationInv, MigratePc, RestorePc, MigratedOrRestored, MigratedTogether, RestoredFromUnpack, Absent
  <2>4. QED
    BY <1>1, <2>1, <2>2, <2>3, MigrationKeeps DEF MigratePc
<1>5. QED
  BY <1>3, <1>4 DEF DeleteAside

(* The end of a migration: the version is saved. *)
LEMMA SaveVersionKeeps ==
  ASSUME IInv, SaveVersion
  PROVE  IInv' /\ ThereStep /\ AddedStep
<1>1. /\ pc = "save" /\ content' = content /\ package' = package
      /\ typings' = typings /\ setAside' = setAside /\ archives' = archives
  BY DEF SaveVersion, TypingsUnchanged
<1>2. /\ task.to \in SupportedVersions
      /\ task.command = "migrate" =>
           package.modules = task.to /\ (TypeScript => typings = task.to /\ setAside = Absent)
  BY <1>1 DEF IInv, MigrationInv, MigratePc
<1>3. CASE End("broken") /\ framework' = framework
  BY <1>1, <1>3, EndKeeps DEF Unchanged, TypingsUnchanged
<1>4. CASE End(IF task.command = "migrate" THEN "migrated" ELSE "done") /\ framework' = task.to
  <2>1. /\ pc' = "idle" /\ outcome' = (IF task.command = "migrate" THEN "migrated" ELSE "done") /\ task' \in Task
        /\ before' \in [package : PackageJson, typings : Typings, framework : SupportedVersions \cup {0}]
    BY <1>4, EndTypes DEF IInv
  <2>2. TypeInv'
    BY <1>1, <1>2, <1>4, <2>1 DEF IInv, TypeInv
  <2>3. MigrationInv'
    BY <2>1 DEF MigrationInv, MigratePc, RestorePc
  <2>4. MigratedOrRestored'
    BY <1>1, <1>2, <1>4, <2>1 DEF MigratedOrRestored, MigratedTogether, RestoredFromUnpack
  <2>5. QED
    BY <1>1, <2>1, <2>2, <2>3, <2>4, MigrationKeeps
<1>5. QED
  BY <1>3, <1>4 DEF SaveVersion

(* package.json is what it was. *)
LEMMA RestorePackageKeeps ==
  ASSUME IInv, RestorePackage
  PROVE  IInv' /\ ThereStep /\ AddedStep
<1>1. /\ pc = "restore package" /\ content' = content /\ framework' = framework
      /\ typings' = typings /\ setAside' = setAside /\ archives' = archives
  BY DEF RestorePackage, TypingsUnchanged
<1>2. /\ before.package.dependencies = package.dependencies /\ before.package.variables = package.variables
      /\ task.failedAt = "unpack" => TypeScript /\ SetAsideInv
      /\ before.package \in PackageJson
  BY <1>1 DEF IInv, TypeInv, MigrationInv, RestorePc
<1>3. CASE End("broken") /\ package' = package
  BY <1>1, <1>3, EndKeeps DEF Unchanged, TypingsUnchanged
<1>4. CASE package' = before.package /\ TypeScript /\ Goto("delete typings")
  <2>1. pc' = "delete typings" /\ task' = task /\ outcome' = "none" /\ before' = before
    BY <1>1, <1>4, UnderWay DEF Goto
  <2>2. TypeInv'
    BY <1>1, <1>2, <1>4, <2>1 DEF IInv, TypeInv, RestorePc
  <2>3. MigrationInv' /\ MigratedOrRestored'
    BY <1>1, <1>2, <1>4, <2>1
    DEF MigrationInv, SetAsideInv, MigratePc, RestorePc, MigratedOrRestored, MigratedTogether, RestoredFromUnpack
  <2>4. QED
    BY <1>1, <1>2, <1>4, <2>1, <2>2, <2>3, MigrationKeeps DEF RestorePc
<1>5. CASE package' = before.package /\ ~TypeScript /\ End("restored")
  <2>1. /\ pc' = "idle" /\ outcome' = "restored" /\ task' \in Task /\ task'.failedAt = task.failedAt /\ before' = before
    BY <1>5, EndTypes DEF IInv
  <2>2. TypeInv'
    BY <1>1, <1>2, <1>5, <2>1 DEF IInv, TypeInv
  <2>3. MigrationInv' /\ MigratedOrRestored'
    BY <1>1, <1>2, <1>5, <2>1 DEF MigrationInv, MigratePc, RestorePc, MigratedOrRestored, MigratedTogether, RestoredFromUnpack
  <2>4. QED
    BY <1>1, <1>2, <1>5, <2>1, <2>2, <2>3, MigrationKeeps
<1>6. QED
  BY <1>3, <1>4, <1>5 DEF RestorePackage

(* The new typings are deleted, in part when that fails. *)
LEMMA DeleteTypingsKeeps ==
  ASSUME IInv, DeleteTypings
  PROVE  IInv' /\ ThereStep /\ AddedStep
<1>1. /\ pc = "delete typings" /\ content' = content /\ framework' = framework /\ package' = package
      /\ setAside' = setAside /\ archives' = archives
  BY DEF DeleteTypings, ProjectUnchanged
<1>2. /\ before.package.dependencies = package.dependencies /\ before.package.variables = package.variables
      /\ task.failedAt = "unpack" => SetAsideInv
      /\ TypeScript /\ package = before.package
  BY <1>1 DEF IInv, MigrationInv, RestorePc
<1>3. CASE End("broken") /\ typings' \in {typings, Partial}
  <2>1. /\ pc' = "idle" /\ outcome' = "broken" /\ task' \in Task
        /\ before' \in [package : PackageJson, typings : Typings, framework : SupportedVersions \cup {0}]
    BY <1>3, EndTypes DEF IInv
  <2>2. TypeInv'
    BY <1>1, <1>3, <2>1 DEF IInv, TypeInv, Typings
  <2>3. MigrationInv' /\ MigratedOrRestored'
    BY <2>1, PluginsBesideMigration
  <2>4. QED
    BY <1>1, <2>1, <2>2, <2>3, MigrationKeeps
<1>4. CASE Goto("put back") /\ typings' = Absent
  <2>1. pc' = "put back" /\ task' = task /\ outcome' = "none" /\ before' = before
    BY <1>1, <1>4, UnderWay DEF Goto
  <2>2. TypeInv'
    BY <1>1, <1>4, <2>1 DEF IInv, TypeInv, RestorePc, Typings
  <2>3. MigrationInv' /\ MigratedOrRestored'
    BY <1>1, <1>2, <2>1
    DEF MigrationInv, SetAsideInv, MigratePc, RestorePc, MigratedOrRestored, MigratedTogether, RestoredFromUnpack
  <2>4. QED
    BY <1>1, <2>1, <2>2, <2>3, MigrationKeeps DEF RestorePc
<1>5. QED
  BY <1>3, <1>4 DEF DeleteTypings

(* And what was set aside is put back. *)
LEMMA PutBackKeeps ==
  ASSUME IInv, PutBack
  PROVE  IInv' /\ ThereStep /\ AddedStep
<1>1. pc = "put back" /\ content' = content /\ framework' = framework /\ package' = package /\ archives' = archives
  BY DEF PutBack, ProjectUnchanged
<1>2. (task.failedAt = "unpack" => SetAsideInv) /\ package = before.package
  BY <1>1 DEF IInv, MigrationInv, RestorePc
<1>3. CASE End("broken") /\ typings' = typings /\ setAside' = setAside
  BY <1>1, <1>3, EndKeeps DEF Unchanged, TypingsUnchanged
<1>4. CASE End("restored") /\ typings' = setAside /\ setAside' = Absent
  <2>1. pc' = "idle" /\ outcome' = "restored" /\ task' \in Task /\ task'.failedAt = task.failedAt /\ before' = before
    BY <1>4, EndTypes DEF IInv
  <2>2. TypeInv'
    BY <1>1, <1>4, <2>1 DEF IInv, TypeInv, Typings
  <2>3. MigrationInv' /\ MigratedOrRestored'
    BY <1>1, <1>2, <1>4, <2>1
    DEF MigrationInv, SetAsideInv, MigratePc, RestorePc, MigratedOrRestored, MigratedTogether, RestoredFromUnpack
  <2>4. QED
    BY <1>1, <2>1, <2>2, <2>3, MigrationKeeps
<1>5. QED
  BY <1>3, <1>4 DEF PutBack

--------------------------------------------------------------------------
(* The archives are downloaded where there is no plugin. *)
LEMMA DownloadKeeps ==
  ASSUME IInv, StartDownload \/ DownloadArchives
  PROVE  IInv' /\ ThereStep /\ AddedStep
<1>1. /\ package' = package /\ content' = content /\ framework' = framework /\ typings' = typings /\ setAside' = setAside
      /\ archives' \subseteq SupportedVersions
  BY DEF StartDownload, DownloadArchives, ProjectUnchanged
<1>2. CASE StartDownload
  <2>1. /\ pc' = "download" /\ outcome' = "none" /\ before' = NothingBefore
        /\ task' = [NoTask EXCEPT !.command = "download"]
    BY <1>2 DEF StartDownload
  <2>2. task' \in Task
    BY <2>1, NothingTypes DEF Task
  <2>3. TypeInv'
    BY <1>1, <2>1, <2>2, NothingTypes DEF IInv, TypeInv
  <2>4. MigrationInv' /\ MigratedOrRestored'
    BY <2>1 DEF MigrationInv, MigratePc, RestorePc, MigratedOrRestored, MigratedTogether, RestoredFromUnpack
  <2>5. QED
    BY <1>1, <2>1, <2>3, <2>4, MigrationKeeps
<1>3. CASE DownloadArchives
  <2>1. /\ pc' = "idle" /\ outcome' = "done" /\ task' \in Task
        /\ before' \in [package : PackageJson, typings : Typings, framework : SupportedVersions \cup {0}]
    BY <1>3, EndTypes DEF IInv, DownloadArchives
  <2>2. TypeInv'
    BY <1>1, <2>1 DEF IInv, TypeInv
  <2>3. MigrationInv' /\ MigratedOrRestored'
    BY <2>1, PluginsBesideMigration
  <2>4. QED
    BY <1>1, <2>1, <2>2, <2>3, MigrationKeeps
<1>4. QED
  BY <1>2, <1>3

(* A list changes nothing of the project. *)
LEMMA ListKeeps ==
  ASSUME IInv, (\E n \in Counts : StartList(n)) \/ ListStep
  PROVE  IInv' /\ ThereStep /\ AddedStep
<1>1. Unchanged /\ TypingsUnchanged
  BY DEF StartList, ListStep, NextPage, EmptyBody, SearchFails, Unchanged, ProjectUnchanged, TypingsUnchanged
<1>2. CASE \E n \in Counts : StartList(n)
  <2>1. /\ pc' = "page" /\ outcome' = "none" /\ before' = NothingBefore
        /\ task' = [NoTask EXCEPT !.command = "list"]
    BY <1>2 DEF StartList
  <2>2. task' \in Task
    BY <2>1, NothingTypes DEF Task
  <2>3. TypeInv'
    BY <1>1, <2>1, <2>2, NothingTypes DEF IInv, TypeInv, Unchanged, TypingsUnchanged
  <2>4. MigrationInv' /\ MigratedOrRestored'
    BY <2>1 DEF MigrationInv, MigratePc, RestorePc, MigratedOrRestored, MigratedTogether, RestoredFromUnpack
  <2>5. QED
    BY <1>1, <2>1, <2>3, <2>4, MigrationKeeps DEF Unchanged
<1>3. CASE End("listed") \/ End("not listed")
  BY <1>1, <1>3, EndKeeps
<1>4. CASE pc = "page" /\ Goto("page")
  <2>1. pc' = "page" /\ outcome' = "none" /\ task' = task /\ before' = before
    BY <1>4, UnderWay DEF Goto
  <2>2. TypeInv'
    BY <1>1, <2>1 DEF IInv, TypeInv, Unchanged, TypingsUnchanged
  <2>3. MigrationInv' /\ MigratedOrRestored'
    BY <2>1 DEF MigrationInv, MigratePc, RestorePc, MigratedOrRestored, MigratedTogether, RestoredFromUnpack
  <2>4. QED
    BY <1>1, <2>1, <2>2, <2>3, MigrationKeeps DEF Unchanged
<1>5. QED
  BY <1>2, <1>3, <1>4 DEF ListStep, NextPage, EmptyBody, SearchFails

(* A process that is killed leaves the project as it is. *)
LEMMA KillKeeps ==
  ASSUME IInv, Kill
  PROVE  IInv' /\ ThereStep /\ AddedStep
  BY EndKeeps DEF Kill, ProjectUnchanged, Unchanged

(* Every command given. *)
LEMMA StartKeeps ==
  ASSUME IInv, Start
  PROVE  IInv' /\ ThereStep /\ AddedStep
<1>1. ASSUME NEW id \in Typed, TypingsUnchanged, Remove(id) \/ (\E var \in BOOLEAN : Add(id, var) \/ Fetch(id, var) \/ Configure(id, var))
      PROVE  IInv' /\ ThereStep /\ AddedStep
  <2>1. CASE Remove(id)
    BY <1>1, <2>1, StartPluginsKeeps DEF Remove
  <2>2. ASSUME NEW var \in BOOLEAN, Add(id, var) \/ Fetch(id, var) \/ Configure(id, var)
        PROVE  IInv' /\ ThereStep /\ AddedStep
    BY <1>1, <2>2, StartPluginsKeeps DEF Add, Fetch, Configure
  <2>3. QED
    BY <1>1, <2>1, <2>2
<1>2. QED
  BY <1>1, StartMigrationKeeps, DownloadKeeps DEF Start

(* Every step of a migration. *)
LEMMA MigrationStepKeeps ==
  ASSUME IInv, MigrationStep
  PROVE  IInv' /\ ThereStep /\ AddedStep
  BY ChangeModulesKeeps, SetAsideKeeps, UnpackKeeps, DeleteAsideKeeps, SaveVersionKeeps,
     RestorePackageKeeps, DeleteTypingsKeeps, PutBackKeeps DEF MigrationStep

(* The invariant holds at first, and every step keeps it. *)
LEMMA InitKeeps == Init => IInv
<1> SUFFICES ASSUME Init
             PROVE  IInv
  OBVIOUS
<1>1. /\ package \in {NoPackage, DefaultPackage} /\ content = InitialContent /\ framework \in SupportedVersions
      /\ pc = "idle" /\ task = NoTask /\ outcome = "none" /\ typings \in {Absent, framework}
      /\ before = NothingBefore /\ setAside = Absent /\ archives = SupportedVersions
  BY DEF Init
<1>2. package \in PackageJson /\ \A n \in Names : Dependency(n) = NotListed /\ package.variables[n] = "none"
  BY <1>1, PackageJsonTypes DEF Dependency
<1>3. TypeInv
  BY <1>1, <1>2, NothingTypes, PathsAssumption DEF TypeInv, Typings
<1>4. HomesInv
  BY <1>1, <1>2, ReferenceTypes, PathsAssumption DEF HomesInv, AtHome
<1>5. PluginInv /\ MigrationInv /\ VariablesOfDependencies /\ FailedKeepsDependencies /\ MigratedOrRestored
  BY <1>1, <1>2 DEF PluginInv, PluginPc, MigrationInv, MigratePc, RestorePc, VariablesOfDependencies,
                    FailedKeepsDependencies, MigratedOrRestored, MigratedTogether, RestoredFromUnpack
<1>6. QED
  BY <1>3, <1>4, <1>5 DEF IInv

LEMMA NextKeeps ==
  ASSUME IInv, [Next]_vars
  PROVE  IInv' /\ [ThereStep /\ AddedStep]_vars
<1>1. CASE Next
  BY <1>1, StartKeeps, KillKeeps, ListKeeps, PluginStepKeeps, MigrationStepKeeps, DownloadKeeps
  DEF Next, Step, ProjectStep
<1>2. CASE UNCHANGED vars
  <2>1. UNCHANGED <<package, content, framework, pc, task, outcome, before, typings, setAside, archives>>
    BY <1>2 DEF vars, pluginVars
  <2>2. TypeInv' /\ HomesInv' /\ VariablesOfDependencies' /\ FailedKeepsDependencies'
    BY <2>1 DEF IInv, TypeInv, HomesInv, AtHome, VariablesOfDependencies, FailedKeepsDependencies, IsListed, Dependency
  <2>3. PluginInv'
    BY <2>1 DEF IInv, PluginInv, IsListed, Dependency, LocalPath, AtHome, Fits
  <2>4. MigrationInv' /\ MigratedOrRestored'
    BY <2>1 DEF IInv, MigrationInv, SetAsideInv, MigratedOrRestored, MigratedTogether, RestoredFromUnpack
  <2>5. QED
    BY <1>2, <2>2, <2>3, <2>4 DEF IInv
<1>3. QED
  BY <1>1, <1>2

(* The invariant holds in every state. *)
LEMMA Invariant == Spec => []IInv
<1>1. IInv /\ [Next]_vars => IInv'
  BY NextKeeps
<1>2. QED
  BY <1>1, InitKeeps, PTL DEF Spec

--------------------------------------------------------------------------
(* The state is of its type, a plugin has values of variables only while it *)
(* is a dependency, and a plugin command that fails leaves dependencies    *)
(* and variables as they were - whatever services answer, at every step,   *)
(* and wherever a command before was killed.                               *)
THEOREM DependenciesAreKept == Spec => []DependenciesKept
<1>1. IInv => DependenciesKept
  <2> SUFFICES ASSUME IInv
               PROVE  TypeOK
    BY DEF DependenciesKept, IInv
  <2>1. task.id \in Identifier /\ task.reference \in Reference
    BY UnderWay
  <2>2. QED
    BY <2>1 DEF TypeOK, IInv, TypeInv, PackageJson, Typings
<1>2. QED
  BY <1>1, Invariant, PTL

(* After a migration that ended well modules, typings and version are those *)
(* asked for; one that says it restored the state did.                     *)
THEOREM MigrationsAreWhole == Spec => []MigratedOrRestored
<1>1. IInv => MigratedOrRestored
  BY DEF IInv
<1>2. QED
  BY <1>1, Invariant, PTL

(* No step leaves a dependency on a directory that is not there, but the    *)
(* one that removes it and the one that lists it though shelljs.cp could    *)
(* not copy it; and a version that is added supports the project.           *)
THEOREM DependenciesCanBeInstalled == Spec => DependenciesInstall
<1>1. IInv /\ [Next]_vars => [ThereStep]_vars /\ [AddedStep]_vars
  BY NextKeeps
<1>2. QED
  BY <1>1, Invariant, PTL DEF Spec, DependenciesInstall, DependenciesAreThere, AddedFits, ThereStep, AddedStep

--------------------------------------------------------------------------
(* The list being made has, once each, the packages for NativeScript of the *)
(* pages read so far; one that was made has enough of them.                *)
Wanted(last) == {i \in DOMAIN Search : i <= last /\ IsNativeScript(i)}
InList == {list.plugins[k] : k \in DOMAIN list.plugins}
OnceEach == \A k, l \in DOMAIN list.plugins : k # l => list.plugins[k] # list.plugins[l]

ListInv ==
  /\ list \in [count : Nat, page : Nat, plugins : Seq(Nat), answered : SUBSET DOMAIN Search, cut : BOOLEAN]
  /\ pc = "page" =>
       /\ list.count > 0 /\ Len(list.plugins) < list.count /\ ~list.cut
       /\ OnceEach /\ InList = Wanted(list.page * list.count)
  /\ ListsEnough

(* As many places of a finite set are before one as it has smaller ones:    *)
(* each number below its cardinality once.                                 *)
LEMMA PlacesBefore ==
  ASSUME NEW places, IsFiniteSet(places), places \subseteq Nat
  PROVE  LET Before == [i \in places |-> Cardinality({j \in places : j < i})]
         IN /\ \A i \in places : Before[i] \in 0..(Cardinality(places) - 1)
            /\ \A i, j \in places : Before[i] = Before[j] => i = j
            /\ \A k \in 1..Cardinality(places) : \E i \in places : Before[i] = k - 1
<1> DEFINE Less(i) == {j \in places : j < i}
           Before == [i \in places |-> Cardinality(Less(i))]
           N == Cardinality(places)
<1>1. N \in Nat
  BY FS_CardinalityType
<1>2. ASSUME NEW i \in places
      PROVE  /\ IsFiniteSet(Less(i)) /\ Cardinality(Less(i)) \in Nat
             /\ IsFiniteSet(Less(i) \cup {i}) /\ Cardinality(Less(i) \cup {i}) = Cardinality(Less(i)) + 1
  <2>1. IsFiniteSet(Less(i))
    BY FS_Subset
  <2>2. Cardinality(Less(i)) \in Nat
    BY <2>1, FS_CardinalityType
  <2>3. i \notin Less(i)
    OBVIOUS
  <2>4. QED
    BY <2>1, <2>2, <2>3, FS_AddElement
<1>3. ASSUME NEW i \in places
      PROVE  Before[i] \in 0..(N - 1)
  <2>1. Less(i) \cup {i} \in SUBSET places
    OBVIOUS
  <2>2. Cardinality(Less(i) \cup {i}) <= N
    BY <2>1, FS_Subset
  <2>3. QED
    BY <1>1, <1>2, <2>2
<1>4. ASSUME NEW i \in places, NEW j \in places, i < j
      PROVE  Before[i] < Before[j]
  <2>1. Less(i) \cup {i} \in SUBSET Less(j)
    <3>1. i \in Nat /\ j \in Nat
      OBVIOUS
    <3>2. \A x \in Less(i) : x \in Nat /\ x \in places /\ x < i
      OBVIOUS
    <3>3. \A x \in Less(i) : x < j
      BY <1>4, <3>1, <3>2
    <3>4. QED
      BY <1>4, <3>1, <3>2, <3>3
  <2>2. Cardinality(Less(i) \cup {i}) <= Cardinality(Less(j))
    BY <1>2, <2>1, FS_Subset
  <2>3. Cardinality(Less(i)) + 1 <= Cardinality(Less(j)) /\ Cardinality(Less(i)) \in Nat /\ Cardinality(Less(j)) \in Nat
    BY <1>2, <2>2
  <2>4. Cardinality(Less(i)) < Cardinality(Less(j))
    BY <2>3
  <2>5. QED
    BY <2>4
<1>5. \A i, j \in places : Before[i] = Before[j] => i = j
  <2> SUFFICES ASSUME NEW i \in places, NEW j \in places, Before[i] = Before[j], i # j
               PROVE  FALSE
    OBVIOUS
  <2>1. Before[i] \in 0..(N - 1) /\ Before[j] \in 0..(N - 1) /\ i \in Nat /\ j \in Nat
    BY <1>3
  <2>2. CASE i < j
    BY <1>1, <1>4, <2>1, <2>2
  <2>3. CASE j < i
    <3>1. Before[j] < Before[i]
      BY <1>4, <2>3
    <3> HIDE DEF Before
    <3>2. QED
      BY <1>1, <2>1, <3>1
  <2>4. QED
    BY <2>1, <2>2, <2>3
<1>6. Before \in Injection(places, 0..(N - 1))
  <2>1. DOMAIN Before = places /\ Before \in [places -> 0..(N - 1)]
    BY <1>3
  <2> HIDE DEF Before, N
  <2>2. QED
    BY <1>5, <2>1 DEF Injection, IsInjective
<1>7. IsFiniteSet(0..(N - 1)) /\ Cardinality(0..(N - 1)) = N
  <2> HIDE DEF N
  <2>1. 0 \in Int /\ N - 1 \in Int
    BY <1>1
  <2>2. IsFiniteSet(0..(N - 1)) /\ Cardinality(0..(N - 1)) = IF 0 > N - 1 THEN 0 ELSE (N - 1) - 0 + 1
    BY <2>1, FS_Interval
  <2>3. (IF 0 > N - 1 THEN 0 ELSE (N - 1) - 0 + 1) = N
    BY <1>1
  <2>4. QED
    BY <2>2, <2>3
<1>8. Before \in Surjection(places, 0..(N - 1))
  BY <1>6, <1>7, FS_Injection
<1>9. \A k \in 1..N : \E i \in places : Before[i] = k - 1
  <2> SUFFICES ASSUME NEW k \in 1..N
               PROVE  \E i \in places : Before[i] = k - 1
    OBVIOUS
  <2>1. k - 1 \in 0..(N - 1)
    BY <1>1
  <2>2. QED
    BY <1>8, <2>1 DEF Surjection
<1>10. QED
  BY <1>3, <1>5, <1>9

(* So the first of a set of places are places, each once, as many as asked  *)
(* for if there are as many, and all of them otherwise.                    *)
LEMMA FirstOfPlaces ==
  ASSUME NEW places, IsFiniteSet(places), places \subseteq Nat, NEW most \in Nat
  PROVE  LET first == FirstOf(places, most)
         IN /\ first \in Seq(places) /\ Len(first) <= most
            /\ \A k, l \in DOMAIN first : k # l => first[k] # first[l]
            /\ Len(first) < most => \A i \in places : \E k \in DOMAIN first : first[k] = i
<1> DEFINE Before(i) == Cardinality({j \in places : j < i})
           N == Cardinality(places)
           length == IF N <= most THEN N ELSE most
           At1(k) == CHOOSE i \in places : Before(i) = k - 1
           first == FirstOf(places, most)
<1>1. N \in Nat /\ length \in Nat /\ length <= N /\ length <= most
  BY FS_CardinalityType
<1>2. /\ \A i \in places : Before(i) \in 0..(N - 1)
      /\ \A i, j \in places : Before(i) = Before(j) => i = j
      /\ \A k \in 1..N : \E i \in places : Before(i) = k - 1
  <2> DEFINE B == [i \in places |-> Cardinality({j \in places : j < i})]
  <2>1. /\ \A i \in places : B[i] \in 0..(N - 1)
        /\ \A i, j \in places : B[i] = B[j] => i = j
        /\ \A k \in 1..N : \E i \in places : B[i] = k - 1
    BY PlacesBefore
  <2>2. \A i \in places : B[i] = Before(i)
    OBVIOUS
  <2> HIDE DEF B, Before, N
  <2>3. QED
    BY <2>1, <2>2
<1>3. first = [k \in 1..length |-> At1(k)]
  BY DEF FirstOf
<1> HIDE DEF N, Before
<1>4. ASSUME NEW k \in 1..length
      PROVE  first[k] \in places /\ Before(first[k]) = k - 1
  <2>1. k \in 1..N
    BY <1>1
  <2>2. At1(k) \in places /\ Before(At1(k)) = k - 1
    BY <1>2, <2>1
  <2>3. QED
    BY <1>3, <2>2
<1> HIDE DEF first, length
<1>5. first \in Seq(places) /\ Len(first) = length /\ DOMAIN first = 1..length
  <2>1. first \in [1..length -> places]
    BY <1>3, <1>4
  <2>2. QED
    BY <1>1, <2>1
<1>6. ASSUME NEW k \in DOMAIN first, NEW l \in DOMAIN first, k # l
      PROVE  first[k] # first[l]
  <2>1. k - 1 # l - 1
    BY <1>1, <1>5, <1>6
  <2>2. QED
    BY <1>4, <1>5, <2>1
<1>7. ASSUME Len(first) < most, NEW i \in places
      PROVE  \E k \in DOMAIN first : first[k] = i
  <2>1. length = N
    BY <1>1, <1>5, <1>7 DEF length
  <2>2. Before(i) \in 0..(N - 1)
    BY <1>2
  <2>3. Before(i) + 1 \in 1..length /\ Before(i) + 1 \in DOMAIN first
    BY <1>1, <1>5, <2>1, <2>2
  <2>4. first[Before(i) + 1] \in places /\ Before(first[Before(i) + 1]) = (Before(i) + 1) - 1
    BY <1>4, <2>3
  <2>5. (Before(i) + 1) - 1 = Before(i)
    BY <1>1, <2>2
  <2>6. QED
    BY <1>2, <2>3, <2>4, <2>5
<1>8. QED
  BY <1>1, <1>5, <1>6, <1>7 DEF first

(* A sequence that has everything once has as many things as it is long. *)
LEMMA OnceEachCounts ==
  ASSUME NEW S, NEW s \in Seq(S), \A k, l \in DOMAIN s : k # l => s[k] # s[l]
  PROVE  Cardinality({s[k] : k \in DOMAIN s}) = Len(s)
<1> DEFINE T == {s[k] : k \in DOMAIN s}
<1>1. Len(s) \in Nat /\ DOMAIN s = 1..Len(s) /\ s \in [1..Len(s) -> T]
  OBVIOUS
<1>2. s \in Injection(1..Len(s), T)
  BY <1>1 DEF Injection, IsInjective
<1>3. s \in Surjection(1..Len(s), T)
  BY <1>1 DEF Surjection
<1>4. ExistsBijection(1..Len(s), T)
  BY <1>2, <1>3 DEF ExistsBijection, Bijection
<1>5. QED
  BY <1>1, <1>4, FS_CountingElements

(* A search is a finite sequence of packages. *)
LEMMA SearchTypes == Len(Search) \in Nat /\ DOMAIN Search = 1..Len(Search) /\ IsFiniteSet(DOMAIN Search)
<1>1. Len(Search) \in Nat /\ DOMAIN Search = 1..Len(Search)
  BY SearchAssumption
<1>2. IsFiniteSet(1..Len(Search))
  BY <1>1, FS_Interval
<1>3. QED
  BY <1>1, <1>2

(* The places on the next page follow those read so far, and there are none *)
(* only when all were read.                                                *)
LEMMA Pages ==
  ASSUME NEW page \in Nat, NEW count \in Nat \ {0}
  PROVE  /\ page * count \in Nat /\ (page + 1) * count = page * count + count
         /\ \A i \in DOMAIN Search : i <= (page + 1) * count <=> (i <= page * count \/ i \in PageOf(page, count))
         /\ \A i \in PageOf(page, count) : i \in DOMAIN Search /\ ~(i <= page * count) /\ i \in Nat
         /\ PageOf(page, count) = {} => \A i \in DOMAIN Search : i <= page * count
<1> DEFINE last == page * count
<1>1. last \in Nat /\ (page + 1) * count = last + count
  OBVIOUS
<1>2. PageOf(page, count) = {i \in DOMAIN Search : last < i /\ i <= last + count}
  BY <1>1 DEF PageOf
<1> HIDE DEF last
<1>3. \A i \in DOMAIN Search : i <= last + count <=> (i <= last \/ i \in PageOf(page, count))
  BY <1>1, <1>2, SearchTypes
<1>4. \A i \in PageOf(page, count) : i \in DOMAIN Search /\ ~(i <= last) /\ i \in Nat
  BY <1>1, <1>2, SearchTypes
<1>5. ASSUME PageOf(page, count) = {}, NEW i \in DOMAIN Search
      PROVE  i <= last
  <2> SUFFICES ASSUME last < i
               PROVE  FALSE
    BY <1>1, SearchTypes
  <2>1. last + 1 \in DOMAIN Search
    BY <1>1, SearchTypes
  <2>2. last + 1 \in PageOf(page, count)
    BY <1>1, <1>2, <2>1
  <2>3. QED
    BY <1>5, <2>2
<1>6. QED
  BY <1>1, <1>3, <1>4, <1>5 DEF last

(* A page is read. *)
LEMMA NextPageLists ==
  ASSUME IInv, ListInv, NextPage
  PROVE  ListInv'
<1> DEFINE page == PageOf(list.page, list.count)
           found == {i \in page : IsNativeScript(i)}
           most == list.count - Len(list.plugins)
           first == FirstOf(found, most)
           plugins == list.plugins \o first
           more == Len(plugins) < list.count /\ page # {}
<1>1. /\ pc = "page"
      /\ list' = [list EXCEPT !.plugins = plugins, !.page = IF more THEN @ + 1 ELSE @]
      /\ IF more THEN Goto("page") ELSE End("listed")
  BY DEF NextPage
<1>2. /\ list \in [count : Nat, page : Nat, plugins : Seq(Nat), answered : SUBSET DOMAIN Search, cut : BOOLEAN]
      /\ list.count > 0 /\ Len(list.plugins) < list.count /\ ~list.cut
      /\ OnceEach /\ InList = Wanted(list.page * list.count)
  BY <1>1 DEF ListInv
<1>3. /\ list.count \in Nat \ {0} /\ list.page \in Nat /\ list.plugins \in Seq(Nat) /\ Len(list.plugins) \in Nat
      /\ most \in Nat
  BY <1>2
<1>4. /\ list.page * list.count \in Nat
      /\ \A i \in DOMAIN Search : i <= (list.page + 1) * list.count <=> (i <= list.page * list.count \/ i \in page)
      /\ \A i \in page : i \in DOMAIN Search /\ ~(i <= list.page * list.count) /\ i \in Nat
      /\ page = {} => \A i \in DOMAIN Search : i <= list.page * list.count
  BY <1>3, Pages
<1>5. IsFiniteSet(found) /\ found \subseteq Nat
  <2>1. found \in SUBSET DOMAIN Search
    BY <1>4
  <2>2. QED
    BY <1>4, <2>1, SearchTypes, FS_Subset
<1> HIDE DEF page
<1>6. /\ first \in Seq(found) /\ Len(first) <= most
      /\ \A k, l \in DOMAIN first : k # l => first[k] # first[l]
      /\ Len(first) < most => \A i \in found : \E k \in DOMAIN first : first[k] = i
  BY <1>3, <1>5, FirstOfPlaces, ZenonT(40)
<1> HIDE DEF first, found
<1>7. /\ plugins \in Seq(Nat) /\ Len(plugins) = Len(list.plugins) + Len(first) /\ Len(first) \in Nat
      /\ DOMAIN plugins = 1..(Len(list.plugins) + Len(first))
      /\ \A k \in 1..Len(list.plugins) : plugins[k] = list.plugins[k]
      /\ \A k \in 1..Len(first) : plugins[Len(list.plugins) + k] = first[k]
      /\ DOMAIN list.plugins = 1..Len(list.plugins) /\ DOMAIN first = 1..Len(first)
  <2>1. Len(first) \in Nat /\ DOMAIN first = 1..Len(first) /\ first \in [1..Len(first) -> found]
    BY <1>6
  <2>2. first \in [1..Len(first) -> Nat]
    BY <1>5, <2>1
  <2>3. first \in Seq(Nat)
    BY <2>1, <2>2
  <2>4. QED
    BY <1>3, <2>3
<1> HIDE DEF plugins, more
<1>8. \A k \in DOMAIN plugins : \/ k \in DOMAIN list.plugins /\ plugins[k] = list.plugins[k]
                                \/ \E l \in DOMAIN first : k = Len(list.plugins) + l /\ plugins[k] = first[l]
  <2> SUFFICES ASSUME NEW k \in DOMAIN plugins, k \notin DOMAIN list.plugins
               PROVE  \E l \in DOMAIN first : k = Len(list.plugins) + l /\ plugins[k] = first[l]
    BY <1>7
  <2>1. k - Len(list.plugins) \in 1..Len(first) /\ k = Len(list.plugins) + (k - Len(list.plugins))
    <3>1. k \in 1..(Len(list.plugins) + Len(first)) /\ k \notin 1..Len(list.plugins)
      BY <1>7
    <3>2. Len(list.plugins) \in Nat /\ Len(first) \in Nat
      BY <1>3, <1>7
    <3>3. QED
      BY <3>1, <3>2
  <2>2. QED
    BY <1>7, <2>1
<1>9. {plugins[k] : k \in DOMAIN plugins} = InList \cup {first[k] : k \in DOMAIN first}
  <2>1. \A k \in DOMAIN list.plugins : k \in DOMAIN plugins /\ plugins[k] = list.plugins[k]
    BY <1>3, <1>7
  <2>2. \A k \in DOMAIN first : Len(list.plugins) + k \in DOMAIN plugins /\ plugins[Len(list.plugins) + k] = first[k]
    BY <1>3, <1>7, SMTT(20)
  <2>3. QED
    BY <1>8, <2>1, <2>2 DEF InList
<1>10. \A k \in DOMAIN first : first[k] \in found
  BY <1>6, <1>7
<1>11. \A i \in found : i \in DOMAIN Search /\ ~(i <= list.page * list.count) /\ i <= (list.page + 1) * list.count /\ IsNativeScript(i)
  BY <1>4 DEF found
<1>12. \A k, l \in DOMAIN plugins : k # l => plugins[k] # plugins[l]
  <2> SUFFICES ASSUME NEW k \in DOMAIN plugins, NEW l \in DOMAIN plugins, k # l, plugins[k] = plugins[l]
               PROVE  FALSE
    OBVIOUS
  <2>1. \A j \in DOMAIN list.plugins : list.plugins[j] <= list.page * list.count
    BY <1>2 DEF InList, Wanted
  <2>2. \A j \in DOMAIN first : ~(first[j] <= list.page * list.count)
    BY <1>10, <1>11
  <2>3. CASE k \in DOMAIN list.plugins /\ l \in DOMAIN list.plugins
    BY <1>2, <1>7, <2>3 DEF OnceEach
  <2>4. CASE k \notin DOMAIN list.plugins /\ l \notin DOMAIN list.plugins
    BY <1>6, <1>8, <2>4
  <2>5. CASE k \in DOMAIN list.plugins /\ l \notin DOMAIN list.plugins
    BY <1>7, <1>8, <2>1, <2>2, <2>5, ZenonT(40)
  <2>6. CASE k \notin DOMAIN list.plugins /\ l \in DOMAIN list.plugins
    BY <1>7, <1>8, <2>1, <2>2, <2>6
  <2>7. QED
    BY <2>3, <2>4, <2>5, <2>6
<1>13. /\ list' \in [count : Nat, page : Nat, plugins : Seq(Nat), answered : SUBSET DOMAIN Search, cut : BOOLEAN]
       /\ list'.count = list.count /\ list'.plugins = plugins /\ list'.answered = list.answered /\ ~list'.cut
       /\ list'.page = IF more THEN list.page + 1 ELSE list.page
  <2> DEFINE next == IF more THEN list.page + 1 ELSE list.page
  <2>1. next \in Nat
    BY <1>3
  <2>2. list' = [list EXCEPT !.plugins = plugins, !.page = next]
    BY <1>1
  <2> HIDE DEF next
  <2>3. QED
    BY <1>2, <1>7, <2>1, <2>2 DEF next
<1>14. \A i : IsNativeScript(i)' <=> IsNativeScript(i)
  BY <1>13 DEF IsNativeScript
<1>15. CASE more
  <2>1. pc' = "page" /\ Len(plugins) < list.count /\ outcome' = outcome
    BY <1>1, <1>15 DEF Goto, more
  <2>2. Len(first) < most
    BY <1>3, <1>7, <2>1
  <2>3. {first[k] : k \in DOMAIN first} = found
    BY <1>6, <1>10, <2>2
  <2>4. InList \cup found = {i \in DOMAIN Search : i <= (list.page + 1) * list.count /\ IsNativeScript(i)}
    BY <1>2, <1>4 DEF Wanted, found
  <2>5. {plugins[k] : k \in DOMAIN plugins} = Wanted((list.page + 1) * list.count)
    BY <1>9, <2>3, <2>4 DEF Wanted
  <2>6. InList' = Wanted(list.page * list.count)'
    BY <1>13, <1>14, <1>15, <2>5 DEF InList, Wanted
  <2>7. OnceEach'
    BY <1>12, <1>13 DEF OnceEach
  <2>8. ListsEnough'
    BY <1>1, <2>1, UnderWay DEF ListsEnough
  <2>9. list'.count > 0 /\ Len(list'.plugins) < list'.count /\ ~list'.cut
    BY <1>2, <1>13, <2>1
  <2>10. QED
    BY <1>13, <2>6, <2>7, <2>8, <2>9 DEF ListInv
<1>16. CASE ~more
  <2>1. pc' = "idle"
    BY <1>1, <1>16 DEF End
  <2>2. (Len(plugins) = list.count \/ page = {}) /\ Len(plugins) <= list.count
    BY <1>3, <1>6, <1>7, <1>16 DEF more
  <2>3. Cardinality({plugins[k] : k \in DOMAIN plugins}) = Len(plugins)
    BY <1>7, <1>12, OnceEachCounts
  <2>4. {plugins[k] : k \in DOMAIN plugins} \subseteq {i \in DOMAIN Search : IsNativeScript(i)}
    BY <1>2, <1>9, <1>10, <1>11 DEF Wanted
  <2>5. page = {} => {i \in DOMAIN Search : IsNativeScript(i)} \subseteq {plugins[k] : k \in DOMAIN plugins}
    BY <1>2, <1>4, <1>9 DEF Wanted
  <2>6. ListsEnough'
    BY <1>13, <1>14, <2>2, <2>3, <2>4, <2>5 DEF ListsEnough
  <2>7. QED
    BY <1>13, <2>1, <2>6 DEF ListInv
<1>17. QED
  BY <1>15, <1>16

(* The search is cut short: what is listed is what the pages had. *)
LEMMA EmptyBodyLists ==
  ASSUME IInv, ListInv, EmptyBody
  PROVE  ListInv'
<1>1. /\ list \in [count : Nat, page : Nat, plugins : Seq(Nat), answered : SUBSET DOMAIN Search, cut : BOOLEAN]
      /\ OnceEach /\ InList = Wanted(list.page * list.count)
  BY DEF EmptyBody, ListInv
<1>2. list' = [list EXCEPT !.cut = TRUE] /\ pc' = "idle"
  BY DEF EmptyBody, End
<1>3. /\ list' \in [count : Nat, page : Nat, plugins : Seq(Nat), answered : SUBSET DOMAIN Search, cut : BOOLEAN]
      /\ list'.count = list.count /\ list'.page = list.page /\ list'.plugins = list.plugins
      /\ list'.answered = list.answered /\ list'.cut
  BY <1>1, <1>2
<1>4. \A i : IsNativeScript(i)' <=> IsNativeScript(i)
  BY <1>3 DEF IsNativeScript
<1>5. Cardinality(InList) = Len(list.plugins)
  <2>1. DOMAIN list.plugins = 1..Len(list.plugins) /\ Len(list.plugins) \in Nat
    BY <1>1
  <2>2. QED
    BY <1>1, <2>1, OnceEachCounts DEF OnceEach, InList
<1>6. /\ InList \subseteq {i \in DOMAIN Search : IsNativeScript(i)}
      /\ InList = {i \in {j \in DOMAIN Search : IsNativeScript(j)} : i <= list.page * list.count}
  BY <1>1 DEF Wanted
<1>7. ListsEnough'
  BY <1>3, <1>4, <1>5, <1>6 DEF ListsEnough, InList
<1>8. QED
  BY <1>2, <1>3, <1>7 DEF ListInv

(* No other step makes a list. *)
LEMMA NoListMade ==
  ASSUME IInv, Start \/ Kill \/ ProjectStep
  PROVE  pc' # "page" /\ outcome' # "listed"
<1>1. pc # "idle" => outcome = "none"
  BY UnderWay
<1>2. CASE Start
  BY <1>2 DEF Start, Remove, Add, Fetch, Configure, StartPlugins, StartMigration, StartDownload
<1>3. CASE Kill
  BY <1>3 DEF Kill, End
<1>4. CASE DownloadArchives
  BY <1>4 DEF DownloadArchives, End
<1>5. CASE MigrationStep
  BY <1>1, <1>5 DEF MigrationStep, ChangeModules, SetAside, Unpack, DeleteAside, SaveVersion, RestorePackage,
                    DeleteTypings, PutBack, Goto, Fails, End
<1>6. CASE PluginStep
  <2>1. CASE Validate
    <3>1. task.command \in {"configure", "remove"}
      BY <2>1 DEF Validate, IInv, PluginInv
    <3>2. QED
      BY <1>1, <2>1, <3>1 DEF Validate, Found, FoundWith, End
  <2>2. CASE AddPlugin \/ FetchPlugin \/ Copy
    BY <1>1, <2>2 DEF AddPlugin, FetchPlugin, Copy, InstallLocal, Found, FoundWith, End
  <2>3. CASE FindInRegistry
    BY <1>1, <2>3 DEF FindInRegistry, Found, FoundWith, End
  <2>4. CASE ConfigurePlugin \/ RemovePlugin
    BY <1>1, <2>4 DEF ConfigurePlugin, RemovePlugin, InstallLocal, Found, FoundWith, End
  <2>5. CASE Unlist \/ Write
    BY <2>5 DEF Unlist, Write, End
  <2>6. QED
    BY <1>6, <2>1, <2>2, <2>3, <2>4, <2>5 DEF PluginStep
<1>7. QED
  BY <1>2, <1>3, <1>4, <1>5, <1>6 DEF ProjectStep

(* The search starts with nothing found. *)
LEMMA StartListLists ==
  ASSUME IInv, NEW count \in Counts, StartList(count)
  PROVE  ListInv'
<1>1. PICK silent \in SUBSET DOMAIN Search :
        list' = [NoList EXCEPT !.count = count, !.answered = DOMAIN Search \ silent]
  BY DEF StartList
<1>2. count \in Nat \ {0}
  BY CountsAssumption
<1>3. /\ list' = [count |-> count, page |-> 0, plugins |-> <<>>, answered |-> DOMAIN Search \ silent, cut |-> FALSE]
  BY <1>1 DEF NoList
<1>4. pc' = "page" /\ outcome' = "none"
  BY DEF StartList
<1>5. list' \in [count : Nat, page : Nat, plugins : Seq(Nat), answered : SUBSET DOMAIN Search, cut : BOOLEAN]
  BY <1>2, <1>3
<1>6. OnceEach' /\ InList' = {}
  BY <1>3 DEF OnceEach, InList
<1>7. Wanted(list.page * list.count)' = {}
  <2>1. list'.page * list'.count = 0
    BY <1>2, <1>3
  <2>2. \A i \in DOMAIN Search : ~(i <= 0)
    BY SearchTypes
  <2>3. QED
    BY <2>1, <2>2 DEF Wanted
<1>8. ListsEnough'
  BY <1>4 DEF ListsEnough
<1>9. list'.count > 0 /\ Len(list'.plugins) < list'.count /\ ~list'.cut
  BY <1>2, <1>3
<1>10. QED
  BY <1>5, <1>6, <1>7, <1>8, <1>9 DEF ListInv

(* Every step keeps what is said of lists. *)
LEMMA ListsKeep ==
  ASSUME IInv, ListInv, [Next]_vars
  PROVE  ListInv'
<1>1. NoList \in [count : Nat, page : Nat, plugins : Seq(Nat), answered : SUBSET DOMAIN Search, cut : BOOLEAN]
  BY DEF NoList
<1>2. ASSUME list' \in [count : Nat, page : Nat, plugins : Seq(Nat), answered : SUBSET DOMAIN Search, cut : BOOLEAN],
             pc' # "page", outcome' # "listed"
      PROVE  ListInv'
  BY <1>2 DEF ListInv, ListsEnough
<1>3. list \in [count : Nat, page : Nat, plugins : Seq(Nat), answered : SUBSET DOMAIN Search, cut : BOOLEAN]
  BY DEF ListInv
<1>4. CASE (Start \/ Kill) /\ list' = NoList
  BY <1>1, <1>2, <1>4, NoListMade
<1>5. CASE \E n \in Counts : StartList(n)
  BY <1>5, StartListLists
<1>6. CASE ProjectStep /\ list' = list
  BY <1>2, <1>3, <1>6, NoListMade
<1>7. CASE NextPage
  BY <1>7, NextPageLists
<1>8. CASE SearchFails
  BY <1>1, <1>2, <1>8 DEF SearchFails, End
<1>9. CASE EmptyBody
  BY <1>9, EmptyBodyLists
<1>10. CASE UNCHANGED vars
  BY <1>10 DEF vars, pluginVars, ListInv, OnceEach, InList, Wanted, ListsEnough, IsNativeScript
<1>11. QED
  BY <1>4, <1>5, <1>6, <1>7, <1>8, <1>9, <1>10 DEF Next, Step, ListStep

(* A list of available plugins is as long as asked, or has every package    *)
(* for NativeScript the search finds, once each - however many a page has, *)
(* and whichever packages npm does not answer for; and one that an answer  *)
(* without a body cut short has every one of the pages before it.          *)
THEOREM ListsAreEnough == Spec => []ListsEnough
<1>1. Init => ListInv
  BY DEF Init, ListInv, NoList, ListsEnough
<1>2. IInv /\ ListInv /\ [Next]_vars => ListInv'
  BY ListsKeep
<1>3. ListInv => ListsEnough
  BY DEF ListInv
<1>4. QED
  BY <1>1, <1>2, <1>3, Invariant, PTL DEF Spec
=============================================================================
