----------------------- MODULE MCNativeScriptProject -----------------------
(* An instance of NativeScriptProject: p of the marketplace, with a default *)
(* for its variable, and q, with none, of npm, a URL, a directory and a     *)
(* tarball outside the project.                                            *)
EXTENDS NativeScriptProject

Package(name, version, for) == [name |-> name, version |-> version, framework |-> for]

MCMarketplace == {Package("p", 1, 1), Package("p", 2, 2)}
MCNpm == MCMarketplace \cup {Package("q", 1, 1)}
MCVariable == [n \in {"p", "q"} |-> IF n = "p" THEN "default" ELSE "none"]
MCOutside == {"/q", "/q.tgz"}
MCPaths == MCOutside \cup {"plugins/p", "plugins/q", "plugins/q.tgz"}
MCInProject == [path \in MCOutside |-> IF path = "/q" THEN "plugins/q" ELSE "plugins/q.tgz"]
MCPluginsDir == [n \in Names |-> IF n = "p" THEN "plugins/p" ELSE "plugins/q"]
MCInitialContent == [path \in Paths |-> IF path \in MCOutside THEN "q" ELSE NoPlugin]
MCTyped == {Named("p", Latest), Named("p", 1), Named("q", Latest), Named("q", 1), NamedAt("q", "plugins/q"),
            At("/q"), At("/q.tgz"), Url}
MCSearch == [i \in 1..4 |-> [native |-> i # 1]]
==========================================================================
