------------------------- MODULE MCProjectCreation -------------------------
(* An instance of ProjectCreation: empty directories, projects of Cordova,  *)
(* NativeScript, Visual Studio and Ionic, with platforms in several orders. *)
EXTENDS ProjectCreation

NoType == [type |-> "", orientation |-> "", size |-> ""]
Folder(orientation) == [type |-> "drawable", orientation |-> orientation, size |-> "hdpi"]
Resource(platform, folder, name) == [platform |-> platform, folder |-> folder, name |-> name, ext |-> "png"]
Named(folder, name) == [folder |-> folder, name |-> name, ext |-> "png"]

MCResources ==
  "resources/android/splash/drawable-land-hdpi-screen.png" :> Resource("android", Folder("land"), "screen")
  @@ "resources/ios/icon/icon.png" :> Resource("ios", NoType, "icon")
  @@ "resources/wp8/icon/icon.png" :> Resource("wp8", NoType, "icon")
  @@ "resources/wp8/splash/screen.png" :> Resource("wp8", NoType, "screen")
  @@ "resources/android/icon/logo.png" :> Resource("android", NoType, "logo")

Android == [name |-> "android", icon |-> {}, splash |-> {Named(Folder("land"), "screen")}]
Ios == [name |-> "ios", icon |-> {Named(NoType, "icon")}, splash |-> {}]
WindowsPhone == [name |-> "wp8", icon |-> {Named(NoType, "icon")}, splash |-> {Named(NoType, "screen")}]
(* A screen there is no file of, whose name contains that of an icon. *)
OnlyScreen == [name |-> "wp8", icon |-> {}, splash |-> {Named(NoType, "icon-screen")}]
MCPartOf == {<<name, name>> : name \in {"screen", "icon", "logo"}} \cup {<<"screen", "icon-screen">>, <<"icon", "icon-screen">>}
MCConfigXmls == {<<>>, <<OnlyScreen>>, <<Android, Ios>>, <<Ios, WindowsPhone>>, <<WindowsPhone, Android>>, <<WindowsPhone>>}

MCTemplateFiles == {".abproject", ".abignore", "cordova.js", "index.html", "mobile.vstemplate", "app.js"}
Ionic == {"ionic.project", "package.json", "index.html", "hooks/after", "plugins/core", "plugins/own"} \cup DOMAIN MCResources
MCPaths == MCTemplateFiles \cup Ionic \cup {"a.proj", "app/tns_modules/core", ".abignore"}
MCDirectoryOf ==
  [path \in MCPaths |->
     CASE path \in DOMAIN MCResources -> "resources"
       [] path \in {"plugins/core", "plugins/own"} -> "plugins"
       [] path = "hooks/after" -> "hooks"
       [] path = "app/tns_modules/core" -> "app/tns_modules"
       [] OTHER -> "none"]
MCDirectories ==
  {{}, {"index.html", "cordova.js", ".abignore"}, {"package.json", "app/tns_modules/core"}, {"index.html", "cordova.js", "a.proj"},
   Ionic, (Ionic \cup {".abignore"}) \ {"plugins/core", "plugins/own"}, {"index.html"}}
MCSolutions ==
  <<[id |-> "1", name |-> "Shop", isApp |-> FALSE, projects |-> <<"App", "App2">>],
    [id |-> "2", name |-> "Site", isApp |-> FALSE, projects |-> <<>>]>>
MCApps == <<[id |-> "3", name |-> "Shop", isApp |-> TRUE, projects |-> <<"App2">>]>>
MCMigrating == BOOLEAN
MCWithFile == {<<"3", "App2">>}
MCKeys == {Plain("Shop"), Plain("3"), Plain("0001"), Plain("Site"), [text |-> "Shop", mark |-> "marked"], [text |-> "Shop", mark |-> "colored"]}
MCIndexOf == Plain("3") :> 3 @@ Plain("0001") :> 1
MCBegins == {<<"Ap", "App">>, <<"Ap", "App2">>, <<"App", "App">>, <<"App", "App2">>, <<"App2", "App2">>}
MCListing == <<".abproject", "a.proj">>

(* What these projects name is what they have. *)
ASSUME MCNamedAsFiles == NamedAsFiles

(* Of the solutions and apps only a migrated one has the name of another. *)
ASSUME MCNamesTellApart == NamesTellApart
==========================================================================
