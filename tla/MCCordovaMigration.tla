------------------------ MODULE MCCordovaMigration ------------------------
(* A plugin that is renamed twice, one that comes with a version, and one   *)
(* of the marketplace that the oldest version does not support.             *)
EXTENDS CordovaMigration

AllRecords == {"audio", "media", "newMedia", "whitelist", "m@1"}
Integrated ==
  (30 :> {"audio"}) @@ (37 :> {"media"}) @@ (40 :> {"newMedia", "whitelist"})
Lists ==
  (30 :> {{}, {"audio"}}) @@ (37 :> {{"media"}, {"media", "m@1"}}) @@ (40 :> {{"newMedia"}, {"whitelist"}})
Available == (30 :> {}) @@ (37 :> {"m@1"}) @@ (40 :> {"m@1"})
Renames ==
  <<[version |-> 37, old |-> "audio", new |-> "media"],
    [version |-> 40, old |-> "media", new |-> "newMedia"]>>

IosAndroid == <<"ios", "android">>

NoFilesOrBoth == {{}, {"debug", "release"}}

(* A list that is migrated again stays as it is. *)
ASSUME MCMigrationSettles == MigrationSettles

(* The renames lead to the names of the newer versions. *)
ASSUME MCUpgradesFollowNames == UpgradesFollowNames

==========================================================================
