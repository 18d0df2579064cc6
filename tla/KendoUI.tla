------------------------------- MODULE KendoUI -------------------------------
(***************************************************************************)
(* kendoui install (lib/commands/kendoui-install.ts): the kendo directory   *)
(* of the project is renamed to a backup, the package that was downloaded   *)
(* unpacked in its place, and the backup deleted however that ended: when  *)
(* the old files could not be put back there is no copy of them then.      *)
(***************************************************************************)
VARIABLES
  kendo,          \* the kendo directory: Files
  kendoBackup,    \* kendo.ab-backup
  install,        \* the next step, or how the last one ended
  had,            \* history: the kendo directory when the install began
  harmed          \* history: an install failed or was killed where the old files could not be put back

kendoVars == <<kendo, kendoBackup, install, had, harmed>>

Files == {"none", "old", "some", "new"}

KendoTypeOK ==
  /\ kendo \in Files /\ kendoBackup \in Files
  /\ install \in {"idle", "download", "rename", "unzip", "restore", "delete", "deleted after failing", "installed", "failed", "killed"}
  /\ had \in Files /\ harmed \in BOOLEAN

KendoInit ==
  /\ kendo \in {"none", "old"} /\ kendoBackup = "none"
  /\ install = "idle" /\ had = kendo /\ harmed = FALSE

InstallGoes == install \notin {"idle", "installed", "failed", "killed"}

(* selectKendoVersion, confirmed *)
StartInstall == ~InstallGoes /\ install' = "download" /\ had' = kendo /\ UNCHANGED <<kendo, kendoBackup, harmed>>

DownloadKendo ==
  /\ install = "download" /\ install' \in {"rename", "failed"}
  /\ UNCHANGED <<kendo, kendoBackup, had, harmed>>

(* EPERM is told the user, and nothing put back; a backup that a killed     *)
(* process left cannot be renamed over.                                    *)
RenameKendo ==
  /\ install = "rename"
  /\ \/ kendo = "none" /\ install' = "unzip" /\ UNCHANGED <<kendo, kendoBackup>>
     \/ kendo # "none" /\ kendoBackup = "none" /\ install' = "unzip" /\ kendoBackup' = kendo /\ kendo' = "none"
     \/ kendo # "none" /\ install' \in {"restore", "deleted after failing"} /\ UNCHANGED <<kendo, kendoBackup>>
  /\ UNCHANGED <<had, harmed>>

UnzipKendo ==
  /\ install = "unzip"
  /\ \/ kendo' = "new" /\ install' = "delete" /\ UNCHANGED harmed
     \/ kendo' = kendo /\ install' = "restore" /\ UNCHANGED harmed
     \/ kendo' = "some" /\ install' = "restore" /\ harmed' = TRUE
     \/ kendo' \in {kendo, "some"} /\ install' = "deleted after failing" /\ harmed' = TRUE
  /\ UNCHANGED <<kendoBackup, had>>

(* As if the backup were only deleted. *)
RestoreNothing ==
  /\ install = "restore" /\ install' = "deleted after failing"
  /\ UNCHANGED <<kendo, kendoBackup, had, harmed>>

(* The backup is renamed back if nothing is in its way.  That may fail too, *)
(* and the old files are then deleted with the backup.                     *)
RestoreKendo ==
  /\ install = "restore" /\ install' = "deleted after failing"
  /\ IF kendo = "none" /\ kendoBackup # "none"
     THEN \/ kendo' = kendoBackup /\ kendoBackup' = "none" /\ UNCHANGED harmed
          \/ harmed' = TRUE /\ UNCHANGED <<kendo, kendoBackup>>
     ELSE UNCHANGED <<kendo, kendoBackup, harmed>>
  /\ UNCHANGED had

(* The finally of the command: it fails where the backup cannot be deleted. *)
DeleteBackup ==
  /\ install \in {"delete", "deleted after failing"}
  /\ \/ install' = (IF install = "delete" THEN "installed" ELSE "failed") /\ kendoBackup' = "none"
     \/ kendoBackup # "none" /\ install' = "failed" /\ kendoBackup' \in {kendoBackup, "some"}
  /\ UNCHANGED <<kendo, had, harmed>>

(* Killed with the old files only in the backup, the next install deletes   *)
(* them however it ends.                                                   *)
KillInstall ==
  /\ InstallGoes /\ install' = "killed"
  /\ harmed' = (harmed \/ install \in {"unzip", "restore"})
  /\ UNCHANGED <<kendo, kendoBackup, had>>

InstallStep == DownloadKendo \/ RenameKendo \/ UnzipKendo \/ RestoreKendo \/ DeleteBackup
==========================================================================
