---------------------------- MODULE ScreenBuilder ----------------------------
(***************************************************************************)
(* The commands of Screen Builder (lib/services/screen-builder-service.ts), *)
(* once its package is ready: a project made by an older version has to be *)
(* upgraded before anything is generated in it.                            *)
(***************************************************************************)
EXTENDS ExtensionsCache

VARIABLE obsolete   \* whether the project is of an older Screen Builder

(* shouldUpgrade: the scaffolder's error of an obsolete project, any other  *)
(* is the command's.                                                       *)
ShouldUpgrade(p) ==
  /\ At(p, "ready") /\ PackageOf(p) = Scaffolding
  /\ \/ Stop(p)
     \/ ~obsolete /\ process[p].command = "add" /\ Goto(p, "generate")
     \/ ~obsolete /\ process[p].command = "upgrade" /\ Stop(p)
     \/ obsolete /\ process[p].command = "add" /\ Goto(p, "prompt")
     \/ obsolete /\ process[p].command = "upgrade" /\ Goto(p, "upgrade")
  /\ UNCHANGED <<cacheVars, obsolete>>

(* promptForUpgrade: nothing is generated when the user does not want to. *)
PromptForUpgrade(p) ==
  /\ At(p, "prompt")
  /\ Goto(p, "upgrade") \/ Stop(p)
  /\ UNCHANGED <<cacheVars, obsolete>>

(* The error of an obsolete project is a value for createScaffolder: an     *)
(* upgrade that ends with it has changed nothing, and the command goes on. *)
Upgrade(p) ==
  /\ At(p, "upgrade")
  /\ \/ Stop(p) /\ UNCHANGED obsolete
     \/ obsolete' = FALSE /\ (IF process[p].command = "add" THEN Goto(p, "generate") ELSE Stop(p))
     \/ obsolete /\ process[p].command = "add" /\ Goto(p, "generate anyway") /\ UNCHANGED obsolete
  /\ UNCHANGED cacheVars

PromptGenerate(p) ==
  /\ (At(p, "generate") \/ At(p, "generate anyway")) /\ Stop(p)
  /\ UNCHANGED <<cacheVars, obsolete>>

ScreenBuilderStep(p) ==
  ShouldUpgrade(p) \/ PromptForUpgrade(p) \/ Upgrade(p) \/ PromptGenerate(p)
==========================================================================
