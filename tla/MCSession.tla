---------------------------- MODULE MCSession -----------------------------
(* Instances of Session: two users on one profile directory. *)
EXTENDS Session

AllCommands == {"login", "logout", "dev-telerik-login", "user", "build", "cloud list",
                "get setting", "save setting", "debug"}

==========================================================================
