------------------------------ MODULE Session -----------------------------
(***************************************************************************)
(* The commands that need to know who is logged in, on one profile         *)
(* directory: login and logout, calls of services, and the settings.       *)
(***************************************************************************)
EXTENDS UserSettings

CONSTANTS
  Commands,    \* the commands that are run
  CanBeKilled  \* whether a process may be killed

Steps(c) ==
  CASE c = "login" -> Login
    [] c = "logout" -> Logout
    [] c = "dev-telerik-login" -> <<"telerikLogin">>
    [] c = "user" -> <<"getUser">>
    [] c = "build" -> <<"ensureLoggedIn">> \o Call
    [] c = "cloud list" -> TapCall \o TapCall
    [] c = "get setting" -> GetSettingValue \o GetSettingValue
    [] c = "save setting" -> SaveSettings
    [] c = "debug" -> SaveSettingsFile

ASSUME CommandsAssumption ==
  Commands \subseteq {"login", "logout", "dev-telerik-login", "user", "build", "cloud list",
                      "get setting", "save setting", "debug"}

Init ==
  /\ cookieFile = NoFile /\ userFile = NoFile /\ settingsFile = NoFile
  /\ cookies = [p \in Processes |-> None]
  /\ user = [p \in Processes |-> None]
  /\ settings = [p \in Processes |-> None]
  /\ command = [p \in Processes |-> "none"]
  /\ script = [p \in Processes |-> <<>>]
  /\ sent = [p \in Processes |-> None]
  /\ open = {}
  /\ account \in [Users -> Users \cup {None}]
  /\ \A u \in Users : account[u] \in {u, None}
  /\ mishaps = {}
  /\ loggedOut = "no"

LoggingIn(p) == \E i \in DOMAIN script[p] : script[p][i] = "writeUser"

(* A process starts. The debugger's window saves settings it has read. *)
Start(p, c) ==
  /\ command[p] = "none"
  /\ c = "debug" => settingsFile \in Users
  /\ command' = [command EXCEPT ![p] = c]
  /\ script' = [script EXCEPT ![p] = Steps(c)]
  /\ loggedOut' = IF c = "logout" /\ ~ \E q \in Processes : LoggingIn(q) THEN "begun" ELSE loggedOut
  /\ UNCHANGED <<mishaps, cookieData, userData, settingsData, server>>

Stop(p) ==
  /\ command' = [command EXCEPT ![p] = "none"]
  /\ script' = [script EXCEPT ![p] = <<>>]
  /\ cookies' = [cookies EXCEPT ![p] = None]
  /\ user' = [user EXCEPT ![p] = None]
  /\ settings' = [settings EXCEPT ![p] = None]
  /\ sent' = [sent EXCEPT ![p] = None]
  /\ UNCHANGED <<cookieFile, userFile, settingsFile, open, account>>

Completed(p, cs) == command[p] \in cs /\ script[p] = <<>>

Exit(p) ==
  /\ Ended(p)
  /\ mishaps' = IF Completed(p, {"login", "logout"}) THEN {} ELSE mishaps
  /\ loggedOut' = IF Completed(p, {"logout"}) /\ loggedOut = "begun" THEN "yes" ELSE loggedOut
  /\ Stop(p)

Kill(p) ==
  /\ CanBeKilled
  /\ command[p] # "none" /\ ~Ended(p)
  /\ mishaps' = mishaps \cup {"killed"}
  /\ loggedOut' = IF command[p] = "logout" THEN "no" ELSE loggedOut
  /\ Stop(p)

(* The server ends a session. *)
Expire(u) ==
  /\ u \in open
  /\ open' = open \ {u}
  /\ UNCHANGED <<sent, cookieData, userData, settingsData, history, command, script>>

ProgramStep(p) ==
  LoginDataStep(p) \/ CallStep(p) \/ LoginStep(p) \/ SettingsStep(p) \/ Exit(p)

Next ==
  \/ \E p \in Processes, c \in Commands : Start(p, c)
  \/ \E p \in Processes : ProgramStep(p)
  \/ \E p \in Processes : BrowserAnswers(p)
  \/ \E p \in Processes : Kill(p)
  \/ \E u \in Users : Expire(u)

(* A process goes on; the user at the browser need not. *)
Fairness == \A p \in Processes : WF_vars(ProgramStep(p))

Spec == Init /\ [][Next]_vars /\ Fairness

--------------------------------------------------------------------------
Requests == [session : Users, tenant : Users \cup {None}]

(* Types: a file that is written holds a user's data, and requests go with  *)
(* a session.                                                               *)
TypeOK ==
  /\ {cookieFile, userFile, settingsFile} \subseteq Users \cup {NoFile, Torn}
  /\ {cookies, user, settings} \subseteq [Processes -> Users \cup {None}]
  /\ command \in [Processes -> Commands \cup {"none"}]
  /\ sent \in [Processes -> Requests \cup {None}]
  /\ open \subseteq Users
  /\ account \in [Users -> Users \cup {None}]
  /\ mishaps \subseteq {"killed", "refused", "dev login"}
  /\ loggedOut \in {"no", "begun", "yes"}

Idle == \A p \in Processes : command[p] = "none"

Uninterrupted == {"killed", "dev login"} \cap mishaps = {}

(* When no command runs, the user file is of the user of the cookie, though *)
(* logins, logouts and refused calls change the two one after the other and *)
(* any of them may fail between - unless a process was killed, or           *)
(* dev-telerik-login was used, since the last complete login or logout.     *)
UserMatchesCookie == Idle /\ Uninterrupted /\ userFile # NoFile => userFile = cookieFile

(* The state is of its type, and the files on disk are of one user.         *)
FilesOfOneUser == TypeOK /\ UserMatchesCookie

(* Under the same conditions, a call that names a tenant names the one of   *)
(* the session it is sent with: makeTapServiceCall reads the user and       *)
(* `call` the cookies, each from a cache or a file.                         *)
TenantMatchesSession ==
  \A p \in Processes :
    Uninterrupted /\ sent[p] # None /\ sent[p].tenant # None => sent[p].tenant = sent[p].session

(* After a logout, nothing of the login is left until somebody logs in      *)
(* again, whatever other commands are tried, fail or are killed.            *)
LogoutStays == Idle /\ loggedOut = "yes" => cookieFile = NoFile /\ userFile = NoFile /\ settingsFile = NoFile

OwnSettings == \A u \in Users : account[u] \in {u, None}

(* The settings a command works with, and those it sends for an account,    *)
(* are that user's - unless a call was refused, a process killed, or        *)
(* dev-telerik-login used, since the last complete login or logout.  The    *)
(* settings file is not deleted when the server refuses the session.        *)
SettingsOfUser ==
  [][mishaps = {} /\ OwnSettings =>
       /\ OwnSettings'
       /\ \A p \in Processes :
            settings'[p] # None /\ cookies'[p] # None => settings'[p] = cookies'[p]]_vars

(* Without a terminal every command ends, also when nobody logs in.         *)
EveryCommandEnds == \A p \in Processes : command[p] # "none" ~> command[p] = "none"

==========================================================================
