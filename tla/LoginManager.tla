--------------------------- MODULE LoginManager ---------------------------
(***************************************************************************)
(* LoginManager (lib/login.ts): login in a browser, logout, and the check  *)
(* with which other commands begin.                                        *)
(***************************************************************************)
EXTENDS ServiceProxy

CONSTANT Interactive  \* whether the CLI runs in a terminal

ASSUME InteractiveAssumption == Interactive \in BOOLEAN

(* As if login overwrote what there was. *)
LocalLogoutSettingsOnly == <<"deleteSettings">>

(* As if the settings were not part of the login. *)
LocalLogoutKeepsSettings == ClearLoginData

LocalLogout == ClearLoginData \o <<"deleteSettings">>

(* The session is kept before getLoggedInUser, which needs it. *)
FinishLogin == SetCookies \o Call \o SetUser

DoLogin == <<"browser">> \o FinishLogin

Logout == LocalLogout

Login == LocalLogout \o DoLogin

(* deleteUserSettingsFile. *)
DeleteSettings(p) ==
  /\ At(p, "deleteSettings")
  /\ settingsFile' = NoFile
  /\ ContinueDeleting(p, "writeSettings")
  /\ UNCHANGED <<settings, account, cookieData, userData, server, history, command>>

(* The user logs in, in the browser, as whoever it is; the browser brings   *)
(* the session to the local server.                                         *)
BrowserAnswers(p) ==
  /\ At(p, "browser")
  /\ \E u \in Users :
       /\ cookies' = [cookies EXCEPT ![p] = u]
       /\ open' = open \cup {u}
  /\ loggedOut' = "no"
  /\ Continue(p)
  /\ UNCHANGED <<cookieFile, sent, mishaps, userData, settingsData, command>>

(* As if the timer were for the user at a terminal. *)
BrowserTimeoutInteractive(p) ==
  /\ At(p, "browser")
  /\ Interactive
  /\ Throw(p)
  /\ UNCHANGED <<cookieData, userData, settingsData, server, history, command>>

(* Nobody does.  Without a terminal the process exits after a time. *)
BrowserTimeout(p) ==
  /\ At(p, "browser")
  /\ ~Interactive
  /\ Throw(p)
  /\ UNCHANGED <<cookieData, userData, settingsData, server, history, command>>

(* ensureLoggedIn: only whether there is a cookie; a login that follows     *)
(* deletes nothing first.  A cookie file that does not parse is cleared.    *)
EnsureLoggedIn(p) ==
  /\ At(p, "ensureLoggedIn")
  /\ \/ cookies[p] # None /\ Continue(p) /\ UNCHANGED cookies
     \/ /\ cookies[p] = None /\ cookieFile \in Users
        /\ cookies' = [cookies EXCEPT ![p] = cookieFile]
        /\ Continue(p)
     \/ cookies[p] = None /\ cookieFile = NoFile /\ Insert(p, DoLogin) /\ UNCHANGED cookies
     \/ /\ cookies[p] = None /\ cookieFile = Torn
        /\ Insert(p, ClearLoginData \o DoLogin)
        /\ UNCHANGED cookies
  /\ UNCHANGED <<cookieFile, userData, settingsData, server, history, command>>

(* telerikLogin, behind dev-telerik-login: a login that deletes nothing     *)
(* first, and that succeeds silently when the server gives no cookie.       *)
TelerikLogin(p) ==
  /\ At(p, "telerikLogin")
  /\ \/ \E u \in Users :
          /\ cookies' = [cookies EXCEPT ![p] = u]
          /\ open' = open \cup {u}
          /\ loggedOut' = "no"
          /\ mishaps' = mishaps \cup {"dev login"}
          /\ Insert(p, FinishLogin)
     \/ Continue(p) /\ UNCHANGED <<cookies, open, loggedOut, mishaps>>
     \/ Throw(p) /\ UNCHANGED <<cookies, open, loggedOut, mishaps>>
  /\ UNCHANGED <<cookieFile, sent, userData, settingsData, command>>

LoginStep(p) ==
  DeleteSettings(p) \/ BrowserTimeout(p) \/ EnsureLoggedIn(p) \/ TelerikLogin(p)

==========================================================================
