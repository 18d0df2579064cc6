---------------------------- MODULE LoginData -----------------------------
(***************************************************************************)
(* What the CLI remembers of who is logged in (UserDataStore, lib/login.ts) *)
(* - a cookie file and a user file in the profile directory, shared by all  *)
(* running processes, and a copy of each in every process - and how a      *)
(* command runs: a script of steps, each one asynchronous call long.        *)
(* Between two steps other processes run, or the process is killed.         *)
(*                                                                         *)
(* A session is told from another by its user only: a cookie file holds    *)
(* the user whose session it is.  A user's tenant is the user.              *)
(***************************************************************************)
EXTENDS Naturals, Sequences

CONSTANTS
  Processes,  \* processes that may run at the same time
  Users,      \* accounts of the Telerik Platform
  NoFile,     \* a file that does not exist
  Torn,       \* a file opened for writing whose content is not there yet
  None        \* a cache that is empty, a header that is not sent

ASSUME UsersAssumption == NoFile \notin Users /\ Torn \notin Users /\ None \notin Users
ASSUME FilesAssumption == NoFile # Torn

VARIABLES
  cookieFile, userFile, settingsFile,  \* the profile directory
  cookies, user, settings,             \* the caches of each process
  command, script,                     \* what each process runs, and its steps left
  sent,                                \* the request each process waits for
  open,                                \* sessions the server accepts
  account,                             \* whose settings the server keeps for each user
  mishaps,                             \* what went wrong since the last login or logout
  loggedOut                            \* a logout began, or ended, and nobody logs in since

cookieData == <<cookieFile, cookies>>
userData == <<userFile, user>>
settingsData == <<settingsFile, settings, account>>
server == <<open, sent>>
history == <<mishaps, loggedOut>>
vars == <<cookieData, userData, settingsData, server, history, command, script>>

--------------------------------------------------------------------------
At(p, step) == script[p] # <<>> /\ Head(script[p]) = step

Continue(p) == script' = [script EXCEPT ![p] = Tail(@)]

Insert(p, steps) == script' = [script EXCEPT ![p] = steps \o Tail(@)]

(* An error is thrown out of the command. *)
Throw(p) == script' = [script EXCEPT ![p] = <<"throw">>]

Ended(p) == command[p] # "none" /\ script[p] \in {<<>>, <<"throw">>}

(* A file is deleted: what another process was about to write is lost. *)
ContinueDeleting(p, write) ==
  script' = [q \in Processes |->
    IF q = p \/ (script[q] # <<>> /\ Head(script[q]) = write) THEN Tail(script[q]) ELSE script[q]]

--------------------------------------------------------------------------
(* As if the user's file could stay: it is of no use without a cookie. *)
ClearCookieOnly == <<"deleteCookie">>

ClearLoginData == <<"deleteCookie", "deleteUser">>

(* setCookies(cookies): the cache at once, then the file, which $fs opens   *)
(* for writing before it writes.                                            *)
SetCookies == <<"truncateCookie", "writeCookie">>

TruncateCookie(p) ==
  /\ At(p, "truncateCookie")
  /\ cookieFile' = Torn
  /\ Continue(p)
  /\ UNCHANGED <<cookies, userData, settingsData, server, history, command>>

WriteCookie(p) ==
  /\ At(p, "writeCookie")
  /\ cookieFile' = cookies[p]
  /\ Continue(p)
  /\ UNCHANGED <<cookies, userData, settingsData, server, history, command>>

(* setUser(user), with the answer of getLoggedInUser. *)
SetUser == <<"truncateUser", "writeUser">>

TruncateUser(p) ==
  /\ At(p, "truncateUser")
  /\ user' = [user EXCEPT ![p] = cookies[p]]
  /\ userFile' = Torn
  /\ Continue(p)
  /\ UNCHANGED <<cookieData, settingsData, server, history, command>>

WriteUser(p) ==
  /\ At(p, "writeUser")
  /\ userFile' = user[p]
  /\ Continue(p)
  /\ UNCHANGED <<user, cookieData, settingsData, server, history, command>>

(* As if only the cache were cleared. *)
DeleteCookieCached(p) ==
  /\ At(p, "deleteCookie")
  /\ cookies' = [cookies EXCEPT ![p] = None]
  /\ Continue(p)
  /\ UNCHANGED <<cookieFile, userData, settingsData, server, history, command>>

(* setCookies(null), setUser(null): the file need not exist. *)
DeleteCookie(p) ==
  /\ At(p, "deleteCookie")
  /\ cookies' = [cookies EXCEPT ![p] = None]
  /\ cookieFile' = NoFile
  /\ ContinueDeleting(p, "writeCookie")
  /\ UNCHANGED <<userData, settingsData, server, history, command>>

DeleteUser(p) ==
  /\ At(p, "deleteUser")
  /\ user' = [user EXCEPT ![p] = None]
  /\ userFile' = NoFile
  /\ ContinueDeleting(p, "writeUser")
  /\ UNCHANGED <<cookieData, settingsData, server, history, command>>

(* readAndCache: the cache, else the file; "Not logged in." without one,    *)
(* and a file that does not parse logs the user out.                        *)
GetCookies(p) ==
  /\ At(p, "getCookies")
  /\ \/ cookies[p] # None /\ Continue(p) /\ UNCHANGED cookies
     \/ /\ cookies[p] = None /\ cookieFile \in Users
        /\ cookies' = [cookies EXCEPT ![p] = cookieFile]
        /\ Continue(p)
     \/ cookies[p] = None /\ cookieFile = NoFile /\ Throw(p) /\ UNCHANGED cookies
     \/ /\ cookies[p] = None /\ cookieFile = Torn
        /\ script' = [script EXCEPT ![p] = ClearLoginData \o <<"throw">>]
        /\ UNCHANGED cookies
  /\ UNCHANGED <<cookieFile, userData, settingsData, server, history, command>>

GetUser(p) ==
  /\ At(p, "getUser")
  /\ \/ user[p] # None /\ Continue(p) /\ UNCHANGED user
     \/ /\ user[p] = None /\ userFile \in Users
        /\ user' = [user EXCEPT ![p] = userFile]
        /\ Continue(p)
     \/ user[p] = None /\ userFile = NoFile /\ Throw(p) /\ UNCHANGED user
     \/ /\ user[p] = None /\ userFile = Torn
        /\ script' = [script EXCEPT ![p] = ClearLoginData \o <<"throw">>]
        /\ UNCHANGED user
  /\ UNCHANGED <<userFile, cookieData, settingsData, server, history, command>>

LoginDataStep(p) ==
  \/ TruncateCookie(p) \/ WriteCookie(p) \/ DeleteCookie(p) \/ GetCookies(p)
  \/ TruncateUser(p) \/ WriteUser(p) \/ DeleteUser(p) \/ GetUser(p)

==========================================================================
