--------------------------- MODULE UserSettings ---------------------------
(***************************************************************************)
(* The user's settings (lib/services/user-settings-service.ts): kept by    *)
(* the server, with a copy in the profile directory that is good for a     *)
(* day.  Of the settings the model keeps whose they are.                   *)
(***************************************************************************)
EXTENDS LoginManager

(* downloadUserSettings: the file is opened for writing before the call, so *)
(* a call that fails leaves it empty - and new.                             *)
Download == <<"openSettings">> \o Call \o <<"storeSettings">>

GetSettingValue == <<"ensureLoggedIn", "loadSettings">>

(* rawSettings.saveUserSettings. *)
Upload == <<"getCookies", "request", "keepSettings", "answer">>

(* saveSettings(data): downloaded, merged, sent, and written. *)
SaveSettings ==
  <<"ensureLoggedIn">> \o Download \o Upload \o <<"truncateSettings", "writeSettings">>

(* saveSettings({}), when the debugger's window has changed the file. *)
SaveSettingsFile == <<"ensureLoggedIn", "readSettings">> \o Upload

OpenSettings(p) ==
  /\ At(p, "openSettings") \/ At(p, "truncateSettings")
  /\ settingsFile' = Torn
  /\ Continue(p)
  /\ UNCHANGED <<settings, account, cookieData, userData, server, history, command>>

(* The answer is in the file, and read from it; 404 gives no settings. *)
StoreSettings(p) ==
  /\ At(p, "storeSettings")
  /\ settings' = [settings EXCEPT ![p] = account[cookies[p]]]
  /\ settingsFile' = IF account[cookies[p]] = None THEN Torn ELSE account[cookies[p]]
  /\ Continue(p)
  /\ UNCHANGED <<account, cookieData, userData, server, history, command>>

WriteSettings(p) ==
  /\ At(p, "writeSettings")
  /\ settingsFile' = IF settings[p] = None THEN cookies[p] ELSE settings[p]
  /\ Continue(p)
  /\ UNCHANGED <<settings, account, cookieData, userData, server, history, command>>

(* What an empty file has to say is nothing. *)
InSettingsFile == IF settingsFile \in Users THEN settingsFile ELSE None

(* loadUserSettingsFile: a file of the last day is read, one that is older  *)
(* or not there is downloaded.                                              *)
LoadSettings(p) ==
  /\ At(p, "loadSettings")
  /\ \/ settings[p] # None /\ Continue(p) /\ UNCHANGED settings
     \/ /\ settings[p] = None /\ settingsFile # NoFile
        /\ settings' = [settings EXCEPT ![p] = InSettingsFile]
        /\ Continue(p)
     \/ settings[p] = None /\ Insert(p, Download) /\ UNCHANGED settings
  /\ UNCHANGED <<settingsFile, account, cookieData, userData, server, history, command>>

ReadSettings(p) ==
  /\ At(p, "readSettings")
  /\ \/ settingsFile = NoFile /\ Throw(p) /\ UNCHANGED settings
     \/ /\ settingsFile # NoFile
        /\ settings' = [settings EXCEPT ![p] = InSettingsFile]
        /\ Continue(p)
  /\ UNCHANGED <<settingsFile, account, cookieData, userData, server, history, command>>

(* The server keeps what it is sent, if it accepts the session and nothing  *)
(* fails, whether its answer arrives or not; the one setting saved makes    *)
(* settings of the user's own where there were none.                        *)
KeepSettings(p) ==
  /\ At(p, "keepSettings")
  /\ \/ /\ sent[p].session \in open
        /\ account' = [account EXCEPT ![sent[p].session] =
                        IF settings[p] = None THEN sent[p].session ELSE settings[p]]
     \/ UNCHANGED account
  /\ Continue(p)
  /\ UNCHANGED <<settingsFile, settings, cookieData, userData, server, history, command>>

SettingsStep(p) ==
  OpenSettings(p) \/ StoreSettings(p) \/ WriteSettings(p) \/ LoadSettings(p)
    \/ ReadSettings(p) \/ KeepSettings(p)

==========================================================================
