--------------------------- MODULE ServiceProxy ---------------------------
(***************************************************************************)
(* A call of a service (lib/service-util.ts): the cookie goes with the     *)
(* request, an answer may bring a new one, and an answer 401 logs the user *)
(* out.  A call through makeTapServiceCall also names the user's tenant.   *)
(***************************************************************************)
EXTENDS LoginData

Call == <<"getCookies", "request", "answer">>

TapCall == <<"getUser", "getCookies", "tapRequest", "answer">>

(* The request leaves with what the caches hold - unless the CLI itself is  *)
(* outdated (ensureUpToDate).                                               *)
SendRequest(p) ==
  /\ \/ At(p, "request") /\ sent' = [sent EXCEPT ![p] = [session |-> cookies[p], tenant |-> None]]
     \/ At(p, "tapRequest") /\ sent' = [sent EXCEPT ![p] = [session |-> cookies[p], tenant |-> user[p]]]
  /\ Continue(p)
  /\ UNCHANGED <<open, cookieData, userData, settingsData, history, command>>

Outdated(p) ==
  /\ At(p, "request") \/ At(p, "tapRequest")
  /\ Throw(p)
  /\ UNCHANGED <<cookieData, userData, settingsData, server, history, command>>

(* An answer without or with set-cookie, which is added to the cookies the  *)
(* request was sent with - the object in the cache.                         *)
Answered(p) ==
  /\ At(p, "answer")
  /\ sent[p].session \in open
  /\ sent' = [sent EXCEPT ![p] = None]
  /\ Continue(p) \/ Insert(p, SetCookies)
  /\ UNCHANGED <<open, cookieData, userData, settingsData, history, command>>

Refused(p) ==
  /\ At(p, "answer")
  /\ sent[p].session \notin open
  /\ sent' = [sent EXCEPT ![p] = None]
  /\ script' = [script EXCEPT ![p] = ClearLoginData \o <<"throw">>]
  /\ mishaps' = mishaps \cup {"refused"}
  /\ UNCHANGED <<open, loggedOut, cookieData, userData, settingsData, command>>

(* No answer, or any other error. *)
CallFails(p) ==
  /\ At(p, "answer")
  /\ sent' = [sent EXCEPT ![p] = None]
  /\ Throw(p)
  /\ UNCHANGED <<open, cookieData, userData, settingsData, history, command>>

CallStep(p) == SendRequest(p) \/ Outdated(p) \/ Answered(p) \/ Refused(p) \/ CallFails(p)

==========================================================================
