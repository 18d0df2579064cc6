--------------------------- MODULE SessionProofs ---------------------------
(***************************************************************************)
(* Proofs about Session, for any users and commands, where one process     *)
(* runs at a time: the files are of one user, a call names the tenant of   *)
(* its session, a logout stays, and settings are the user's.               *)
(***************************************************************************)
EXTENDS Session, SequenceTheorems, TLAPS

OneProcess == \E p : Processes = {p}
CLI == CHOOSE p \in Processes : TRUE

--------------------------------------------------------------------------
(* The steps a script is made of: those that happen only when the cookies  *)
(* of a user are in the cache ...                                          *)
NeedsCookies ==
  {"truncateCookie", "writeCookie", "truncateUser", "writeUser", "request", "tapRequest", "answer", "keepSettings",
   "openSettings", "storeSettings", "truncateSettings", "writeSettings", "loadSettings", "readSettings"}

AllSteps ==
  NeedsCookies \cup {"getCookies", "getUser", "deleteCookie", "deleteUser", "deleteSettings", "browser",
                     "telerikLogin", "ensureLoggedIn", "throw"}

(* ... what may come somewhere before each of them ...                     *)
Deletes == {"deleteCookie", "deleteUser", "deleteSettings"}

Before(step) ==
  CASE step \in {"deleteCookie", "telerikLogin"} -> {}
    [] step = "deleteUser" -> {"deleteCookie"}
    [] step = "deleteSettings" -> {"deleteCookie", "deleteUser"}
    [] step = "browser" -> Deletes
    [] step = "truncateCookie" -> Deletes \cup {"browser"}
    [] step = "writeCookie" -> Deletes \cup {"browser", "truncateCookie"}
    [] step = "truncateUser" ->
         Deletes \cup {"browser", "truncateCookie", "writeCookie", "getCookies", "request", "answer"}
    [] step = "writeUser" ->
         Deletes \cup {"browser", "truncateCookie", "writeCookie", "getCookies", "request", "answer", "truncateUser"}
    [] step = "keepSettings" -> AllSteps \ {"writeSettings"}
    [] step \in {"storeSettings", "readSettings"} -> AllSteps \ {"keepSettings"}
    [] OTHER -> AllSteps

(* ... and what may come next; the steps of Unfinished are never the last. *)
Unfinished == {"deleteCookie", "browser", "truncateCookie", "truncateUser"}

After(step) ==
  CASE step = "deleteCookie" -> {"deleteUser"}
    [] step = "browser" -> {"truncateCookie"}
    [] step = "truncateCookie" -> {"writeCookie"}
    [] step = "truncateUser" -> {"writeUser"}
    [] step = "request" -> {"answer", "keepSettings"}
    [] step \in {"tapRequest", "keepSettings"} -> {"answer"}
    [] step \in {"deleteUser", "deleteSettings", "getUser", "telerikLogin", "throw"} -> AllSteps \ NeedsCookies
    [] OTHER -> AllSteps \ {"answer", "keepSettings", "writeUser"}

Scripted(s) ==
  /\ s \in Seq(AllSteps)
  /\ \A i, j \in 1..Len(s) : i < j => s[i] \in Before(s[j])
  /\ \A i \in 1..Len(s) : IF i = Len(s) THEN s[i] \notin Unfinished ELSE s[i + 1] \in After(s[i])

(* As much of it as need not be all. *)
Begins(s) ==
  /\ s \in Seq(AllSteps)
  /\ \A i, j \in 1..Len(s) : i < j => s[i] \in Before(s[j])
  /\ \A i \in 1..Len(s) : i # Len(s) => s[i + 1] \in After(s[i])

StepsOf(s) == {s[i] : i \in 1..Len(s)}

Now == IF script[CLI] = <<>> THEN "none" ELSE Head(script[CLI])
Left == StepsOf(script[CLI])

--------------------------------------------------------------------------
(* The type invariant, and what a step finds that others made ready. *)
TypeInv ==
  /\ TypeOK
  /\ script \in [Processes -> Seq(AllSteps)] /\ Scripted(script[CLI])
  /\ command[CLI] = "none" =>
       /\ script[CLI] = <<>>
       /\ cookies[CLI] = None /\ user[CLI] = None /\ settings[CLI] = None /\ sent[CLI] = None
  /\ Now \in NeedsCookies => cookies[CLI] \in Users
  /\ Now \in {"answer", "keepSettings"} => sent[CLI] \in Requests /\ sent[CLI].session = cookies[CLI]
  /\ Now = "writeUser" => user[CLI] = cookies[CLI]

(* What login and logout have deleted. *)
Fresh == command[CLI] \in {"login", "logout"}
LoginSteps ==
  Deletes \cup {"browser", "truncateCookie", "writeCookie", "getCookies", "request", "answer", "truncateUser",
                "writeUser", "throw"}

FreshInv ==
  /\ Fresh => Left \subseteq LoginSteps
  /\ "deleteSettings" \in Left => Fresh
  /\ Fresh => "deleteSettings" \in Left \/ settingsFile = NoFile
  /\ Fresh => settings[CLI] = None
  /\ command[CLI] = "logout" =>
       /\ Left \subseteq Deletes
       /\ "deleteCookie" \in Left \/ (cookieFile = NoFile /\ cookies[CLI] = None)
       /\ "deleteUser" \in Left \/ userFile = NoFile

(* Whose session it is: the cookies are those of the file, or about to be   *)
(* written there.                                                          *)
Owner == IF "writeCookie" \in Left THEN cookies[CLI] ELSE cookieFile

OwnerInv ==
  /\ cookies[CLI] # None => Owner = cookies[CLI]
  /\ "browser" \in Left /\ "deleteCookie" \notin Left => cookies[CLI] = None /\ cookieFile = NoFile
  /\ "browser" \in Left => {"writeCookie", "writeUser"} \subseteq Left
  /\ mishaps = {} /\ "deleteCookie" \in Left => Fresh
  /\ (Uninterrupted \/ Fresh) /\ {"deleteCookie", "writeCookie"} \cap Left = {} => cookieFile # Torn

(* The user is the owner, unless it is going to be deleted or written. *)
UserInv ==
  "deleteUser" \notin Left /\ Now # "writeUser" =>
    /\ Uninterrupted \/ Fresh => userFile = NoFile \/ ("writeUser" \notin Left /\ userFile = Owner)
    /\ user[CLI] # None => userFile = user[CLI]

(* After a logout nothing is left that a step could start from. *)
LogoutInv ==
  /\ loggedOut = "begun" => command[CLI] = "logout"
  /\ loggedOut = "yes" =>
       /\ cookieFile = NoFile /\ userFile = NoFile /\ settingsFile = NoFile
       /\ cookies[CLI] = None

(* The settings on disk and in memory are the owner's or what the server    *)
(* has for the owner.                                                      *)
OwnedBy(whose, u) == u \in Users /\ whose \in {u, account[u]}

SettingsInv ==
  /\ settings[CLI] # None =>
       \/ cookies[CLI] \in Users /\ Left \cap {"browser", "telerikLogin", "deleteUser"} = {}
       \/ Left \subseteq {"deleteCookie", "deleteUser", "throw"}
  /\ (mishaps = {} \/ Fresh) /\ "deleteSettings" \notin Left /\ settingsFile \in Users => OwnedBy(settingsFile, Owner)
  /\ mishaps = {} /\ settings[CLI] # None /\ cookies[CLI] # None =>
       OwnedBy(settings[CLI], cookies[CLI]) /\ settingsFile \in {settings[CLI], Torn}
  /\ mishaps = {} /\ "keepSettings" \in Left =>
       {"storeSettings", "readSettings"} \cap Left # {} \/ settings[CLI] # None \/ settingsFile \notin Users

IInv ==
  /\ TypeInv /\ FreshInv /\ OwnerInv /\ UserInv /\ LogoutInv /\ SettingsInv
  /\ TenantMatchesSession

--------------------------------------------------------------------------
(* The process. *)
LEMMA TheProcess ==
  ASSUME OneProcess
  PROVE  CLI \in Processes /\ \A p \in Processes : p = CLI
BY DEF OneProcess, CLI

(* A script goes on with its tail ... *)
LEMMA TailScripted ==
  ASSUME NEW s, Scripted(s), s # <<>>
  PROVE  /\ Scripted(Tail(s)) /\ Head(s) \in AllSteps /\ Head(s) \in StepsOf(s)
         /\ \A x : x \in StepsOf(s) => x = Head(s) \/ x \in StepsOf(Tail(s))
         /\ \A x \in StepsOf(Tail(s)) : x \in StepsOf(s) /\ Head(s) \in Before(x)
         /\ IF Tail(s) = <<>> THEN Head(s) \notin Unfinished ELSE Head(Tail(s)) \in After(Head(s))
<1> DEFINE t == Tail(s)
<1>1. s \in Seq(AllSteps) /\ Len(s) \in Nat /\ Len(s) > 0 /\ t \in Seq(AllSteps)
  BY LenProperties, EmptySeq, HeadTailProperties DEF Scripted
<1>2. /\ Len(t) = Len(s) - 1 /\ \A i \in 1..Len(t) : t[i] = s[i + 1]
      /\ Head(s) = s[1]
  BY <1>1, HeadTailProperties
<1>0. t = <<>> <=> Len(t) = 0
  BY <1>1, EmptySeq
<1> HIDE DEF t
<1>3. s[1] \in AllSteps
  BY <1>1
<1>4. Scripted(t)
  <2>1. ASSUME NEW i \in 1..Len(t), NEW j \in 1..Len(t), i < j
        PROVE  t[i] \in Before(t[j])
    <3>1. i + 1 \in 1..Len(s) /\ j + 1 \in 1..Len(s) /\ i + 1 < j + 1
      BY <2>1, <1>1, <1>2
    <3> QED
      BY <3>1, <1>2 DEF Scripted
  <2>2. ASSUME NEW i \in 1..Len(t)
        PROVE  IF i = Len(t) THEN t[i] \notin Unfinished ELSE t[i + 1] \in After(t[i])
    <3>1. i + 1 \in 1..Len(s) /\ (i # Len(t) => i + 1 \in 1..Len(t) /\ i + 1 # Len(s))
      BY <2>2, <1>1, <1>2
    <3>2. IF i + 1 = Len(s) THEN s[i + 1] \notin Unfinished ELSE s[(i + 1) + 1] \in After(s[i + 1])
      BY <3>1 DEF Scripted
    <3> QED
      BY <3>1, <3>2, <1>1, <1>2
  <2> QED
    BY <1>1, <2>1, <2>2 DEF Scripted
<1>5. ASSUME NEW x, x \in StepsOf(s)
      PROVE  x = Head(s) \/ x \in StepsOf(t)
  <2>1. PICK i \in 1..Len(s) : x = s[i]
    BY <1>5 DEF StepsOf
  <2>2. CASE i = 1
    BY <2>1, <2>2, <1>2
  <2>3. CASE i # 1
    <3>1. i - 1 \in 1..Len(t) /\ (i - 1) + 1 = i
      BY <2>3, <1>1, <1>2
    <3> QED
      BY <3>1, <2>1, <1>2 DEF StepsOf
  <2> QED
    BY <2>2, <2>3
<1>6. ASSUME NEW x \in StepsOf(t)
      PROVE  x \in StepsOf(s) /\ Head(s) \in Before(x)
  <2>1. PICK i \in 1..Len(t) : x = t[i]
    BY DEF StepsOf
  <2>2. i + 1 \in 1..Len(s) /\ 1 \in 1..Len(s) /\ 1 < i + 1
    BY <1>1, <1>2
  <2> QED
    BY <2>1, <2>2, <1>2 DEF StepsOf, Scripted
<1>7. IF t = <<>> THEN Head(s) \notin Unfinished ELSE Head(t) \in After(Head(s))
  <2>1. CASE t = <<>>
    <3>1. Len(s) = 1
      BY <2>1, <1>1, <1>2, <1>0
    <3> QED
      BY <3>1, <2>1, <1>2 DEF Scripted
  <2>2. CASE t # <<>>
    <3>1. Len(t) # 0
      BY <2>2, <1>0
    <3>2. Len(s) # 1 /\ 1 \in 1..Len(t) /\ 1 \in 1..Len(s)
      BY <3>1, <1>1, <1>2
    <3>3. Head(t) = t[1]
      BY <2>2, <1>1, HeadTailProperties
    <3>4. s[1 + 1] \in After(s[1])
      BY <3>2 DEF Scripted
    <3> QED
      BY <2>2, <3>2, <3>3, <3>4, <1>2
  <2> QED
    BY <2>1, <2>2
<1>8. Head(s) \in StepsOf(s)
  <2>1. 1 \in 1..Len(s)
    BY <1>1
  <2> QED
    BY <2>1, <1>2 DEF StepsOf
<1> QED
  BY <1>2, <1>3, <1>4, <1>5, <1>6, <1>7, <1>8 DEF t

(* ... and after some steps that are inserted before it. *)
LEMMA JoinScripted ==
  ASSUME NEW b, NEW t, Begins(b), b # <<>>, Scripted(t),
         \A x \in StepsOf(b), y \in StepsOf(t) : x \in Before(y),
         IF t = <<>> THEN b[Len(b)] \notin Unfinished ELSE Head(t) \in After(b[Len(b)])
  PROVE  /\ Scripted(b \o t) /\ b \o t # <<>> /\ Head(b \o t) = Head(b)
         /\ StepsOf(b \o t) = StepsOf(b) \cup StepsOf(t)
<1> DEFINE s == b \o t
<1>1. /\ b \in Seq(AllSteps) /\ t \in Seq(AllSteps) /\ s \in Seq(AllSteps)
      /\ Len(b) \in Nat /\ Len(b) > 0 /\ Len(t) \in Nat
  BY LenProperties, EmptySeq, ConcatProperties DEF Scripted, Begins
<1>2. /\ Len(s) = Len(b) + Len(t)
      /\ \A i \in 1..Len(s) : s[i] = IF i <= Len(b) THEN b[i] ELSE t[i - Len(b)]
  BY <1>1, ConcatProperties
<1>3. Head(b) = b[1] /\ s # <<>> /\ Head(s) = s[1]
  BY <1>1, <1>2, HeadTailProperties, EmptySeq
<1> HIDE DEF s
<1>4. ASSUME NEW i \in 1..Len(s), NEW j \in 1..Len(s), i < j
      PROVE  s[i] \in Before(s[j])
  <2>1. CASE j <= Len(b)
    <3>1. i \in 1..Len(b) /\ j \in 1..Len(b)
      BY <1>1, <1>2, <1>4, <2>1
    <3> QED
      BY <3>1, <1>1, <1>2, <1>4 DEF Scripted, Begins
  <2>2. CASE i > Len(b)
    <3>1. i - Len(b) \in 1..Len(t) /\ j - Len(b) \in 1..Len(t) /\ i - Len(b) < j - Len(b)
      BY <1>1, <1>2, <1>4, <2>2
    <3>2. s[i] = t[i - Len(b)] /\ s[j] = t[j - Len(b)]
      BY <1>1, <1>2, <1>4, <2>2
    <3> QED
      BY <3>1, <3>2 DEF Scripted, Begins
  <2>3. CASE i <= Len(b) /\ j > Len(b)
    <3>1. i \in 1..Len(b) /\ j - Len(b) \in 1..Len(t)
      BY <1>1, <1>2, <1>4, <2>3
    <3>2. s[i] = b[i] /\ s[j] = t[j - Len(b)]
      BY <1>1, <1>2, <1>4, <2>3
    <3> QED
      BY <3>1, <3>2 DEF StepsOf
  <2> QED
    BY <1>1, <2>1, <2>2, <2>3
<1>5. ASSUME NEW i \in 1..Len(s)
      PROVE  IF i = Len(s) THEN s[i] \notin Unfinished ELSE s[i + 1] \in After(s[i])
  <2>1. CASE i < Len(b)
    <3>1. i \in 1..Len(b) /\ i # Len(b) /\ i # Len(s) /\ i + 1 \in 1..Len(s) /\ i + 1 <= Len(b)
      BY <1>1, <1>2, <2>1
    <3>2. b[i + 1] \in After(b[i])
      BY <3>1 DEF Scripted, Begins
    <3> QED
      BY <3>1, <3>2, <1>1, <1>2
  <2>2. CASE i = Len(b) /\ t = <<>>
    <3>1. i = Len(s) /\ s[i] = b[i] /\ i \in 1..Len(b)
      BY <1>1, <1>2, <2>2, EmptySeq
    <3> QED
      BY <3>1, <2>2 DEF Scripted, Begins
  <2>3. CASE i = Len(b) /\ t # <<>>
    <3>1. Len(t) # 0 /\ Head(t) = t[1]
      BY <1>1, <2>3, EmptySeq, HeadTailProperties
    <3>2. i # Len(s) /\ i + 1 \in 1..Len(s) /\ ~(i + 1 <= Len(b)) /\ (i + 1) - Len(b) = 1
      BY <1>1, <1>2, <2>3, <3>1
    <3>3. s[i + 1] = t[1] /\ s[i] = b[Len(b)]
      BY <1>1, <1>2, <2>3, <3>2
    <3> QED
      BY <3>1, <3>2, <3>3, <2>3
  <2>4. CASE i > Len(b)
    <3>1. i - Len(b) \in 1..Len(t) /\ (i = Len(s) <=> i - Len(b) = Len(t)) /\ s[i] = t[i - Len(b)]
      BY <1>1, <1>2, <2>4
    <3>4. Len(s) \in Nat /\ i \in Nat /\ i <= Len(s)
      BY <1>1, <1>2
    <3>5. (i + 1) - Len(b) = (i - Len(b)) + 1 /\ ~(i + 1 <= Len(b))
      BY <1>1, <2>4, <3>4
    <3>3. i # Len(s) => i + 1 \in 1..Len(s) /\ (i + 1) - Len(b) = (i - Len(b)) + 1 /\ ~(i + 1 <= Len(b))
      BY <3>4, <3>5
    <3>2. i # Len(s) => s[i + 1] = t[(i - Len(b)) + 1]
      BY <1>2, <3>3
    <3> QED
      BY <3>1, <3>2 DEF Scripted, Begins
  <2> QED
    BY <1>1, <2>1, <2>2, <2>3, <2>4
<1>6. Scripted(s)
  BY <1>1, <1>4, <1>5 DEF Scripted, Begins
<1>7. \A x : x \in StepsOf(s) <=> x \in StepsOf(b) \/ x \in StepsOf(t)
  <2>1. ASSUME NEW x, x \in StepsOf(s)
        PROVE  x \in StepsOf(b) \/ x \in StepsOf(t)
    <3>1. PICK i \in 1..Len(s) : x = s[i]
      BY <2>1 DEF StepsOf
    <3>2. i \in 1..Len(b) \/ (i > Len(b) /\ i - Len(b) \in 1..Len(t))
      BY <1>1, <1>2
    <3> QED
      BY <1>1, <1>2, <3>1, <3>2 DEF StepsOf
  <2>2. ASSUME NEW x, x \in StepsOf(b)
        PROVE  x \in StepsOf(s)
    <3>1. PICK i \in 1..Len(b) : x = b[i]
      BY <2>2 DEF StepsOf
    <3>2. i \in 1..Len(s) /\ s[i] = b[i]
      BY <1>1, <1>2
    <3> QED
      BY <3>1, <3>2 DEF StepsOf
  <2>3. ASSUME NEW x, x \in StepsOf(t)
        PROVE  x \in StepsOf(s)
    <3>1. PICK i \in 1..Len(t) : x = t[i]
      BY <2>3 DEF StepsOf
    <3>2. i + Len(b) \in 1..Len(s) /\ (i + Len(b)) - Len(b) = i /\ ~(i + Len(b) <= Len(b))
      BY <1>1, <1>2
    <3>3. s[i + Len(b)] = t[i]
      BY <1>2, <3>2
    <3> QED
      BY <3>1, <3>2, <3>3 DEF StepsOf
  <2> QED
    BY <2>1, <2>2, <2>3
<1>8. s[1] = b[1]
  <2>1. 1 \in 1..Len(s) /\ 1 <= Len(b)
    BY <1>1, <1>2
  <2> QED
    BY <2>1, <1>2
<1> QED
  BY <1>3, <1>6, <1>7, <1>8 DEF s

(* A script with its first step, its last, and all of its steps. *)
Block(s, first, last, steps) ==
  Begins(s) /\ s # <<>> /\ Head(s) = first /\ s[Len(s)] = last /\ StepsOf(s) = steps

LEMMA BlockScripted ==
  ASSUME NEW s, NEW f, NEW l, NEW S, Block(s, f, l, S), l \notin Unfinished
  PROVE  Scripted(s)
BY DEF Block, Begins, Scripted

LEMMA ScriptedBegins == ASSUME NEW s, Scripted(s) PROVE Begins(s)
BY DEF Scripted, Begins

LEMMA JoinBlocks ==
  ASSUME NEW b, NEW t, NEW f, NEW m, NEW S, NEW g, NEW l, NEW T,
         Block(b, f, m, S), Block(t, g, l, T),
         \A x \in S, y \in T : x \in Before(y), g \in After(m), l \notin Unfinished
  PROVE  Block(b \o t, f, l, S \cup T)
<1>1. Scripted(b \o t) /\ b \o t # <<>> /\ Head(b \o t) = f /\ StepsOf(b \o t) = S \cup T
  BY BlockScripted, JoinScripted DEF Block
<1>2. /\ b \in Seq(AllSteps) /\ t \in Seq(AllSteps) /\ Len(b) \in Nat /\ Len(t) \in Nat /\ Len(t) > 0
  BY LenProperties, EmptySeq DEF Begins, Block
<1>3. /\ Len(b \o t) = Len(b) + Len(t)
      /\ \A i \in 1..(Len(b) + Len(t)) : (b \o t)[i] = IF i <= Len(b) THEN b[i] ELSE t[i - Len(b)]
  BY <1>2, ConcatProperties
<1>4. Len(b) + Len(t) \in 1..(Len(b) + Len(t)) /\ ~(Len(b) + Len(t) <= Len(b)) /\ (Len(b) + Len(t)) - Len(b) = Len(t)
  BY <1>2
<1>5. (b \o t)[Len(b \o t)] = l
  BY <1>3, <1>4 DEF Block
<1> QED
  BY <1>1, <1>5, ScriptedBegins DEF Block

LEMMA NothingScripted == Scripted(<<>>) /\ StepsOf(<<>>) = {}
BY EmptySeq DEF Scripted, StepsOf

(* The scripts of the functions. *)
LEMMA OneStep ==
  ASSUME NEW x \in AllSteps
  PROVE  Block(<<x>>, x, x, {x})
BY DEF Block, Begins, StepsOf

LEMMA SetCookiesBlock == Block(SetCookies, "truncateCookie", "writeCookie", {"truncateCookie", "writeCookie"})
BY DEF Block, SetCookies, Begins, StepsOf, AllSteps, NeedsCookies, Before, After, Unfinished, Deletes

LEMMA SetUserBlock == Block(SetUser, "truncateUser", "writeUser", {"truncateUser", "writeUser"})
BY DEF Block, SetUser, Begins, StepsOf, AllSteps, NeedsCookies, Before, After, Unfinished, Deletes

LEMMA CallBlock == Block(Call, "getCookies", "answer", {"getCookies", "request", "answer"})
BY DEF Block, Call, Begins, StepsOf, AllSteps, NeedsCookies, Before, After, Unfinished, Deletes

LEMMA TapCallBlock == Block(TapCall, "getUser", "answer", {"getUser", "getCookies", "tapRequest", "answer"})
BY DEF Block, TapCall, Begins, StepsOf, AllSteps, NeedsCookies, Before, After, Unfinished, Deletes

LEMMA ClearBlock == Block(ClearLoginData, "deleteCookie", "deleteUser", {"deleteCookie", "deleteUser"})
BY DEF Block, ClearLoginData, Begins, StepsOf, AllSteps, NeedsCookies, Before, After, Unfinished, Deletes

FinishSteps == {"truncateCookie", "writeCookie"} \cup {"getCookies", "request", "answer"} \cup {"truncateUser", "writeUser"}

LEMMA FinishLoginBlock == Block(FinishLogin, "truncateCookie", "writeUser", FinishSteps)
<1>1. Block(SetCookies \o Call, "truncateCookie", "answer", {"truncateCookie", "writeCookie"} \cup {"getCookies", "request", "answer"})
  BY JoinBlocks, SetCookiesBlock, CallBlock DEF AllSteps, NeedsCookies, Before, After, Unfinished
<1>2. Block((SetCookies \o Call) \o SetUser, "truncateCookie", "writeUser", FinishSteps)
  BY JoinBlocks, <1>1, SetUserBlock DEF AllSteps, NeedsCookies, Before, After, Unfinished, FinishSteps
<1> QED
  BY <1>2 DEF FinishLogin

LEMMA DoLoginBlock == Block(DoLogin, "browser", "writeUser", {"browser"} \cup FinishSteps)
<1>1. Block(<<"browser">>, "browser", "browser", {"browser"})
  BY OneStep DEF AllSteps
<1> QED
  BY JoinBlocks, <1>1, FinishLoginBlock
  DEF DoLogin, FinishSteps, AllSteps, NeedsCookies, Before, After, Unfinished

LEMMA ClearAndLoginBlock ==
  Block(ClearLoginData \o DoLogin, "deleteCookie", "writeUser",
        {"deleteCookie", "deleteUser"} \cup ({"browser"} \cup FinishSteps))
BY JoinBlocks, ClearBlock, DoLoginBlock
DEF FinishSteps, AllSteps, NeedsCookies, Before, After, Unfinished, Deletes

LEMMA ClearAndThrowBlock ==
  Block(ClearLoginData \o <<"throw">>, "deleteCookie", "throw", {"deleteCookie", "deleteUser"} \cup {"throw"})
<1>1. Block(<<"throw">>, "throw", "throw", {"throw"})
  BY OneStep DEF AllSteps
<1> QED
  BY JoinBlocks, <1>1, ClearBlock DEF AllSteps, NeedsCookies, Before, After, Unfinished, Deletes

LEMMA LogoutBlock ==
  Block(LocalLogout, "deleteCookie", "deleteSettings", {"deleteCookie", "deleteUser"} \cup {"deleteSettings"})
<1>1. Block(<<"deleteSettings">>, "deleteSettings", "deleteSettings", {"deleteSettings"})
  BY OneStep DEF AllSteps
<1> QED
  BY JoinBlocks, <1>1, ClearBlock DEF LocalLogout, AllSteps, NeedsCookies, Before, After, Unfinished, Deletes

LEMMA LoginBlock ==
  Block(Login, "deleteCookie", "writeUser",
        ({"deleteCookie", "deleteUser"} \cup {"deleteSettings"}) \cup ({"browser"} \cup FinishSteps))
BY JoinBlocks, LogoutBlock, DoLoginBlock
DEF Login, FinishSteps, AllSteps, NeedsCookies, Before, After, Unfinished, Deletes

LEMMA DownloadBlock ==
  Block(Download, "openSettings", "storeSettings",
        ({"openSettings"} \cup {"getCookies", "request", "answer"}) \cup {"storeSettings"})
<1>1. Block(<<"openSettings">>, "openSettings", "openSettings", {"openSettings"})
  BY OneStep DEF AllSteps, NeedsCookies
<1>2. Block(<<"storeSettings">>, "storeSettings", "storeSettings", {"storeSettings"})
  BY OneStep DEF AllSteps, NeedsCookies
<1>3. Block(<<"openSettings">> \o Call, "openSettings", "answer", {"openSettings"} \cup {"getCookies", "request", "answer"})
  BY JoinBlocks, <1>1, CallBlock DEF AllSteps, NeedsCookies, Before, After, Unfinished
<1> QED
  BY JoinBlocks, <1>3, <1>2 DEF Download, AllSteps, NeedsCookies, Before, After, Unfinished

UploadSteps == {"getCookies", "request", "keepSettings", "answer"}

LEMMA UploadBlock == Block(Upload, "getCookies", "answer", UploadSteps)
BY DEF Block, Upload, UploadSteps, Begins, StepsOf, AllSteps, NeedsCookies, Before, After, Unfinished, Deletes

(* The scripts of the commands. *)
SettingSteps == {"ensureLoggedIn", "openSettings", "getCookies", "request", "answer", "storeSettings", "keepSettings",
                 "truncateSettings", "writeSettings", "readSettings", "loadSettings"}

LEMMA SaveSettingsBlock ==
  \E S \in SUBSET SettingSteps : "storeSettings" \in S /\ Block(SaveSettings, "ensureLoggedIn", "writeSettings", S)
<1> DEFINE D == ({"openSettings"} \cup {"getCookies", "request", "answer"}) \cup {"storeSettings"}
           W == {"truncateSettings", "writeSettings"}
<1>1. Block(<<"ensureLoggedIn">>, "ensureLoggedIn", "ensureLoggedIn", {"ensureLoggedIn"})
  BY OneStep DEF AllSteps
<1>2. Block(<<"truncateSettings", "writeSettings">>, "truncateSettings", "writeSettings", W)
  BY DEF Block, Begins, StepsOf, AllSteps, NeedsCookies, Before, After
<1>3. Block(<<"ensureLoggedIn">> \o Download, "ensureLoggedIn", "storeSettings", {"ensureLoggedIn"} \cup D)
  BY JoinBlocks, <1>1, DownloadBlock DEF AllSteps, NeedsCookies, Before, After, Unfinished
<1>4. Block((<<"ensureLoggedIn">> \o Download) \o Upload, "ensureLoggedIn", "answer", ({"ensureLoggedIn"} \cup D) \cup UploadSteps)
  BY JoinBlocks, <1>3, UploadBlock DEF UploadSteps, AllSteps, NeedsCookies, Before, After, Unfinished
<1>5. Block(SaveSettings, "ensureLoggedIn", "writeSettings", (({"ensureLoggedIn"} \cup D) \cup UploadSteps) \cup W)
  BY JoinBlocks, <1>4, <1>2 DEF SaveSettings, UploadSteps, AllSteps, NeedsCookies, Before, After, Unfinished
<1>6. (({"ensureLoggedIn"} \cup D) \cup UploadSteps) \cup W \in SUBSET SettingSteps
  BY DEF UploadSteps, SettingSteps
<1> QED
  BY <1>5, <1>6

LEMMA CommandSteps ==
  ASSUME NEW c \in Commands
  PROVE  /\ Scripted(Steps(c)) /\ Steps(c) # <<>>
         /\ Head(Steps(c)) \in {"deleteCookie", "telerikLogin", "getUser", "ensureLoggedIn"}
         /\ c = "login" => Deletes \cup {"browser", "writeCookie", "writeUser"} \subseteq StepsOf(Steps(c))
                           /\ StepsOf(Steps(c)) \subseteq LoginSteps
         /\ c = "logout" => StepsOf(Steps(c)) = Deletes
         /\ c \notin {"login", "logout"} => StepsOf(Steps(c)) \cap (LoginSteps \ {"getCookies", "request", "answer"}) = {}
         /\ "keepSettings" \in StepsOf(Steps(c)) => {"storeSettings", "readSettings"} \cap StepsOf(Steps(c)) # {}
<1>1. c \in {"login", "logout", "dev-telerik-login", "user", "build", "cloud list",
             "get setting", "save setting", "debug"}
  BY CommandsAssumption
<1>2. CASE c = "login"
  <2>1. Steps(c) = Login
    BY <1>2 DEF Steps
  <2> QED
    BY <1>2, <2>1, LoginBlock, BlockScripted DEF Block, Unfinished, Deletes, LoginSteps, FinishSteps
<1>3. CASE c = "logout"
  <2>1. Steps(c) = LocalLogout
    BY <1>3 DEF Steps, Logout
  <2> QED
    BY <1>3, <2>1, LogoutBlock, BlockScripted DEF Block, Unfinished, Deletes, LoginSteps
<1>4. CASE c = "dev-telerik-login"
  <2>1. Steps(c) = <<"telerikLogin">>
    BY <1>4 DEF Steps
  <2> QED
    BY <1>4, <2>1, OneStep, BlockScripted DEF Block, Unfinished, Deletes, LoginSteps, AllSteps
<1>5. CASE c = "user"
  <2>1. Steps(c) = <<"getUser">>
    BY <1>5 DEF Steps
  <2> QED
    BY <1>5, <2>1, OneStep, BlockScripted DEF Block, Unfinished, Deletes, LoginSteps, AllSteps
<1>11. Block(<<"ensureLoggedIn">>, "ensureLoggedIn", "ensureLoggedIn", {"ensureLoggedIn"})
  BY OneStep DEF AllSteps
<1>6. CASE c = "build"
  <2>1. Steps(c) = <<"ensureLoggedIn">> \o Call
    BY <1>6 DEF Steps
  <2>2. Block(Steps(c), "ensureLoggedIn", "answer", {"ensureLoggedIn"} \cup {"getCookies", "request", "answer"})
    <3>1. /\ \A x \in {"ensureLoggedIn"}, y \in {"getCookies", "request", "answer"} : x \in Before(y)
          /\ "getCookies" \in After("ensureLoggedIn") /\ "answer" \notin Unfinished
      BY DEF AllSteps, NeedsCookies, Before, After, Unfinished
    <3> QED
      BY <2>1, <3>1, <1>11, JoinBlocks, CallBlock
  <2> QED
    BY <1>6, <2>2, BlockScripted DEF Block, Unfinished, Deletes, LoginSteps
<1>7. CASE c = "cloud list"
  <2>1. Steps(c) = TapCall \o TapCall
    BY <1>7 DEF Steps
  <2>2. Block(Steps(c), "getUser", "answer",
              {"getUser", "getCookies", "tapRequest", "answer"} \cup {"getUser", "getCookies", "tapRequest", "answer"})
    BY <2>1, JoinBlocks, TapCallBlock DEF AllSteps, NeedsCookies, Before, After, Unfinished
  <2> QED
    BY <1>7, <2>2, BlockScripted DEF Block, Unfinished, Deletes, LoginSteps
<1>8. CASE c = "get setting"
  <2>1. Steps(c) = GetSettingValue \o GetSettingValue
    BY <1>8 DEF Steps
  <2>2. Block(GetSettingValue, "ensureLoggedIn", "loadSettings", {"ensureLoggedIn", "loadSettings"})
    BY DEF GetSettingValue, Block, Begins, StepsOf, AllSteps, NeedsCookies, Before, After
  <2>3. Block(Steps(c), "ensureLoggedIn", "loadSettings", {"ensureLoggedIn", "loadSettings"} \cup {"ensureLoggedIn", "loadSettings"})
    BY <2>1, <2>2, JoinBlocks DEF AllSteps, NeedsCookies, Before, After, Unfinished
  <2> QED
    BY <1>8, <2>3, BlockScripted DEF Block, Unfinished, Deletes, LoginSteps
<1>9. CASE c = "save setting"
  <2>1. Steps(c) = SaveSettings
    BY <1>9 DEF Steps
  <2>2. PICK S \in SUBSET SettingSteps : "storeSettings" \in S /\ Block(Steps(c), "ensureLoggedIn", "writeSettings", S)
    BY <2>1, SaveSettingsBlock
  <2>3. Scripted(Steps(c)) /\ Steps(c) # <<>> /\ Head(Steps(c)) = "ensureLoggedIn" /\ StepsOf(Steps(c)) = S
    BY <2>2, BlockScripted DEF Block, Unfinished
  <2> QED
    BY <1>9, <2>2, <2>3 DEF SettingSteps, Deletes, LoginSteps
<1>10. CASE c = "debug"
  <2>1. Steps(c) = <<"ensureLoggedIn", "readSettings">> \o Upload
    BY <1>10 DEF Steps, SaveSettingsFile
  <2>2. Block(<<"ensureLoggedIn", "readSettings">>, "ensureLoggedIn", "readSettings", {"ensureLoggedIn", "readSettings"})
    BY DEF Block, Begins, StepsOf, AllSteps, NeedsCookies, Before, After
  <2>3. Block(Steps(c), "ensureLoggedIn", "answer", {"ensureLoggedIn", "readSettings"} \cup UploadSteps)
    <3>1. /\ \A x \in {"ensureLoggedIn", "readSettings"}, y \in UploadSteps : x \in Before(y)
          /\ "getCookies" \in After("readSettings") /\ "answer" \notin Unfinished
      BY DEF UploadSteps, AllSteps, NeedsCookies, Before, After, Unfinished
    <3> QED
      BY <2>1, <2>2, <3>1, JoinBlocks, UploadBlock
  <2> QED
    BY <1>10, <2>3, BlockScripted DEF Block, UploadSteps, Unfinished, Deletes, LoginSteps
<1> QED
  BY <1>1, <1>2, <1>3, <1>4, <1>5, <1>6, <1>7, <1>8, <1>9, <1>10

--------------------------------------------------------------------------
(* How a step changes what is left. *)
LEMMA NowIsFirst ==
  ASSUME TypeInv, NEW step, At(CLI, step)
  PROVE  /\ Now = step /\ step \in Left /\ step \in AllSteps /\ script[CLI] # <<>>
         /\ \A x \in Left : x = step \/ step \in Before(x)
         /\ step \in NeedsCookies => cookies[CLI] \in Users
BY TailScripted DEF TypeInv, At, Now, Left

LEMMA GoesOn ==
  ASSUME OneProcess, TypeInv, NEW step, At(CLI, step), Continue(CLI)
  PROVE  /\ script' \in [Processes -> Seq(AllSteps)] /\ Scripted(script'[CLI])
         /\ \A x : x \in Left' => x \in Left /\ step \in Before(x)
         /\ \A x : x \in Left => x = step \/ x \in Left'
         /\ IF script'[CLI] = <<>> THEN Now' = "none" /\ step \notin Unfinished
            ELSE Now' \in After(step) /\ Now' \in Left'
<1>1. script'[CLI] = Tail(script[CLI]) /\ script' = [script EXCEPT ![CLI] = Tail(script[CLI])]
  BY TheProcess DEF TypeInv, Continue
<1>2. Scripted(script[CLI]) /\ script[CLI] # <<>> /\ Head(script[CLI]) = step
  BY DEF TypeInv, At
<1>3. Scripted(script'[CLI]) /\ script'[CLI] \in Seq(AllSteps)
  BY <1>1, <1>2, TailScripted DEF Scripted
<1>4. script'[CLI] # <<>> => Head(script'[CLI]) \in StepsOf(script'[CLI])
  BY <1>3, TailScripted
<1>5. script' \in [Processes -> Seq(AllSteps)]
  BY <1>1, <1>3, TheProcess DEF TypeInv
<1> QED
  BY <1>1, <1>2, <1>3, <1>4, <1>5, TailScripted DEF Now, Left

LEMMA Inserted ==
  ASSUME OneProcess, TypeInv, NEW step, At(CLI, step),
         NEW b, NEW f, NEW l, NEW S, Block(b, f, l, S), Insert(CLI, b),
         \A y \in AllSteps : step \in Before(y) => \A x \in S : x \in Before(y),
         After(step) \subseteq After(l), l \notin Unfinished
  PROVE  /\ script' \in [Processes -> Seq(AllSteps)] /\ Scripted(script'[CLI])
         /\ \A x : x \in Left' => x \in S \/ (x \in Left /\ step \in Before(x))
         /\ \A x : x \in Left => x = step \/ x \in Left'
         /\ \A x \in S : x \in Left'
         /\ Now' = f /\ script'[CLI] # <<>>
<1> DEFINE t == Tail(script[CLI])
<1>1. script'[CLI] = b \o t /\ script' = [script EXCEPT ![CLI] = b \o t]
  BY TheProcess DEF TypeInv, Insert
<1>2. Scripted(script[CLI]) /\ script[CLI] # <<>> /\ Head(script[CLI]) = step
  BY DEF TypeInv, At
<1>3. Scripted(t) /\ StepsOf(t) \subseteq AllSteps
  BY <1>2, TailScripted DEF Scripted, StepsOf
<1>4. /\ Begins(b) /\ b # <<>> /\ b[Len(b)] = l /\ Head(b) = f /\ StepsOf(b) = S
  BY DEF Block
<1>5. \A x \in StepsOf(b), y \in StepsOf(t) : x \in Before(y)
  BY <1>2, <1>3, <1>4, TailScripted
<1>6. IF t = <<>> THEN b[Len(b)] \notin Unfinished ELSE Head(t) \in After(b[Len(b)])
  BY <1>2, <1>4, TailScripted
<1>7. /\ Scripted(b \o t) /\ b \o t # <<>> /\ Head(b \o t) = f /\ StepsOf(b \o t) = S \cup StepsOf(t)
  BY <1>3, <1>4, <1>5, <1>6, JoinScripted
<1>8. script' \in [Processes -> Seq(AllSteps)]
  BY <1>1, <1>7, TheProcess DEF TypeInv, Scripted
<1> QED
  BY <1>1, <1>2, <1>7, <1>8, TailScripted DEF Now, Left

LEMMA Replaced ==
  ASSUME OneProcess, TypeInv, NEW b, NEW f, NEW l, NEW S, Block(b, f, l, S), l \notin Unfinished,
         script' = [script EXCEPT ![CLI] = b]
  PROVE  /\ script' \in [Processes -> Seq(AllSteps)] /\ Scripted(script'[CLI])
         /\ Left' = S /\ Now' = f /\ script'[CLI] # <<>>
<1>1. script'[CLI] = b
  BY TheProcess DEF TypeInv
<1>2. Scripted(b) /\ b \in Seq(AllSteps)
  BY BlockScripted DEF Scripted
<1> QED
  BY <1>1, <1>2, TheProcess DEF TypeInv, Block, Now, Left

LEMMA Throws ==
  ASSUME OneProcess, TypeInv, Throw(CLI)
  PROVE  /\ script' \in [Processes -> Seq(AllSteps)] /\ Scripted(script'[CLI])
         /\ Left' = {"throw"} /\ Now' = "throw" /\ script'[CLI] # <<>>
<1>1. Block(<<"throw">>, "throw", "throw", {"throw"})
  BY OneStep DEF AllSteps
<1> QED
  BY <1>1, Replaced DEF Throw, Unfinished

LEMMA Clears ==
  ASSUME OneProcess, TypeInv, script' = [script EXCEPT ![CLI] = ClearLoginData \o <<"throw">>]
  PROVE  /\ script' \in [Processes -> Seq(AllSteps)] /\ Scripted(script'[CLI])
         /\ Left' = {"deleteCookie", "deleteUser", "throw"} /\ Now' = "deleteCookie" /\ script'[CLI] # <<>>
<1>1. {"deleteCookie", "deleteUser"} \cup {"throw"} = {"deleteCookie", "deleteUser", "throw"}
  OBVIOUS
<1>2. Block(ClearLoginData \o <<"throw">>, "deleteCookie", "throw", {"deleteCookie", "deleteUser", "throw"})
  BY <1>1, ClearAndThrowBlock
<1> QED
  BY <1>2, Replaced DEF Unfinished

LEMMA DeletingContinues ==
  ASSUME OneProcess, TypeInv, NEW write, ContinueDeleting(CLI, write)
  PROVE  Continue(CLI)
BY TheProcess DEF TypeInv, ContinueDeleting, Continue

--------------------------------------------------------------------------
(* Each step keeps the invariant. *)
LEMMA Types ==
  ASSUME OneProcess, TypeInv
  PROVE  /\ cookieFile \in Users \cup {NoFile, Torn} /\ userFile \in Users \cup {NoFile, Torn}
         /\ settingsFile \in Users \cup {NoFile, Torn}
         /\ cookies \in [Processes -> Users \cup {None}] /\ user \in [Processes -> Users \cup {None}]
         /\ settings \in [Processes -> Users \cup {None}] /\ sent \in [Processes -> Requests \cup {None}]
         /\ account \in [Users -> Users \cup {None}]
         /\ Now \in NeedsCookies => cookies[CLI] \in Users
BY DEF TypeInv, TypeOK

LEMMA TruncateCookieKeeps ==
  ASSUME OneProcess, IInv, TruncateCookie(CLI)
  PROVE  IInv'
<1>1. CLI \in Processes /\ \A p \in Processes : p = CLI
  BY TheProcess
<1>2. TypeInv /\ At(CLI, "truncateCookie") /\ Continue(CLI)
  BY DEF IInv, TruncateCookie
<1>3. /\ cookieFile' = Torn
      /\ UNCHANGED <<cookies, userFile, user, settingsFile, settings, account, open, sent, mishaps, loggedOut, command>>
  BY DEF TruncateCookie, userData, settingsData, server, history
<1>4. /\ Now = "truncateCookie" /\ Now \in Left /\ script[CLI] # <<>>
      /\ \A x \in Left : x = "truncateCookie" \/ "truncateCookie" \in Before(x)
      /\ cookies[CLI] \in Users
  BY <1>2, NowIsFirst DEF NeedsCookies
<1>5. /\ script' \in [Processes -> Seq(AllSteps)] /\ Scripted(script'[CLI])
      /\ \A x : x \in Left' => x \in Left /\ "truncateCookie" \in Before(x)
      /\ \A x : x \in Left => x = "truncateCookie" \/ x \in Left'
      /\ Now' = "writeCookie" /\ Now' \in Left'
  BY <1>2, GoesOn DEF After, Unfinished
<1>6. cookies[CLI] \in Users
  BY <1>4
<1>7. TypeInv'
  BY <1>1, <1>2, <1>3, <1>4, <1>5, <1>6, UsersAssumption DEF TypeInv, TypeOK, NeedsCookies
<1>8. FreshInv'
  BY <1>1, <1>2, <1>3, <1>4, <1>5, <1>6 DEF IInv, FreshInv, Fresh, LoginSteps, Deletes, Before
<1>9. OwnerInv'
  BY <1>1, <1>2, <1>3, <1>4, <1>5, <1>6, UsersAssumption
  DEF IInv, TypeInv, OwnerInv, Owner, Fresh, Uninterrupted, Deletes, Before, NeedsCookies
<1>10. UserInv'
  BY <1>1, <1>2, <1>3, <1>4, <1>5, <1>6, UsersAssumption
  DEF IInv, TypeInv, OwnerInv, UserInv, Owner, Fresh, Uninterrupted, Deletes, Before, NeedsCookies
<1>11. LogoutInv'
  BY <1>1, <1>2, <1>3, <1>4, <1>5, <1>6, UsersAssumption DEF IInv, TypeInv, LogoutInv, NeedsCookies
<1>12. SettingsInv'
  BY <1>1, <1>2, <1>3, <1>4, <1>5, <1>6, UsersAssumption
  DEF IInv, TypeInv, OwnerInv, FreshInv, SettingsInv, OwnedBy, Owner, Fresh, LoginSteps, Deletes, Before,
      NeedsCookies
<1>13. TenantMatchesSession'
  BY <1>1, <1>3 DEF IInv, TenantMatchesSession, Uninterrupted
<1> QED
  BY <1>7, <1>8, <1>9, <1>10, <1>11, <1>12, <1>13 DEF IInv

LEMMA WriteCookieKeeps ==
  ASSUME OneProcess, IInv, WriteCookie(CLI)
  PROVE  IInv'
<1>1. CLI \in Processes /\ \A p \in Processes : p = CLI
  BY TheProcess
<1>2. TypeInv /\ At(CLI, "writeCookie") /\ Continue(CLI)
  BY DEF IInv, WriteCookie
<1>3. /\ cookieFile' = cookies[CLI]
      /\ UNCHANGED <<cookies, userFile, user, settingsFile, settings, account, open, sent, mishaps, loggedOut, command>>
  BY DEF WriteCookie, userData, settingsData, server, history
<1>4. /\ Now = "writeCookie" /\ Now \in Left /\ script[CLI] # <<>>
      /\ \A x \in Left : x = "writeCookie" \/ "writeCookie" \in Before(x)
      /\ cookies[CLI] \in Users
  BY <1>2, NowIsFirst DEF NeedsCookies
<1>5. /\ script' \in [Processes -> Seq(AllSteps)] /\ Scripted(script'[CLI])
      /\ \A x : x \in Left' => x \in Left /\ "writeCookie" \in Before(x)
      /\ \A x : x \in Left => x = "writeCookie" \/ x \in Left'
      /\ IF script'[CLI] = <<>> THEN Now' = "none"
         ELSE Now' \in AllSteps \ {"answer", "keepSettings", "writeUser"} /\ Now' \in Left'
  BY <1>2, GoesOn DEF After, Unfinished
<1>6. cookies[CLI] \in Users
  BY <1>4
<1>7. TypeInv'
  <2>1. TypeOK'
    BY <1>1, <1>2, <1>3, <1>4, <1>5, <1>6, UsersAssumption DEF TypeInv, TypeOK
  <2> QED
    BY <1>1, <1>2, <1>3, <1>4, <1>5, <1>6, UsersAssumption, <2>1 DEF TypeInv, NeedsCookies
<1>8. FreshInv'
  BY <1>1, <1>2, <1>3, <1>4, <1>5, <1>6 DEF IInv, FreshInv, Fresh, LoginSteps, Deletes, Before
<1>9. OwnerInv'
  BY <1>1, <1>2, <1>3, <1>4, <1>5, <1>6, UsersAssumption
  DEF IInv, TypeInv, OwnerInv, Owner, Fresh, Uninterrupted, Deletes, Before, NeedsCookies
<1>10. UserInv'
  BY <1>1, <1>2, <1>3, <1>4, <1>5, <1>6, UsersAssumption
  DEF IInv, TypeInv, OwnerInv, UserInv, Owner, Fresh, Uninterrupted, Deletes, Before, NeedsCookies
<1>11. LogoutInv'
  BY <1>1, <1>2, <1>3, <1>4, <1>5, <1>6, UsersAssumption DEF IInv, TypeInv, LogoutInv, NeedsCookies
<1>12. SettingsInv'
  BY <1>1, <1>2, <1>3, <1>4, <1>5, <1>6, UsersAssumption
  DEF IInv, TypeInv, OwnerInv, FreshInv, SettingsInv, OwnedBy, Owner, Fresh, LoginSteps, Deletes, Before,
      NeedsCookies
<1>13. TenantMatchesSession'
  BY <1>1, <1>3 DEF IInv, TenantMatchesSession, Uninterrupted
<1> QED
  BY <1>7, <1>8, <1>9, <1>10, <1>11, <1>12, <1>13 DEF IInv

LEMMA TruncateUserKeeps ==
  ASSUME OneProcess, IInv, TruncateUser(CLI)
  PROVE  IInv'
<1>1. CLI \in Processes /\ \A p \in Processes : p = CLI
  BY TheProcess
<1>2. TypeInv /\ At(CLI, "truncateUser") /\ Continue(CLI)
  BY DEF IInv, TruncateUser
<1>3. /\ user' = [user EXCEPT ![CLI] = cookies[CLI]] /\ userFile' = Torn
      /\ UNCHANGED <<cookieFile, cookies, settingsFile, settings, account, open, sent, mishaps, loggedOut, command>>
  BY DEF TruncateUser, cookieData, settingsData, server, history
<1>4. /\ Now = "truncateUser" /\ Now \in Left /\ script[CLI] # <<>>
      /\ \A x \in Left : x = "truncateUser" \/ "truncateUser" \in Before(x)
      /\ cookies[CLI] \in Users
  BY <1>2, NowIsFirst DEF NeedsCookies
<1>5. /\ script' \in [Processes -> Seq(AllSteps)] /\ Scripted(script'[CLI])
      /\ \A x : x \in Left' => x \in Left /\ "truncateUser" \in Before(x)
      /\ \A x : x \in Left => x = "truncateUser" \/ x \in Left'
      /\ Now' = "writeUser" /\ Now' \in Left'
  BY <1>2, GoesOn DEF After, Unfinished
<1>6. cookies[CLI] \in Users /\ user' \in [Processes -> Users \cup {None}] /\ user'[CLI] = cookies[CLI]
  BY <1>1, <1>2, <1>3, <1>4, Types
<1>7. TypeInv'
  BY <1>1, <1>2, <1>3, <1>4, <1>5, <1>6, UsersAssumption DEF TypeInv, TypeOK, NeedsCookies
<1>8. FreshInv'
  BY <1>1, <1>2, <1>3, <1>4, <1>5, <1>6 DEF IInv, FreshInv, Fresh, LoginSteps, Deletes, Before
<1>9. OwnerInv'
  BY <1>1, <1>2, <1>3, <1>4, <1>5, <1>6, UsersAssumption
  DEF IInv, TypeInv, OwnerInv, Owner, Fresh, Uninterrupted, Deletes, Before, NeedsCookies
<1>10. UserInv'
  BY <1>1, <1>2, <1>3, <1>4, <1>5, <1>6, UsersAssumption
  DEF IInv, TypeInv, OwnerInv, UserInv, Owner, Fresh, Uninterrupted, Deletes, Before, NeedsCookies
<1>11. LogoutInv'
  BY <1>1, <1>2, <1>3, <1>4, <1>5, <1>6, UsersAssumption DEF IInv, TypeInv, LogoutInv, NeedsCookies
<1>12. SettingsInv'
  BY <1>1, <1>2, <1>3, <1>4, <1>5, <1>6, UsersAssumption
  DEF IInv, TypeInv, OwnerInv, FreshInv, SettingsInv, OwnedBy, Owner, Fresh, LoginSteps, Deletes, Before,
      NeedsCookies
<1>13. TenantMatchesSession'
  BY <1>1, <1>3 DEF IInv, TenantMatchesSession, Uninterrupted
<1> QED
  BY <1>7, <1>8, <1>9, <1>10, <1>11, <1>12, <1>13 DEF IInv

LEMMA WriteUserKeeps ==
  ASSUME OneProcess, IInv, WriteUser(CLI)
  PROVE  IInv'
<1>1. CLI \in Processes /\ \A p \in Processes : p = CLI
  BY TheProcess
<1>2. TypeInv /\ At(CLI, "writeUser") /\ Continue(CLI)
  BY DEF IInv, WriteUser
<1>3. /\ userFile' = user[CLI]
      /\ UNCHANGED <<cookieFile, cookies, user, settingsFile, settings, account, open, sent, mishaps, loggedOut, command>>
  BY DEF WriteUser, cookieData, settingsData, server, history
<1>4. /\ Now = "writeUser" /\ Now \in Left /\ script[CLI] # <<>>
      /\ \A x \in Left : x = "writeUser" \/ "writeUser" \in Before(x)
      /\ cookies[CLI] \in Users
  BY <1>2, NowIsFirst DEF NeedsCookies
<1>5. /\ script' \in [Processes -> Seq(AllSteps)] /\ Scripted(script'[CLI])
      /\ \A x : x \in Left' => x \in Left /\ "writeUser" \in Before(x)
      /\ \A x : x \in Left => x = "writeUser" \/ x \in Left'
      /\ IF script'[CLI] = <<>> THEN Now' = "none"
         ELSE Now' \in AllSteps \ {"answer", "keepSettings", "writeUser"} /\ Now' \in Left'
  BY <1>2, GoesOn DEF After, Unfinished
<1>6. cookies[CLI] \in Users
  BY <1>4
<1>7. TypeInv'
  BY <1>1, <1>2, <1>3, <1>4, <1>5, <1>6, UsersAssumption DEF TypeInv, TypeOK, NeedsCookies
<1>8. FreshInv'
  BY <1>1, <1>2, <1>3, <1>4, <1>5, <1>6 DEF IInv, FreshInv, Fresh, LoginSteps, Deletes, Before
<1>9. OwnerInv'
  BY <1>1, <1>2, <1>3, <1>4, <1>5, <1>6, UsersAssumption
  DEF IInv, TypeInv, OwnerInv, Owner, Fresh, Uninterrupted, Deletes, Before, NeedsCookies
<1>10. UserInv'
  BY <1>1, <1>2, <1>3, <1>4, <1>5, <1>6, UsersAssumption
  DEF IInv, TypeInv, OwnerInv, UserInv, Owner, Fresh, Uninterrupted, Deletes, Before, NeedsCookies
<1>11. LogoutInv'
  BY <1>1, <1>2, <1>3, <1>4, <1>5, <1>6, UsersAssumption DEF IInv, TypeInv, LogoutInv, NeedsCookies
<1>12. SettingsInv'
  BY <1>1, <1>2, <1>3, <1>4, <1>5, <1>6, UsersAssumption
  DEF IInv, TypeInv, OwnerInv, FreshInv, SettingsInv, OwnedBy, Owner, Fresh, LoginSteps, Deletes, Before,
      NeedsCookies
<1>13. TenantMatchesSession'
  BY <1>1, <1>3 DEF IInv, TenantMatchesSession, Uninterrupted
<1> QED
  BY <1>7, <1>8, <1>9, <1>10, <1>11, <1>12, <1>13 DEF IInv

LEMMA DeleteCookieKeeps ==
  ASSUME OneProcess, IInv, DeleteCookie(CLI)
  PROVE  IInv'
<1>1. CLI \in Processes /\ \A p \in Processes : p = CLI
  BY TheProcess
<1>2. TypeInv /\ At(CLI, "deleteCookie") /\ Continue(CLI)
  BY DeletingContinues DEF IInv, DeleteCookie
<1>3. /\ cookies' = [cookies EXCEPT ![CLI] = None] /\ cookieFile' = NoFile
      /\ UNCHANGED <<userFile, user, settingsFile, settings, account, open, sent, mishaps, loggedOut, command>>
  BY DEF DeleteCookie, userData, settingsData, server, history
<1>4. /\ Now = "deleteCookie" /\ Now \in Left /\ script[CLI] # <<>>
      /\ \A x \in Left : x = "deleteCookie" \/ "deleteCookie" \in Before(x)
  BY <1>2, NowIsFirst
<1>5. /\ script' \in [Processes -> Seq(AllSteps)] /\ Scripted(script'[CLI])
      /\ \A x : x \in Left' => x \in Left /\ "deleteCookie" \in Before(x)
      /\ \A x : x \in Left => x = "deleteCookie" \/ x \in Left'
      /\ Now' = "deleteUser" /\ Now' \in Left'
  BY <1>2, GoesOn DEF After, Unfinished
<1>6. cookies' \in [Processes -> Users \cup {None}] /\ cookies'[CLI] = None
  BY <1>1, <1>2, <1>3, <1>4, Types
<1>7. TypeInv'
  BY <1>1, <1>2, <1>3, <1>4, <1>5, <1>6, UsersAssumption DEF TypeInv, TypeOK, NeedsCookies
<1>8. FreshInv'
  <2>1. Left' = Left \ {"deleteCookie"}
    BY <1>5 DEF Before, Deletes
  <2>2. command' = command /\ settings' = settings /\ settingsFile' = settingsFile /\ userFile' = userFile
    BY <1>3
  <2> QED
    BY <1>3, <1>6, <2>1, <2>2 DEF IInv, FreshInv, Fresh, LoginSteps, Deletes
<1>9. OwnerInv'
  BY <1>1, <1>2, <1>3, <1>4, <1>5, <1>6, UsersAssumption, FilesAssumption
  DEF IInv, TypeInv, OwnerInv, Owner, Fresh, Uninterrupted, Deletes, Before, NeedsCookies
<1>10. UserInv'
  BY <1>1, <1>2, <1>3, <1>4, <1>5, <1>6, UsersAssumption
  DEF IInv, TypeInv, OwnerInv, UserInv, Owner, Fresh, Uninterrupted, Deletes, Before, NeedsCookies
<1>11. LogoutInv'
  BY <1>1, <1>2, <1>3, <1>4, <1>5, <1>6, UsersAssumption DEF IInv, TypeInv, LogoutInv, NeedsCookies
<1>12. SettingsInv'
  BY <1>1, <1>2, <1>3, <1>4, <1>5, <1>6, UsersAssumption
  DEF IInv, TypeInv, OwnerInv, FreshInv, SettingsInv, OwnedBy, Owner, Fresh, LoginSteps, Deletes, Before,
      NeedsCookies
<1>13. TenantMatchesSession'
  BY <1>1, <1>3 DEF IInv, TenantMatchesSession, Uninterrupted
<1> QED
  BY <1>7, <1>8, <1>9, <1>10, <1>11, <1>12, <1>13 DEF IInv

LEMMA DeleteUserKeeps ==
  ASSUME OneProcess, IInv, DeleteUser(CLI)
  PROVE  IInv'
<1>1. CLI \in Processes /\ \A p \in Processes : p = CLI
  BY TheProcess
<1>2. TypeInv /\ At(CLI, "deleteUser") /\ Continue(CLI)
  BY DeletingContinues DEF IInv, DeleteUser
<1>3. /\ user' = [user EXCEPT ![CLI] = None] /\ userFile' = NoFile
      /\ UNCHANGED <<cookieFile, cookies, settingsFile, settings, account, open, sent, mishaps, loggedOut, command>>
  BY DEF DeleteUser, cookieData, settingsData, server, history
<1>4. /\ Now = "deleteUser" /\ Now \in Left /\ script[CLI] # <<>>
      /\ \A x \in Left : x = "deleteUser" \/ "deleteUser" \in Before(x)
  BY <1>2, NowIsFirst
<1>5. /\ script' \in [Processes -> Seq(AllSteps)] /\ Scripted(script'[CLI])
      /\ \A x : x \in Left' => x \in Left /\ "deleteUser" \in Before(x)
      /\ \A x : x \in Left => x = "deleteUser" \/ x \in Left'
      /\ IF script'[CLI] = <<>> THEN Now' = "none" ELSE Now' \in AllSteps \ NeedsCookies /\ Now' \in Left'
  BY <1>2, GoesOn DEF After, Unfinished
<1>6. user' \in [Processes -> Users \cup {None}] /\ user'[CLI] = None
  BY <1>1, <1>2, <1>3, <1>4, Types
<1>7. TypeInv'
  BY <1>1, <1>2, <1>3, <1>4, <1>5, <1>6, UsersAssumption DEF TypeInv, TypeOK, NeedsCookies
<1>8. FreshInv'
  BY <1>1, <1>2, <1>3, <1>4, <1>5, <1>6 DEF IInv, FreshInv, Fresh, LoginSteps, Deletes, Before
<1>9. OwnerInv'
  BY <1>1, <1>2, <1>3, <1>4, <1>5, <1>6, UsersAssumption
  DEF IInv, TypeInv, OwnerInv, Owner, Fresh, Uninterrupted, Deletes, Before, NeedsCookies
<1>10. UserInv'
  BY <1>1, <1>2, <1>3, <1>4, <1>5, <1>6, UsersAssumption
  DEF IInv, TypeInv, OwnerInv, UserInv, Owner, Fresh, Uninterrupted, Deletes, Before, NeedsCookies
<1>11. LogoutInv'
  BY <1>1, <1>2, <1>3, <1>4, <1>5, <1>6, UsersAssumption DEF IInv, TypeInv, LogoutInv, NeedsCookies
<1>12. SettingsInv'
  BY <1>1, <1>2, <1>3, <1>4, <1>5, <1>6, UsersAssumption
  DEF IInv, TypeInv, OwnerInv, FreshInv, SettingsInv, OwnedBy, Owner, Fresh, LoginSteps, Deletes, Before,
      NeedsCookies
<1>13. TenantMatchesSession'
  BY <1>1, <1>3 DEF IInv, TenantMatchesSession, Uninterrupted
<1> QED
  BY <1>7, <1>8, <1>9, <1>10, <1>11, <1>12, <1>13 DEF IInv

LEMMA DeleteSettingsKeeps ==
  ASSUME OneProcess, IInv, DeleteSettings(CLI)
  PROVE  IInv'
<1>1. CLI \in Processes /\ \A p \in Processes : p = CLI
  BY TheProcess
<1>2. TypeInv /\ At(CLI, "deleteSettings") /\ Continue(CLI)
  BY DeletingContinues DEF IInv, DeleteSettings
<1>3. /\ settingsFile' = NoFile
      /\ UNCHANGED <<cookieFile, cookies, userFile, user, settings, account, open, sent, mishaps, loggedOut, command>>
  BY DEF DeleteSettings, cookieData, userData, server, history
<1>4. /\ Now = "deleteSettings" /\ Now \in Left /\ script[CLI] # <<>>
      /\ \A x \in Left : x = "deleteSettings" \/ "deleteSettings" \in Before(x)
  BY <1>2, NowIsFirst
<1>5. /\ script' \in [Processes -> Seq(AllSteps)] /\ Scripted(script'[CLI])
      /\ \A x : x \in Left' => x \in Left /\ "deleteSettings" \in Before(x)
      /\ \A x : x \in Left => x = "deleteSettings" \/ x \in Left'
      /\ IF script'[CLI] = <<>> THEN Now' = "none" ELSE Now' \in AllSteps \ NeedsCookies /\ Now' \in Left'
  BY <1>2, GoesOn DEF After, Unfinished
<1>6. settings \in [Processes -> Users \cup {None}]
  BY <1>1, <1>2, <1>3, <1>4, Types
<1>7. TypeInv'
  BY <1>1, <1>2, <1>3, <1>4, <1>5, <1>6, UsersAssumption DEF TypeInv, TypeOK, NeedsCookies
<1>8. FreshInv'
  BY <1>1, <1>2, <1>3, <1>4, <1>5, <1>6 DEF IInv, FreshInv, Fresh, LoginSteps, Deletes, Before
<1>9. OwnerInv'
  BY <1>1, <1>2, <1>3, <1>4, <1>5, <1>6, UsersAssumption
  DEF IInv, TypeInv, OwnerInv, Owner, Fresh, Uninterrupted, Deletes, Before, NeedsCookies
<1>10. UserInv'
  BY <1>1, <1>2, <1>3, <1>4, <1>5, <1>6, UsersAssumption
  DEF IInv, TypeInv, OwnerInv, UserInv, Owner, Fresh, Uninterrupted, Deletes, Before, NeedsCookies
<1>11. LogoutInv'
  BY <1>1, <1>2, <1>3, <1>4, <1>5, <1>6, UsersAssumption DEF IInv, TypeInv, LogoutInv, NeedsCookies
<1>12. SettingsInv'
  BY <1>1, <1>2, <1>3, <1>4, <1>5, <1>6, UsersAssumption
  DEF IInv, TypeInv, OwnerInv, FreshInv, SettingsInv, OwnedBy, Owner, Fresh, LoginSteps, Deletes, Before,
      NeedsCookies
<1>13. TenantMatchesSession'
  BY <1>1, <1>3 DEF IInv, TenantMatchesSession, Uninterrupted
<1> QED
  BY <1>7, <1>8, <1>9, <1>10, <1>11, <1>12, <1>13 DEF IInv

LEMMA StoreSettingsKeeps ==
  ASSUME OneProcess, IInv, StoreSettings(CLI)
  PROVE  IInv'
<1>1. CLI \in Processes /\ \A p \in Processes : p = CLI
  BY TheProcess
<1>2. TypeInv /\ At(CLI, "storeSettings") /\ Continue(CLI)
  BY DEF IInv, StoreSettings
<1>3. /\ settings' = [settings EXCEPT ![CLI] = account[cookies[CLI]]]
      /\ settingsFile' = IF account[cookies[CLI]] = None THEN Torn ELSE account[cookies[CLI]]
      /\ UNCHANGED <<cookieFile, cookies, userFile, user, account, open, sent, mishaps, loggedOut, command>>
  BY DEF StoreSettings, cookieData, userData, server, history
<1>4. /\ Now = "storeSettings" /\ Now \in Left /\ script[CLI] # <<>>
      /\ \A x \in Left : x = "storeSettings" \/ "storeSettings" \in Before(x)
      /\ cookies[CLI] \in Users
  BY <1>2, NowIsFirst DEF NeedsCookies
<1>5. /\ script' \in [Processes -> Seq(AllSteps)] /\ Scripted(script'[CLI])
      /\ \A x : x \in Left' => x \in Left /\ "storeSettings" \in Before(x)
      /\ \A x : x \in Left => x = "storeSettings" \/ x \in Left'
      /\ IF script'[CLI] = <<>> THEN Now' = "none"
         ELSE Now' \in AllSteps \ {"answer", "keepSettings", "writeUser"} /\ Now' \in Left'
  BY <1>2, GoesOn DEF After, Unfinished
<1>6. /\ settings' \in [Processes -> Users \cup {None}] /\ settings'[CLI] = account[cookies[CLI]]
      /\ cookies[CLI] \in Users /\ account[cookies[CLI]] \in Users \cup {None} /\ settingsFile' \in Users \cup {NoFile, Torn}
  <2>1. account[cookies[CLI]] \in Users \cup {None} /\ settings \in [Processes -> Users \cup {None}]
    BY <1>2, <1>4, Types
  <2> QED
    BY <1>1, <1>3, <1>4, <2>1
<1>7. TypeInv'
  <2>1. TypeOK'
    <3>1. {cookies', user', settings'} \subseteq [Processes -> Users \cup {None}]
      BY <1>2, <1>3, <1>6, Types
    <3>2. {cookieFile', userFile', settingsFile'} \subseteq Users \cup {NoFile, Torn}
      BY <1>2, <1>3, <1>6, Types
    <3> QED
      BY <1>2, <1>3, <3>1, <3>2 DEF TypeInv, TypeOK
  <2> QED
    BY <1>1, <1>2, <1>3, <1>4, <1>5, <1>6, UsersAssumption, <2>1 DEF TypeInv, NeedsCookies
<1>8. FreshInv'
  BY <1>1, <1>2, <1>3, <1>4, <1>5, <1>6 DEF IInv, FreshInv, Fresh, LoginSteps, Deletes, Before
<1>9. OwnerInv'
  BY <1>1, <1>2, <1>3, <1>4, <1>5, <1>6, UsersAssumption
  DEF IInv, TypeInv, OwnerInv, Owner, Fresh, Uninterrupted, Deletes, Before, NeedsCookies
<1>10. UserInv'
  BY <1>1, <1>2, <1>3, <1>4, <1>5, <1>6, UsersAssumption
  DEF IInv, TypeInv, OwnerInv, UserInv, Owner, Fresh, Uninterrupted, Deletes, Before, NeedsCookies
<1>11. LogoutInv'
  BY <1>1, <1>2, <1>3, <1>4, <1>5, <1>6, UsersAssumption DEF IInv, TypeInv, LogoutInv, NeedsCookies
<1>12. SettingsInv'
  BY <1>1, <1>2, <1>3, <1>4, <1>5, <1>6, UsersAssumption
  DEF IInv, TypeInv, OwnerInv, FreshInv, SettingsInv, OwnedBy, Owner, Fresh, LoginSteps, Deletes, Before,
      NeedsCookies
<1>13. TenantMatchesSession'
  BY <1>1, <1>3 DEF IInv, TenantMatchesSession, Uninterrupted
<1> QED
  BY <1>7, <1>8, <1>9, <1>10, <1>11, <1>12, <1>13 DEF IInv

LEMMA WriteSettingsKeeps ==
  ASSUME OneProcess, IInv, WriteSettings(CLI)
  PROVE  IInv'
<1>1. CLI \in Processes /\ \A p \in Processes : p = CLI
  BY TheProcess
<1>2. TypeInv /\ At(CLI, "writeSettings") /\ Continue(CLI)
  BY DEF IInv, WriteSettings
<1>3. /\ settingsFile' = IF settings[CLI] = None THEN cookies[CLI] ELSE settings[CLI]
      /\ UNCHANGED <<cookieFile, cookies, userFile, user, settings, account, open, sent, mishaps, loggedOut, command>>
  BY DEF WriteSettings, cookieData, userData, server, history
<1>4. /\ Now = "writeSettings" /\ Now \in Left /\ script[CLI] # <<>>
      /\ \A x \in Left : x = "writeSettings" \/ "writeSettings" \in Before(x)
      /\ cookies[CLI] \in Users
  BY <1>2, NowIsFirst DEF NeedsCookies
<1>5. /\ script' \in [Processes -> Seq(AllSteps)] /\ Scripted(script'[CLI])
      /\ \A x : x \in Left' => x \in Left /\ "writeSettings" \in Before(x)
      /\ \A x : x \in Left => x = "writeSettings" \/ x \in Left'
      /\ IF script'[CLI] = <<>> THEN Now' = "none"
         ELSE Now' \in AllSteps \ {"answer", "keepSettings", "writeUser"} /\ Now' \in Left'
  BY <1>2, GoesOn DEF After, Unfinished
<1>6. cookies[CLI] \in Users /\ settings[CLI] \in Users \cup {None} /\ settingsFile' \in Users
  <2>1. settings[CLI] \in Users \cup {None}
    BY <1>1, <1>2, Types
  <2> QED
    BY <1>3, <1>4, <2>1
<1>7. TypeInv'
  <2>1. TypeOK'
    <3>1. {cookies', user', settings'} \subseteq [Processes -> Users \cup {None}]
      BY <1>2, <1>3, Types
    <3>2. {cookieFile', userFile', settingsFile'} \subseteq Users \cup {NoFile, Torn}
      BY <1>2, <1>3, <1>6, Types
    <3> QED
      BY <1>1, <1>2, <1>3, <1>4, <1>5, <1>6, UsersAssumption, <3>1, <3>2 DEF TypeInv, TypeOK
  <2> QED
    BY <1>1, <1>2, <1>3, <1>4, <1>5, <1>6, UsersAssumption, <2>1 DEF TypeInv, NeedsCookies
<1>8. FreshInv'
  BY <1>1, <1>2, <1>3, <1>4, <1>5, <1>6 DEF IInv, FreshInv, Fresh, LoginSteps, Deletes, Before
<1>9. OwnerInv'
  BY <1>1, <1>2, <1>3, <1>4, <1>5, <1>6, UsersAssumption
  DEF IInv, TypeInv, OwnerInv, Owner, Fresh, Uninterrupted, Deletes, Before, NeedsCookies
<1>10. UserInv'
  BY <1>1, <1>2, <1>3, <1>4, <1>5, <1>6, UsersAssumption
  DEF IInv, TypeInv, OwnerInv, UserInv, Owner, Fresh, Uninterrupted, Deletes, Before, NeedsCookies
<1>11. LogoutInv'
  BY <1>1, <1>2, <1>3, <1>4, <1>5, <1>6, UsersAssumption DEF IInv, TypeInv, LogoutInv, NeedsCookies
<1>12. SettingsInv'
  BY <1>1, <1>2, <1>3, <1>4, <1>5, <1>6, UsersAssumption
  DEF IInv, TypeInv, OwnerInv, FreshInv, SettingsInv, OwnedBy, Owner, Fresh, LoginSteps, Deletes, Before,
      NeedsCookies
<1>13. TenantMatchesSession'
  BY <1>1, <1>3 DEF IInv, TenantMatchesSession, Uninterrupted
<1> QED
  BY <1>7, <1>8, <1>9, <1>10, <1>11, <1>12, <1>13 DEF IInv

LEMMA BrowserAnswersKeeps ==
  ASSUME OneProcess, IInv, BrowserAnswers(CLI)
  PROVE  IInv'
<1>1. CLI \in Processes /\ \A p \in Processes : p = CLI
  BY TheProcess
<1>2. TypeInv /\ At(CLI, "browser") /\ Continue(CLI)
  BY DEF IInv, BrowserAnswers
<1>3. /\ \E u \in Users : cookies' = [cookies EXCEPT ![CLI] = u] /\ open' = open \cup {u}
      /\ loggedOut' = "no"
      /\ UNCHANGED <<cookieFile, userFile, user, settingsFile, settings, account, sent, mishaps, command>>
  BY DEF BrowserAnswers, userData, settingsData
<1>4. /\ Now = "browser" /\ Now \in Left /\ script[CLI] # <<>>
      /\ \A x \in Left : x = "browser" \/ "browser" \in Before(x)
  BY <1>2, NowIsFirst
<1>5. /\ script' \in [Processes -> Seq(AllSteps)] /\ Scripted(script'[CLI])
      /\ \A x : x \in Left' => x \in Left /\ "browser" \in Before(x)
      /\ \A x : x \in Left => x = "browser" \/ x \in Left'
      /\ Now' = "truncateCookie" /\ Now' \in Left'
  BY <1>2, GoesOn DEF After, Unfinished
<1>6. cookies' \in [Processes -> Users \cup {None}] /\ cookies'[CLI] \in Users /\ (open \subseteq Users => open' \subseteq Users)
  BY <1>1, <1>2, <1>3, <1>4, Types
<1>7. TypeInv'
  BY <1>1, <1>2, <1>3, <1>4, <1>5, <1>6, UsersAssumption DEF TypeInv, TypeOK, NeedsCookies
<1>8. FreshInv'
  <2>1. Left' = Left \ {"browser"}
    BY <1>5 DEF Before, Deletes
  <2>2. command' = command /\ settings' = settings /\ settingsFile' = settingsFile /\ userFile' = userFile
    BY <1>3
  <2>3. command[CLI] # "logout"
    BY <1>4 DEF IInv, FreshInv, Fresh, Deletes
  <2> QED
    BY <2>1, <2>2, <2>3 DEF IInv, FreshInv, Fresh, LoginSteps, Deletes
<1>9. OwnerInv'
  BY <1>1, <1>2, <1>3, <1>4, <1>5, <1>6, UsersAssumption
  DEF IInv, TypeInv, OwnerInv, Owner, Fresh, Uninterrupted, Deletes, Before, NeedsCookies
<1>10. UserInv'
  BY <1>1, <1>2, <1>3, <1>4, <1>5, <1>6, UsersAssumption
  DEF IInv, TypeInv, OwnerInv, UserInv, Owner, Fresh, Uninterrupted, Deletes, Before, NeedsCookies
<1>11. LogoutInv'
  BY <1>1, <1>2, <1>3, <1>4, <1>5, <1>6, UsersAssumption DEF IInv, TypeInv, LogoutInv, NeedsCookies
<1>12. SettingsInv'
  BY <1>1, <1>2, <1>3, <1>4, <1>5, <1>6, UsersAssumption
  DEF IInv, TypeInv, OwnerInv, FreshInv, SettingsInv, OwnedBy, Owner, Fresh, LoginSteps, Deletes, Before,
      NeedsCookies
<1>13. TenantMatchesSession'
  BY <1>1, <1>3 DEF IInv, TenantMatchesSession, Uninterrupted
<1> QED
  BY <1>7, <1>8, <1>9, <1>10, <1>11, <1>12, <1>13 DEF IInv

(* A command fails while it asks or reads something ... *)
LEMMA ThrowKeeps ==
  ASSUME OneProcess, IInv, Throw(CLI),
         NEW step \in {"getCookies", "getUser", "request", "tapRequest", "answer", "browser", "readSettings", "telerikLogin"},
         At(CLI, step),
         UNCHANGED <<cookieData, userData, settingsData, open, history, command>>,
         sent' \in {sent, [sent EXCEPT ![CLI] = None]}
  PROVE  IInv'
<1>1. CLI \in Processes /\ \A p \in Processes : p = CLI
  BY TheProcess
<1>2. TypeInv
  BY DEF IInv
<1>3. UNCHANGED <<cookieFile, cookies, userFile, user, settingsFile, settings, account, open, mishaps, loggedOut, command>>
  BY DEF cookieData, userData, settingsData, history
<1>4. /\ Now = step /\ Now \in Left /\ script[CLI] # <<>>
      /\ \A x \in Left : x = step \/ step \in Before(x)
  BY <1>2, NowIsFirst
<1>5. /\ script' \in [Processes -> Seq(AllSteps)] /\ Scripted(script'[CLI])
      /\ Left' = {"throw"} /\ Now' = "throw" /\ script'[CLI] # <<>>
  BY <1>2, Throws
<1>6. /\ sent' \in [Processes -> Requests \cup {None}] /\ sent'[CLI] \in {sent[CLI], None}
  BY <1>1, <1>2, Types
<1>7. /\ Left \cap Deletes = {}
      /\ "writeCookie" \in Left => "browser" \in Left
  <2>1. CASE step = "browser"
    BY <1>4, <2>1 DEF Before, Deletes
  <2>2. CASE step # "browser"
    BY <1>4, <2>2 DEF Before, Deletes
  <2> QED
    BY <2>1, <2>2
<1>8. command[CLI] # "logout" /\ command[CLI] # "none"
  BY <1>2, <1>4, <1>7 DEF IInv, FreshInv, TypeInv
<1>9. Owner' = Owner \/ (cookies[CLI] = None /\ "writeUser" \in Left)
  BY <1>3, <1>5, <1>7 DEF IInv, OwnerInv, Owner, Deletes
<1>10. TypeInv'
  BY <1>2, <1>3, <1>5, <1>6, <1>8 DEF TypeInv, TypeOK, NeedsCookies
<1>11. FreshInv'
  BY <1>3, <1>5, <1>7, <1>8 DEF IInv, FreshInv, Fresh, LoginSteps, Deletes
<1>12. OwnerInv'
  BY <1>3, <1>5, <1>7, <1>9, FilesAssumption DEF IInv, OwnerInv, Owner, Fresh, Uninterrupted, Deletes
<1>13. UserInv'
  BY <1>3, <1>4, <1>5, <1>7, <1>9 DEF IInv, UserInv, Fresh, Uninterrupted, Deletes
<1>14. LogoutInv'
  BY <1>3 DEF IInv, LogoutInv
<1>15. SettingsInv'
  BY <1>3, <1>5, <1>7, <1>9, UsersAssumption DEF IInv, SettingsInv, OwnedBy, Owner, Fresh, Deletes
<1>16. TenantMatchesSession'
  BY <1>1, <1>3, <1>6 DEF IInv, TenantMatchesSession, Uninterrupted
<1> QED
  BY <1>10, <1>11, <1>12, <1>13, <1>14, <1>15, <1>16 DEF IInv

(* ... or is logged out ... *)
LEMMA ClearKeeps ==
  ASSUME OneProcess, IInv, script' = [script EXCEPT ![CLI] = ClearLoginData \o <<"throw">>],
         NEW step \in {"getCookies", "getUser", "answer"}, At(CLI, step),
         UNCHANGED <<cookieData, userData, settingsData, open, loggedOut, command>>,
         \/ mishaps' = mishaps /\ mishaps # {}
         \/ mishaps' = mishaps \cup {"refused"},
         sent' \in {sent, [sent EXCEPT ![CLI] = None]}
  PROVE  IInv'
<1>1. CLI \in Processes /\ \A p \in Processes : p = CLI
  BY TheProcess
<1>2. TypeInv
  BY DEF IInv
<1>3. UNCHANGED <<cookieFile, cookies, userFile, user, settingsFile, settings, account, open, loggedOut, command>>
  BY DEF cookieData, userData, settingsData
<1>4. /\ Now = step /\ Now \in Left /\ script[CLI] # <<>>
      /\ \A x \in Left : x = step \/ step \in Before(x)
  BY <1>2, NowIsFirst
<1>5. /\ script' \in [Processes -> Seq(AllSteps)] /\ Scripted(script'[CLI])
      /\ Left' = {"deleteCookie", "deleteUser", "throw"} /\ Now' = "deleteCookie" /\ script'[CLI] # <<>>
  BY <1>2, Clears
<1>6. /\ sent' \in [Processes -> Requests \cup {None}] /\ sent'[CLI] \in {sent[CLI], None}
  BY <1>1, <1>2, Types
<1>7. Left \cap (Deletes \cup {"writeCookie"}) = {}
  BY <1>4 DEF Before, Deletes
<1>8. command[CLI] # "logout" /\ command[CLI] # "none"
  BY <1>2, <1>4, <1>7 DEF IInv, FreshInv, TypeInv
<1>9. mishaps' # {} /\ (Uninterrupted' => Uninterrupted)
  BY DEF Uninterrupted
<1>10. TypeInv'
  BY <1>2, <1>3, <1>5, <1>6, <1>8 DEF TypeInv, TypeOK, NeedsCookies
<1>11. FreshInv'
  BY <1>3, <1>5, <1>7, <1>8 DEF IInv, FreshInv, Fresh, LoginSteps, Deletes
<1>12. OwnerInv'
  BY <1>3, <1>5, <1>7, <1>9 DEF IInv, OwnerInv, Owner, Fresh
<1>13. UserInv'
  BY <1>5 DEF UserInv
<1>14. LogoutInv'
  BY <1>3 DEF IInv, LogoutInv
<1>15. SettingsInv'
  BY <1>3, <1>5, <1>7, <1>9 DEF IInv, SettingsInv, OwnedBy, Owner, Fresh, Deletes
<1>16. TenantMatchesSession'
  BY <1>1, <1>3, <1>6, <1>9 DEF IInv, TenantMatchesSession
<1> QED
  BY <1>10, <1>11, <1>12, <1>13, <1>14, <1>15, <1>16 DEF IInv

(* ... or goes on, with nothing done. *)
LEMMA PassKeeps ==
  ASSUME OneProcess, IInv, Continue(CLI),
         NEW step \in {"getCookies", "getUser", "ensureLoggedIn", "loadSettings", "telerikLogin", "answer"}, At(CLI, step),
         step \in {"getCookies", "ensureLoggedIn"} => cookies[CLI] # None,
         step = "loadSettings" => settings[CLI] # None,
         UNCHANGED <<cookieData, userData, settingsData, open, history, command>>,
         sent' \in {sent, [sent EXCEPT ![CLI] = None]}
  PROVE  IInv'
<1>1. CLI \in Processes /\ \A p \in Processes : p = CLI
  BY TheProcess
<1>2. TypeInv
  BY DEF IInv
<1>3. UNCHANGED <<cookieFile, cookies, userFile, user, settingsFile, settings, account, open, mishaps, loggedOut, command>>
  BY DEF cookieData, userData, settingsData, history
<1>4. /\ Now = step /\ Now \in Left /\ script[CLI] # <<>>
      /\ \A x \in Left : x = step \/ step \in Before(x)
      /\ step \in NeedsCookies => cookies[CLI] \in Users
  BY <1>2, NowIsFirst
<1>5. /\ script' \in [Processes -> Seq(AllSteps)] /\ Scripted(script'[CLI])
      /\ \A x : x \in Left' => x \in Left
      /\ \A x : x \in Left => x = step \/ x \in Left'
      /\ IF script'[CLI] = <<>> THEN Now' = "none" ELSE Now' \in After(step)
  BY <1>2, GoesOn
<1>6. /\ sent' \in [Processes -> Requests \cup {None}] /\ sent'[CLI] \in {sent[CLI], None}
  BY <1>1, <1>2, Types
<1>7. Left \cap (Deletes \cup {"writeCookie", "browser"}) = {}
  BY <1>4 DEF Before, Deletes
<1>8. command[CLI] # "logout" /\ command[CLI] # "none"
  BY <1>2, <1>4, <1>7 DEF IInv, FreshInv, TypeInv
<1>9. /\ Now' \notin {"answer", "keepSettings", "writeUser"}
      /\ Now' \in NeedsCookies => cookies[CLI] \in Users
  <2>1. step \in {"getUser", "telerikLogin"} => Now' \notin NeedsCookies
    BY <1>5 DEF After, NeedsCookies
  <2>2. step \notin {"getUser", "telerikLogin"} => cookies[CLI] \in Users
    BY <1>1, <1>2, <1>4, Types DEF NeedsCookies
  <2>3. Now' \notin {"answer", "keepSettings", "writeUser"}
    BY <1>5 DEF After, NeedsCookies
  <2> QED
    BY <2>1, <2>2, <2>3
<1>10. TypeInv'
  <2>1. TypeOK'
    BY <1>2, <1>3, <1>5, <1>6, <1>8, <1>9 DEF TypeInv, TypeOK
  <2> QED
    BY <1>2, <1>3, <1>5, <1>6, <1>8, <1>9, <2>1 DEF TypeInv, NeedsCookies
<1>11. FreshInv'
  BY <1>3, <1>5, <1>7, <1>8 DEF IInv, FreshInv, Fresh, LoginSteps, Deletes
<1>12. OwnerInv'
  BY <1>3, <1>5, <1>7 DEF IInv, OwnerInv, Owner, Fresh, Uninterrupted, Deletes
<1>13. UserInv'
  BY <1>3, <1>4, <1>5, <1>7, <1>9 DEF IInv, UserInv, Owner, Fresh, Uninterrupted, Deletes
<1>14. LogoutInv'
  BY <1>3 DEF IInv, LogoutInv
<1>15. SettingsInv'
  BY <1>3, <1>4, <1>5, <1>7 DEF IInv, SettingsInv, OwnedBy, Owner, Fresh, Deletes
<1>16. TenantMatchesSession'
  BY <1>1, <1>3, <1>6 DEF IInv, TenantMatchesSession, Uninterrupted
<1> QED
  BY <1>10, <1>11, <1>12, <1>13, <1>14, <1>15, <1>16 DEF IInv

LEMMA ReadCookiesKeeps ==
  ASSUME OneProcess, IInv, Continue(CLI),
         NEW step \in {"getCookies", "ensureLoggedIn"}, At(CLI, step),
         cookies[CLI] = None, cookieFile \in Users, cookies' = [cookies EXCEPT ![CLI] = cookieFile],
         UNCHANGED <<cookieFile, userData, settingsData, server, history, command>>
  PROVE  IInv'
<1>1. CLI \in Processes /\ \A p \in Processes : p = CLI
  BY TheProcess
<1>2. TypeInv
  BY DEF IInv
<1>3. UNCHANGED <<cookieFile, userFile, user, settingsFile, settings, account, open, sent, mishaps, loggedOut, command>>
  BY DEF userData, settingsData, server, history
<1>4. /\ Now = step /\ Now \in Left /\ script[CLI] # <<>>
      /\ \A x \in Left : x = step \/ step \in Before(x)
  BY <1>2, NowIsFirst
<1>5. /\ script' \in [Processes -> Seq(AllSteps)] /\ Scripted(script'[CLI])
      /\ \A x : x \in Left' => x \in Left
      /\ \A x : x \in Left => x = step \/ x \in Left'
      /\ IF script'[CLI] = <<>> THEN Now' = "none"
         ELSE Now' \in AllSteps \ {"answer", "keepSettings", "writeUser"}
  BY <1>2, GoesOn DEF After
<1>6. cookies' \in [Processes -> Users \cup {None}] /\ cookies'[CLI] = cookieFile
  BY <1>1, <1>2, Types
<1>7. Left \cap (Deletes \cup {"writeCookie", "browser"}) = {}
  BY <1>4 DEF Before, Deletes
<1>8. command[CLI] # "logout" /\ command[CLI] # "none"
  BY <1>2, <1>4, <1>7 DEF IInv, FreshInv, TypeInv
<1>9. settings[CLI] = None
  BY <1>4, UsersAssumption DEF IInv, SettingsInv
<1>10. TypeInv'
  <2>1. TypeOK'
    <3>1. {cookies', user', settings'} \subseteq [Processes -> Users \cup {None}]
      BY <1>2, <1>3, <1>6, Types
    <3>2. {cookieFile', userFile', settingsFile'} \subseteq Users \cup {NoFile, Torn}
      BY <1>2, <1>3, <1>6, Types
    <3> QED
      BY <1>2, <1>3, <1>5, <1>6, <1>8, <3>1, <3>2 DEF TypeInv, TypeOK
  <2> QED
    BY <1>2, <1>3, <1>5, <1>6, <1>8, <2>1 DEF TypeInv
<1>11. FreshInv'
  BY <1>3, <1>5, <1>7, <1>8 DEF IInv, FreshInv, Fresh, LoginSteps, Deletes
<1>12. OwnerInv'
  BY <1>3, <1>5, <1>6, <1>7 DEF IInv, OwnerInv, Owner, Fresh, Uninterrupted, Deletes
<1>13. UserInv'
  BY <1>3, <1>4, <1>5, <1>7 DEF IInv, UserInv, Owner, Fresh, Uninterrupted, Deletes
<1>14. LogoutInv'
  BY <1>3, UsersAssumption DEF IInv, LogoutInv
<1>15. SettingsInv'
  BY <1>3, <1>4, <1>5, <1>7, <1>9 DEF IInv, SettingsInv, OwnedBy, Owner, Fresh, Deletes
<1>16. TenantMatchesSession'
  BY <1>1, <1>3 DEF IInv, TenantMatchesSession, Uninterrupted
<1> QED
  BY <1>10, <1>11, <1>12, <1>13, <1>14, <1>15, <1>16 DEF IInv

(* A file that is not whole was not left so by an uninterrupted command. *)
LEMMA WholeFiles ==
  ASSUME IInv, NEW step \in {"getCookies", "getUser", "ensureLoggedIn"}, At(CLI, step), mishaps = {}
  PROVE  cookieFile # Torn /\ (user[CLI] = None => userFile # Torn)
<1>1. TypeInv
  BY DEF IInv
<1>2. /\ Now = step
      /\ \A x \in Left : x = step \/ step \in Before(x)
  BY <1>1, NowIsFirst
<1>3. Left \cap (Deletes \cup {"writeCookie"}) = {}
  BY <1>2 DEF Before, Deletes
<1>4. cookieFile # Torn
  BY <1>3 DEF IInv, OwnerInv, Uninterrupted, Deletes
<1>5. userFile # Torn
  BY <1>2, <1>3, <1>4, FilesAssumption DEF IInv, UserInv, Owner, Uninterrupted, Deletes
<1> QED
  BY <1>4, <1>5

LEMMA GetCookiesKeeps ==
  ASSUME OneProcess, IInv, GetCookies(CLI)
  PROVE  IInv'
<1>1. /\ At(CLI, "getCookies") /\ UNCHANGED <<cookieFile, userData, settingsData, server, history, command>>
      /\ UNCHANGED <<open, mishaps, loggedOut>> /\ sent' = sent
  BY DEF GetCookies, server, history
<1>2. CASE cookies[CLI] # None /\ Continue(CLI) /\ UNCHANGED cookies
  BY <1>1, <1>2, PassKeeps DEF cookieData
<1>3. CASE cookies[CLI] = None /\ cookieFile \in Users /\ cookies' = [cookies EXCEPT ![CLI] = cookieFile] /\ Continue(CLI)
  BY <1>1, <1>3, ReadCookiesKeeps
<1>4. CASE Throw(CLI) /\ UNCHANGED cookies
  BY <1>1, <1>4, ThrowKeeps DEF cookieData
<1>5. CASE /\ cookies[CLI] = None /\ cookieFile = Torn /\ UNCHANGED cookies
           /\ script' = [script EXCEPT ![CLI] = ClearLoginData \o <<"throw">>]
  <2>1. mishaps # {}
    BY <1>1, <1>5, WholeFiles
  <2> QED
    BY <1>1, <1>5, <2>1, ClearKeeps DEF cookieData
<1> QED
  BY <1>2, <1>3, <1>4, <1>5 DEF GetCookies

LEMMA ReadUserKeeps ==
  ASSUME OneProcess, IInv, Continue(CLI), At(CLI, "getUser"),
         user[CLI] = None, userFile \in Users, user' = [user EXCEPT ![CLI] = userFile],
         UNCHANGED <<userFile, cookieData, settingsData, server, history, command>>
  PROVE  IInv'
<1>1. CLI \in Processes /\ \A p \in Processes : p = CLI
  BY TheProcess
<1>2. TypeInv
  BY DEF IInv
<1>3. UNCHANGED <<cookieFile, cookies, userFile, settingsFile, settings, account, open, sent, mishaps, loggedOut, command>>
  BY DEF cookieData, settingsData, server, history
<1>4. /\ Now = "getUser" /\ Now \in Left /\ script[CLI] # <<>>
      /\ \A x \in Left : x = "getUser" \/ "getUser" \in Before(x)
  BY <1>2, NowIsFirst
<1>5. /\ script' \in [Processes -> Seq(AllSteps)] /\ Scripted(script'[CLI])
      /\ \A x : x \in Left' => x \in Left
      /\ \A x : x \in Left => x = "getUser" \/ x \in Left'
      /\ IF script'[CLI] = <<>> THEN Now' = "none" ELSE Now' \in AllSteps \ NeedsCookies
  BY <1>2, GoesOn DEF After
<1>6. user' \in [Processes -> Users \cup {None}] /\ user'[CLI] = userFile
  BY <1>1, <1>2, Types
<1>7. Left \cap (Deletes \cup {"writeCookie", "browser"}) = {}
  BY <1>4 DEF Before, Deletes
<1>8. command[CLI] # "logout" /\ command[CLI] # "none"
  BY <1>2, <1>4, <1>7 DEF IInv, FreshInv, TypeInv
<1>9. Now' \notin NeedsCookies
  BY <1>5 DEF NeedsCookies
<1>10. TypeInv'
  <2>1. TypeOK'
    <3>1. {cookies', user', settings'} \subseteq [Processes -> Users \cup {None}]
      BY <1>2, <1>3, <1>6, Types
    <3>2. {cookieFile', userFile', settingsFile'} \subseteq Users \cup {NoFile, Torn}
      BY <1>2, <1>3, <1>6, Types
    <3> QED
      BY <1>2, <1>3, <1>5, <1>6, <1>8, <1>9, <3>1, <3>2 DEF TypeInv, TypeOK
  <2> QED
    BY <1>2, <1>3, <1>5, <1>6, <1>8, <1>9, <2>1 DEF TypeInv, NeedsCookies
<1>11. FreshInv'
  BY <1>3, <1>5, <1>7, <1>8 DEF IInv, FreshInv, Fresh, LoginSteps, Deletes
<1>12. OwnerInv'
  BY <1>3, <1>5, <1>7 DEF IInv, OwnerInv, Owner, Fresh, Uninterrupted, Deletes
<1>13. UserInv'
  BY <1>3, <1>4, <1>5, <1>6, <1>7 DEF IInv, UserInv, Owner, Fresh, Uninterrupted, Deletes
<1>14. LogoutInv'
  BY <1>3 DEF IInv, LogoutInv
<1>15. SettingsInv'
  BY <1>3, <1>4, <1>5, <1>7 DEF IInv, SettingsInv, OwnedBy, Owner, Fresh, Deletes
<1>16. TenantMatchesSession'
  BY <1>1, <1>3 DEF IInv, TenantMatchesSession, Uninterrupted
<1> QED
  BY <1>10, <1>11, <1>12, <1>13, <1>14, <1>15, <1>16 DEF IInv

LEMMA GetUserKeeps ==
  ASSUME OneProcess, IInv, GetUser(CLI)
  PROVE  IInv'
<1>1. /\ At(CLI, "getUser") /\ UNCHANGED <<userFile, cookieData, settingsData, server, history, command>>
      /\ UNCHANGED <<open, mishaps, loggedOut>> /\ sent' = sent
  BY DEF GetUser, server, history
<1>2. CASE user[CLI] # None /\ Continue(CLI) /\ UNCHANGED user
  BY <1>1, <1>2, PassKeeps DEF userData
<1>3. CASE user[CLI] = None /\ userFile \in Users /\ user' = [user EXCEPT ![CLI] = userFile] /\ Continue(CLI)
  BY <1>1, <1>3, ReadUserKeeps
<1>4. CASE Throw(CLI) /\ UNCHANGED user
  BY <1>1, <1>4, ThrowKeeps DEF userData
<1>5. CASE /\ user[CLI] = None /\ userFile = Torn /\ UNCHANGED user
           /\ script' = [script EXCEPT ![CLI] = ClearLoginData \o <<"throw">>]
  <2>1. mishaps # {}
    BY <1>1, <1>5, WholeFiles
  <2> QED
    BY <1>1, <1>5, <2>1, ClearKeeps DEF userData
<1> QED
  BY <1>2, <1>3, <1>4, <1>5 DEF GetUser

(* A login that deletes nothing first, or only what is torn. *)
LEMMA LoginFirstKeeps ==
  ASSUME OneProcess, IInv, At(CLI, "ensureLoggedIn"), cookies[CLI] = None,
         \/ cookieFile = NoFile /\ Insert(CLI, DoLogin)
         \/ cookieFile = Torn /\ Insert(CLI, ClearLoginData \o DoLogin),
         UNCHANGED <<cookieData, userData, settingsData, server, history, command>>
  PROVE  IInv'
<1> DEFINE S == IF cookieFile = NoFile THEN {"browser"} \cup FinishSteps
                ELSE {"deleteCookie", "deleteUser"} \cup ({"browser"} \cup FinishSteps)
<1>1. CLI \in Processes /\ \A p \in Processes : p = CLI
  BY TheProcess
<1>2. TypeInv
  BY DEF IInv
<1>3. UNCHANGED <<cookieFile, cookies, userFile, user, settingsFile, settings, account, open, sent, mishaps, loggedOut, command>>
  BY DEF cookieData, userData, settingsData, server, history
<1>4. /\ Now = "ensureLoggedIn" /\ Now \in Left /\ script[CLI] # <<>>
      /\ \A x \in Left : x = "ensureLoggedIn" \/ "ensureLoggedIn" \in Before(x)
  BY <1>2, NowIsFirst
<1>5. /\ \A y \in AllSteps : "ensureLoggedIn" \in Before(y) => \A x \in S : x \in Before(y)
      /\ After("ensureLoggedIn") \subseteq After("writeUser") /\ "writeUser" \notin Unfinished
  BY DEF AllSteps, NeedsCookies, Before, After, Unfinished, Deletes, FinishSteps
<1>6. /\ script' \in [Processes -> Seq(AllSteps)] /\ Scripted(script'[CLI])
      /\ \A x : x \in Left' => x \in S \/ x \in Left
      /\ \A x : x \in Left => x = "ensureLoggedIn" \/ x \in Left'
      /\ \A x \in S : x \in Left'
      /\ Now' \in {"browser", "deleteCookie"} /\ script'[CLI] # <<>>
  <2>1. CASE cookieFile = NoFile /\ Insert(CLI, DoLogin)
    <3>1. /\ \A y \in AllSteps : "ensureLoggedIn" \in Before(y) => \A x \in {"browser"} \cup FinishSteps : x \in Before(y)
          /\ S = {"browser"} \cup FinishSteps
      BY <1>5, <2>1
    <3>2. /\ script' \in [Processes -> Seq(AllSteps)] /\ Scripted(script'[CLI])
          /\ \A x : x \in Left' => x \in {"browser"} \cup FinishSteps \/ (x \in Left /\ "ensureLoggedIn" \in Before(x))
          /\ \A x : x \in Left => x = "ensureLoggedIn" \/ x \in Left'
          /\ \A x \in {"browser"} \cup FinishSteps : x \in Left'
          /\ Now' = "browser" /\ script'[CLI] # <<>>
      BY <2>1, <1>2, <1>5, <3>1, DoLoginBlock, Inserted
    <3> QED
      BY <3>1, <3>2
  <2>2. CASE cookieFile = Torn /\ Insert(CLI, ClearLoginData \o DoLogin)
    <3>1. /\ \A y \in AllSteps : "ensureLoggedIn" \in Before(y) =>
                 \A x \in {"deleteCookie", "deleteUser"} \cup ({"browser"} \cup FinishSteps) : x \in Before(y)
          /\ S = {"deleteCookie", "deleteUser"} \cup ({"browser"} \cup FinishSteps)
      BY <1>5, <2>2, FilesAssumption
    <3>2. /\ script' \in [Processes -> Seq(AllSteps)] /\ Scripted(script'[CLI])
          /\ \A x : x \in Left' => x \in {"deleteCookie", "deleteUser"} \cup ({"browser"} \cup FinishSteps)
                                    \/ (x \in Left /\ "ensureLoggedIn" \in Before(x))
          /\ \A x : x \in Left => x = "ensureLoggedIn" \/ x \in Left'
          /\ \A x \in {"deleteCookie", "deleteUser"} \cup ({"browser"} \cup FinishSteps) : x \in Left'
          /\ Now' = "deleteCookie" /\ script'[CLI] # <<>>
      BY <2>2, <1>2, <1>5, <3>1, ClearAndLoginBlock, Inserted
    <3> QED
      BY <3>1, <3>2
  <2> QED
    BY <2>1, <2>2
<1>7. Left \cap (Deletes \cup {"writeCookie", "browser", "telerikLogin"}) = {}
  BY <1>4 DEF Before, Deletes
<1>8. ~Fresh /\ command[CLI] # "none"
  BY <1>2, <1>4 DEF IInv, FreshInv, TypeInv, Fresh, LoginSteps, Deletes
<1>9. settings[CLI] = None
  BY <1>4, UsersAssumption DEF IInv, SettingsInv
<1>10. {"browser", "writeCookie", "writeUser"} \subseteq Left' /\ "deleteSettings" \notin Left'
       /\ ("deleteCookie" \in Left' => cookieFile = Torn)
  BY <1>6, <1>7 DEF FinishSteps, Deletes
<1>11. mishaps = {} => cookieFile = NoFile
  <2>1. mishaps = {} => cookieFile # Torn
    BY WholeFiles
  <2> QED
    BY <2>1
<1>12. TypeInv'
  BY <1>2, <1>3, <1>6, <1>8 DEF TypeInv, TypeOK, NeedsCookies
<1>13. FreshInv'
  BY <1>3, <1>8, <1>10 DEF FreshInv, Fresh
<1>14. OwnerInv'
  <2>1. "deleteCookie" \notin Left' => cookieFile = NoFile
    BY <1>6 DEF FinishSteps
  <2> QED
    BY <1>3, <1>8, <1>10, <1>11, <2>1, FilesAssumption DEF OwnerInv, Owner, Fresh, Uninterrupted
<1>15. UserInv'
  <2>1. ASSUME "deleteUser" \notin Left'
        PROVE  cookieFile = NoFile
    BY <2>1, <1>6
  <2>2. (Uninterrupted => userFile = NoFile \/ userFile = cookieFile) /\ (user[CLI] # None => userFile = user[CLI])
    BY <1>4, <1>7 DEF IInv, UserInv, Owner, Deletes
  <2> QED
    BY <1>3, <1>8, <2>1, <2>2 DEF UserInv, Owner, Fresh, Uninterrupted
<1>16. LogoutInv'
  BY <1>3 DEF IInv, LogoutInv
<1>17. SettingsInv'
  <2>1. mishaps = {} => settingsFile \notin Users
    BY <1>7, <1>11, UsersAssumption DEF IInv, SettingsInv, OwnedBy, Owner, Deletes
  <2> QED
    BY <1>3, <1>8, <1>9, <2>1 DEF SettingsInv, OwnedBy, Fresh
<1>18. TenantMatchesSession'
  BY <1>1, <1>3 DEF IInv, TenantMatchesSession, Uninterrupted
<1> QED
  BY <1>12, <1>13, <1>14, <1>15, <1>16, <1>17, <1>18 DEF IInv

LEMMA EnsureLoggedInKeeps ==
  ASSUME OneProcess, IInv, EnsureLoggedIn(CLI)
  PROVE  IInv'
<1>1. /\ At(CLI, "ensureLoggedIn") /\ UNCHANGED <<cookieFile, userData, settingsData, server, history, command>>
      /\ UNCHANGED open /\ sent' = sent
  BY DEF EnsureLoggedIn, server
<1>2. CASE cookies[CLI] # None /\ Continue(CLI) /\ UNCHANGED cookies
  BY <1>1, <1>2, PassKeeps DEF cookieData
<1>3. CASE cookies[CLI] = None /\ cookieFile \in Users /\ cookies' = [cookies EXCEPT ![CLI] = cookieFile] /\ Continue(CLI)
  BY <1>1, <1>3, ReadCookiesKeeps
<1>4. CASE cookies[CLI] = None /\ cookieFile = NoFile /\ Insert(CLI, DoLogin) /\ UNCHANGED cookies
  BY <1>1, <1>4, LoginFirstKeeps DEF cookieData
<1>5. CASE cookies[CLI] = None /\ cookieFile = Torn /\ Insert(CLI, ClearLoginData \o DoLogin) /\ UNCHANGED cookies
  BY <1>1, <1>5, LoginFirstKeeps DEF cookieData
<1> QED
  BY <1>2, <1>3, <1>4, <1>5 DEF EnsureLoggedIn

LEMMA TelerikLoginKeeps ==
  ASSUME OneProcess, IInv, TelerikLogin(CLI)
  PROVE  IInv'
<1>1. CLI \in Processes /\ \A p \in Processes : p = CLI
  BY TheProcess
<1>2. /\ TypeInv /\ At(CLI, "telerikLogin")
      /\ UNCHANGED <<cookieFile, sent, userFile, user, settingsFile, settings, account, command>>
  BY DEF IInv, TelerikLogin, userData, settingsData
<1>3. CASE Continue(CLI) /\ UNCHANGED <<cookies, open, loggedOut, mishaps>>
  BY <1>2, <1>3, PassKeeps DEF cookieData, userData, settingsData, history
<1>4. CASE Throw(CLI) /\ UNCHANGED <<cookies, open, loggedOut, mishaps>>
  BY <1>2, <1>4, ThrowKeeps DEF cookieData, userData, settingsData, history
<1>5. ASSUME NEW u \in Users, cookies' = [cookies EXCEPT ![CLI] = u], open' = open \cup {u},
             loggedOut' = "no", mishaps' = mishaps \cup {"dev login"}, Insert(CLI, FinishLogin)
      PROVE  IInv'
  <2>1. /\ Now = "telerikLogin" /\ Now \in Left /\ script[CLI] # <<>>
        /\ \A x \in Left : x = "telerikLogin" \/ "telerikLogin" \in Before(x)
    BY <1>2, NowIsFirst
  <2>2. /\ \A y \in AllSteps : "telerikLogin" \in Before(y) => \A x \in FinishSteps : x \in Before(y)
        /\ After("telerikLogin") \subseteq After("writeUser") /\ "writeUser" \notin Unfinished
    BY DEF AllSteps, NeedsCookies, Before, After, Unfinished, Deletes, FinishSteps
  <2>3. /\ script' \in [Processes -> Seq(AllSteps)] /\ Scripted(script'[CLI])
        /\ \A x : x \in Left' => x \in FinishSteps \/ (x \in Left /\ "telerikLogin" \in Before(x))
        /\ \A x : x \in Left => x = "telerikLogin" \/ x \in Left'
        /\ \A x \in FinishSteps : x \in Left'
        /\ Now' = "truncateCookie" /\ script'[CLI] # <<>>
    <3>1. TypeInv /\ At(CLI, "telerikLogin") /\ Insert(CLI, FinishLogin)
      BY <1>2, <1>5
    <3> QED
      BY <3>1, <2>2, FinishLoginBlock, Inserted
  <2>4. cookies' \in [Processes -> Users \cup {None}] /\ cookies'[CLI] = u
    BY <1>1, <1>2, <1>5, Types
  <2>5. Left \cap (Deletes \cup {"writeCookie", "browser"}) = {} /\ Left' \cap (Deletes \cup {"browser", "telerikLogin"}) = {}
    BY <2>1, <2>3 DEF Before, Deletes, FinishSteps
  <2>6. ~Fresh /\ command[CLI] # "none" /\ mishaps' # {} /\ ~Uninterrupted'
    BY <1>2, <1>5, <2>1 DEF IInv, FreshInv, TypeInv, Fresh, LoginSteps, Deletes, Uninterrupted
  <2>7. settings[CLI] = None
    BY <2>1 DEF IInv, SettingsInv
  <2>8. "writeCookie" \in Left'
    BY <2>3 DEF FinishSteps
  <2>9. TypeInv'
    BY <1>2, <1>5, <2>3, <2>4, <2>6 DEF TypeInv, TypeOK, NeedsCookies
  <2>10. FreshInv'
    BY <1>2, <2>5, <2>6 DEF FreshInv, Fresh, Deletes
  <2>11. OwnerInv'
    BY <1>2, <2>5, <2>6, <2>8 DEF OwnerInv, Owner, Fresh, Deletes
  <2>12. UserInv'
    BY <1>2, <2>1, <2>5, <2>6 DEF IInv, UserInv, Fresh, Deletes
  <2>13. LogoutInv'
    BY <1>5 DEF LogoutInv
  <2>14. SettingsInv'
    BY <1>2, <2>6, <2>7 DEF SettingsInv, Fresh
  <2>15. TenantMatchesSession'
    BY <2>6 DEF TenantMatchesSession
  <2> QED
    BY <2>9, <2>10, <2>11, <2>12, <2>13, <2>14, <2>15 DEF IInv
<1> QED
  BY <1>3, <1>4, <1>5 DEF TelerikLogin

(* The steps of a call. *)
LEMMA OutdatedKeeps ==
  ASSUME OneProcess, IInv, Outdated(CLI)
  PROVE  IInv'
BY ThrowKeeps DEF Outdated, server, history

LEMMA CallFailsKeeps ==
  ASSUME OneProcess, IInv, CallFails(CLI)
  PROVE  IInv'
BY ThrowKeeps DEF CallFails

LEMMA BrowserTimeoutKeeps ==
  ASSUME OneProcess, IInv, BrowserTimeout(CLI)
  PROVE  IInv'
BY ThrowKeeps DEF BrowserTimeout, server, history

LEMMA RefusedKeeps ==
  ASSUME OneProcess, IInv, Refused(CLI)
  PROVE  IInv'
BY ClearKeeps DEF Refused

LEMMA AnsweredKeeps ==
  ASSUME OneProcess, IInv, Answered(CLI)
  PROVE  IInv'
<1>1. CLI \in Processes /\ \A p \in Processes : p = CLI
  BY TheProcess
<1>2. /\ TypeInv /\ At(CLI, "answer") /\ sent' = [sent EXCEPT ![CLI] = None]
      /\ UNCHANGED <<cookieFile, cookies, userFile, user, settingsFile, settings, account, open, mishaps, loggedOut, command>>
  BY DEF IInv, Answered, cookieData, userData, settingsData, history
<1>3. CASE Continue(CLI)
  BY <1>2, <1>3, PassKeeps DEF cookieData, userData, settingsData, history
<1>4. CASE Insert(CLI, SetCookies)
  <2>1. /\ Now = "answer" /\ Now \in Left /\ script[CLI] # <<>>
        /\ \A x \in Left : x = "answer" \/ "answer" \in Before(x)
        /\ cookies[CLI] \in Users
    BY <1>2, NowIsFirst DEF NeedsCookies
  <2>2. /\ \A y \in AllSteps : "answer" \in Before(y) => \A x \in {"truncateCookie", "writeCookie"} : x \in Before(y)
        /\ After("answer") \subseteq After("writeCookie") /\ "writeCookie" \notin Unfinished
    BY DEF AllSteps, NeedsCookies, Before, After, Unfinished, Deletes
  <2>3. /\ script' \in [Processes -> Seq(AllSteps)] /\ Scripted(script'[CLI])
        /\ \A x : x \in Left' => x \in {"truncateCookie", "writeCookie"} \/ (x \in Left /\ "answer" \in Before(x))
        /\ \A x : x \in Left => x = "answer" \/ x \in Left'
        /\ \A x \in {"truncateCookie", "writeCookie"} : x \in Left'
        /\ Now' = "truncateCookie" /\ script'[CLI] # <<>>
    <3>1. TypeInv /\ At(CLI, "answer") /\ Insert(CLI, SetCookies)
      BY <1>2, <1>4
    <3> QED
      BY <3>1, <2>2, SetCookiesBlock, Inserted
  <2>4. sent' \in [Processes -> Requests \cup {None}] /\ sent'[CLI] = None
    BY <1>1, <1>2, Types
  <2>5. Left \cap (Deletes \cup {"writeCookie", "browser"}) = {} /\ Left' \cap (Deletes \cup {"browser"}) = {}
    BY <2>1, <2>3 DEF Before, Deletes
  <2>6. command[CLI] # "logout" /\ command[CLI] # "none"
    BY <1>2, <2>1, <2>5 DEF IInv, FreshInv, TypeInv
  <2>7. Owner = cookies[CLI] /\ Owner' = Owner /\ Owner = cookieFile
    BY <1>2, <2>1, <2>3, <2>5, UsersAssumption DEF IInv, OwnerInv, Owner
  <2>8. TypeInv'
    BY <1>2, <2>1, <2>3, <2>4, <2>6 DEF TypeInv, TypeOK, NeedsCookies
  <2>9. FreshInv'
    BY <1>2, <2>3, <2>5, <2>6 DEF IInv, FreshInv, Fresh, LoginSteps, Deletes
  <2>10. OwnerInv'
    BY <1>2, <2>3, <2>5, <2>7 DEF OwnerInv, Deletes
  <2>11. UserInv'
    BY <1>2, <2>1, <2>3, <2>5, <2>7 DEF IInv, UserInv, Fresh, Uninterrupted, Deletes
  <2>12. LogoutInv'
    BY <1>2 DEF IInv, LogoutInv
  <2>13. SettingsInv'
    BY <1>2, <2>1, <2>3, <2>5, <2>7 DEF IInv, SettingsInv, OwnedBy, Fresh, Deletes
  <2>14. TenantMatchesSession'
    BY <1>1, <2>4 DEF TenantMatchesSession
  <2> QED
    BY <2>8, <2>9, <2>10, <2>11, <2>12, <2>13, <2>14 DEF IInv
<1> QED
  BY <1>3, <1>4 DEF Answered

LEMMA SendRequestKeeps ==
  ASSUME OneProcess, IInv, SendRequest(CLI)
  PROVE  IInv'
<1>1. CLI \in Processes /\ \A p \in Processes : p = CLI
  BY TheProcess
<1>2. /\ TypeInv /\ Continue(CLI)
      /\ UNCHANGED <<cookieFile, cookies, userFile, user, settingsFile, settings, account, open, mishaps, loggedOut, command>>
  BY DEF IInv, SendRequest, cookieData, userData, settingsData, history
<1>3. PICK step \in {"request", "tapRequest"} :
        /\ At(CLI, step)
        /\ sent' = [sent EXCEPT ![CLI] = [session |-> cookies[CLI],
                                          tenant |-> IF step = "request" THEN None ELSE user[CLI]]]
  BY DEF SendRequest
<1>4. /\ Now = step /\ Now \in Left /\ script[CLI] # <<>>
      /\ \A x \in Left : x = step \/ step \in Before(x)
      /\ cookies[CLI] \in Users
  BY <1>2, <1>3, NowIsFirst DEF NeedsCookies
<1>5. /\ script' \in [Processes -> Seq(AllSteps)] /\ Scripted(script'[CLI])
      /\ \A x : x \in Left' => x \in Left
      /\ \A x : x \in Left => x = step \/ x \in Left'
      /\ IF script'[CLI] = <<>> THEN Now' = "none" ELSE Now' \in {"answer", "keepSettings"}
  BY <1>2, <1>3, GoesOn DEF After
<1>6. /\ user[CLI] \in Users \cup {None} /\ sent \in [Processes -> Requests \cup {None}]
  BY <1>1, <1>2, Types
<1>7. /\ sent' \in [Processes -> Requests \cup {None}] /\ sent'[CLI] \in Requests /\ sent'[CLI].session = cookies[CLI]
      /\ sent'[CLI].tenant \in {None, user[CLI]}
  BY <1>1, <1>3, <1>4, <1>6 DEF Requests
<1>8. Left \cap (Deletes \cup {"writeCookie", "browser"}) = {}
  BY <1>3, <1>4 DEF Before, Deletes
<1>9. command[CLI] # "logout" /\ command[CLI] # "none"
  BY <1>2, <1>4, <1>8 DEF IInv, FreshInv, TypeInv
<1>10. Owner = cookies[CLI]
  BY <1>4, UsersAssumption DEF IInv, OwnerInv
<1>11. TypeInv'
  BY <1>2, <1>4, <1>5, <1>7, <1>9 DEF TypeInv, TypeOK, NeedsCookies
<1>12. FreshInv'
  BY <1>2, <1>5, <1>8, <1>9 DEF IInv, FreshInv, Fresh, LoginSteps, Deletes
<1>13. OwnerInv'
  BY <1>2, <1>5, <1>8 DEF IInv, OwnerInv, Owner, Fresh, Uninterrupted, Deletes
<1>14. UserInv'
  BY <1>2, <1>3, <1>4, <1>5, <1>8 DEF IInv, UserInv, Owner, Fresh, Uninterrupted, Deletes
<1>15. LogoutInv'
  BY <1>2 DEF IInv, LogoutInv
<1>16. SettingsInv'
  BY <1>2, <1>3, <1>4, <1>5, <1>8 DEF IInv, SettingsInv, OwnedBy, Owner, Fresh, Deletes
<1>17. TenantMatchesSession'
  <2>1. Uninterrupted /\ user[CLI] # None => user[CLI] = cookies[CLI]
    BY <1>3, <1>4, <1>6, <1>8, <1>10, UsersAssumption DEF IInv, UserInv, Deletes
  <2> QED
    BY <1>1, <1>2, <1>7, <2>1 DEF TenantMatchesSession, Uninterrupted
<1> QED
  BY <1>11, <1>12, <1>13, <1>14, <1>15, <1>16, <1>17 DEF IInv

(* The steps of the settings. *)
LEMMA OpenSettingsKeeps ==
  ASSUME OneProcess, IInv, OpenSettings(CLI)
  PROVE  IInv'
<1>1. CLI \in Processes /\ \A p \in Processes : p = CLI
  BY TheProcess
<1>2. /\ TypeInv /\ Continue(CLI) /\ settingsFile' = Torn
      /\ UNCHANGED <<cookieFile, cookies, userFile, user, settings, account, open, sent, mishaps, loggedOut, command>>
  BY DEF IInv, OpenSettings, cookieData, userData, server, history
<1>3. PICK step \in {"openSettings", "truncateSettings"} : At(CLI, step)
  BY DEF OpenSettings
<1>4. /\ Now = step /\ Now \in Left /\ script[CLI] # <<>>
      /\ \A x \in Left : x = step \/ step \in Before(x)
      /\ cookies[CLI] \in Users
  BY <1>2, <1>3, NowIsFirst DEF NeedsCookies
<1>5. /\ script' \in [Processes -> Seq(AllSteps)] /\ Scripted(script'[CLI])
      /\ \A x : x \in Left' => x \in Left
      /\ \A x : x \in Left => x = step \/ x \in Left'
      /\ IF script'[CLI] = <<>> THEN Now' = "none"
         ELSE Now' \in AllSteps \ {"answer", "keepSettings", "writeUser"}
  BY <1>2, <1>3, GoesOn DEF After
<1>6. Left \cap (Deletes \cup {"writeCookie", "browser"}) = {}
  BY <1>3, <1>4 DEF Before, Deletes
<1>7. ~Fresh /\ command[CLI] # "none"
  BY <1>2, <1>3, <1>4, <1>6 DEF IInv, FreshInv, TypeInv, Fresh, LoginSteps, Deletes
<1>8. TypeInv'
  BY <1>2, <1>4, <1>5, <1>7 DEF TypeInv, TypeOK, NeedsCookies
<1>9. FreshInv'
  BY <1>2, <1>5, <1>6, <1>7 DEF IInv, FreshInv, Fresh, LoginSteps, Deletes
<1>10. OwnerInv'
  BY <1>2, <1>5, <1>6 DEF IInv, OwnerInv, Owner, Fresh, Uninterrupted, Deletes
<1>11. UserInv'
  BY <1>2, <1>3, <1>4, <1>5, <1>6 DEF IInv, UserInv, Owner, Fresh, Uninterrupted, Deletes
<1>12. LogoutInv'
  BY <1>2, <1>4, UsersAssumption DEF IInv, LogoutInv
<1>13. SettingsInv'
  BY <1>2, <1>3, <1>4, <1>5, <1>6, UsersAssumption DEF IInv, SettingsInv, OwnedBy, Owner, Fresh, Deletes
<1>14. TenantMatchesSession'
  BY <1>1, <1>2 DEF IInv, TenantMatchesSession, Uninterrupted
<1> QED
  BY <1>8, <1>9, <1>10, <1>11, <1>12, <1>13, <1>14 DEF IInv

(* The settings in the file are read into the cache. *)
LEMMA ReadFileKeeps ==
  ASSUME OneProcess, IInv, Continue(CLI),
         NEW step \in {"loadSettings", "readSettings"}, At(CLI, step),
         settings' = [settings EXCEPT ![CLI] = InSettingsFile],
         UNCHANGED <<settingsFile, account, cookieData, userData, server, history, command>>
  PROVE  IInv'
<1>1. CLI \in Processes /\ \A p \in Processes : p = CLI
  BY TheProcess
<1>2. /\ TypeInv
      /\ UNCHANGED <<cookieFile, cookies, userFile, user, settingsFile, account, open, sent, mishaps, loggedOut, command>>
  BY DEF IInv, cookieData, userData, server, history
<1>3. /\ Now = step /\ Now \in Left /\ script[CLI] # <<>>
      /\ \A x \in Left : x = step \/ step \in Before(x)
      /\ cookies[CLI] \in Users
  BY <1>2, NowIsFirst DEF NeedsCookies
<1>4. /\ script' \in [Processes -> Seq(AllSteps)] /\ Scripted(script'[CLI])
      /\ \A x : x \in Left' => x \in Left
      /\ \A x : x \in Left => x = step \/ x \in Left'
      /\ IF script'[CLI] = <<>> THEN Now' = "none"
         ELSE Now' \in AllSteps \ {"answer", "keepSettings", "writeUser"}
  BY <1>2, GoesOn DEF After
<1>5. /\ settings' \in [Processes -> Users \cup {None}]
      /\ settings'[CLI] = IF settingsFile \in Users THEN settingsFile ELSE None
  BY <1>1, <1>2, Types DEF InSettingsFile
<1>6. /\ Left \cap (Deletes \cup {"writeCookie", "browser", "telerikLogin"}) = {}
      /\ Left' \cap (Deletes \cup {"browser", "telerikLogin"}) = {}
  BY <1>3, <1>4 DEF Before, Deletes
<1>7. ~Fresh /\ command[CLI] # "none"
  BY <1>2, <1>3 DEF IInv, FreshInv, TypeInv, Fresh, LoginSteps, Deletes
<1>8. Owner = cookies[CLI] /\ Owner' = Owner
  BY <1>2, <1>3, <1>4, <1>6, UsersAssumption DEF IInv, OwnerInv, Owner
<1>9. TypeInv'
  <2>1. TypeOK'
    <3>1. {cookies', user', settings'} \subseteq [Processes -> Users \cup {None}]
      BY <1>2, <1>5, Types
    <3>2. {cookieFile', userFile', settingsFile'} \subseteq Users \cup {NoFile, Torn}
      BY <1>2, <1>5, Types
    <3> QED
      BY <1>2, <1>3, <1>4, <1>5, <1>7, <3>1, <3>2 DEF TypeInv, TypeOK
  <2> QED
    BY <1>2, <1>3, <1>4, <1>5, <1>7, <2>1 DEF TypeInv, NeedsCookies
<1>10. FreshInv'
  BY <1>2, <1>6, <1>7 DEF FreshInv, Fresh, Deletes
<1>11. OwnerInv'
  BY <1>2, <1>4, <1>6 DEF IInv, OwnerInv, Owner, Fresh, Uninterrupted, Deletes
<1>12. UserInv'
  BY <1>2, <1>3, <1>4, <1>6 DEF IInv, UserInv, Owner, Fresh, Uninterrupted, Deletes
<1>13. LogoutInv'
  BY <1>2 DEF IInv, LogoutInv
<1>14. SettingsInv'
  <2>1. mishaps = {} /\ settingsFile \in Users => OwnedBy(settingsFile, cookies[CLI])
    BY <1>6, <1>8 DEF IInv, SettingsInv, Deletes
  <2>2. settings'[CLI] # None => settingsFile \in Users /\ settings'[CLI] = settingsFile
    BY <1>5
  <2>3. settings'[CLI] # None => cookies'[CLI] \in Users /\ Left' \cap {"browser", "telerikLogin", "deleteUser"} = {}
    BY <1>2, <1>3, <1>6 DEF Deletes
  <2>4. settingsFile \in Users => settings'[CLI] # None
    BY <1>5, UsersAssumption
  <2> QED
    BY <1>2, <1>7, <1>8, <2>1, <2>2, <2>3, <2>4 DEF SettingsInv, OwnedBy, Fresh
<1>15. TenantMatchesSession'
  BY <1>1, <1>2 DEF IInv, TenantMatchesSession, Uninterrupted
<1> QED
  BY <1>9, <1>10, <1>11, <1>12, <1>13, <1>14, <1>15 DEF IInv

LEMMA ReadSettingsKeeps ==
  ASSUME OneProcess, IInv, ReadSettings(CLI)
  PROVE  IInv'
<1>1. /\ At(CLI, "readSettings") /\ UNCHANGED <<settingsFile, account, cookieData, userData, server, history, command>>
      /\ UNCHANGED open /\ sent' = sent
  BY DEF ReadSettings, server
<1>2. CASE Throw(CLI) /\ UNCHANGED settings
  BY <1>1, <1>2, ThrowKeeps DEF settingsData
<1>3. CASE settings' = [settings EXCEPT ![CLI] = InSettingsFile] /\ Continue(CLI)
  BY <1>1, <1>3, ReadFileKeeps
<1> QED
  BY <1>2, <1>3 DEF ReadSettings

LEMMA LoadSettingsKeeps ==
  ASSUME OneProcess, IInv, LoadSettings(CLI)
  PROVE  IInv'
<1>1. CLI \in Processes /\ \A p \in Processes : p = CLI
  BY TheProcess
<1>2. /\ TypeInv /\ At(CLI, "loadSettings")
      /\ UNCHANGED <<cookieFile, cookies, userFile, user, settingsFile, account, open, sent, mishaps, loggedOut, command>>
  BY DEF IInv, LoadSettings, cookieData, userData, server, history
<1>3. CASE settings[CLI] # None /\ Continue(CLI) /\ UNCHANGED settings
  BY <1>2, <1>3, PassKeeps DEF cookieData, userData, settingsData, history
<1>4. CASE settings' = [settings EXCEPT ![CLI] = InSettingsFile] /\ Continue(CLI)
  BY <1>2, <1>4, ReadFileKeeps DEF cookieData, userData, server, history
<1>5. CASE settings[CLI] = None /\ Insert(CLI, Download) /\ UNCHANGED settings
  <2> DEFINE S == ({"openSettings"} \cup {"getCookies", "request", "answer"}) \cup {"storeSettings"}
  <2>1. /\ Now = "loadSettings" /\ Now \in Left /\ script[CLI] # <<>>
        /\ \A x \in Left : x = "loadSettings" \/ "loadSettings" \in Before(x)
        /\ cookies[CLI] \in Users
    BY <1>2, NowIsFirst DEF NeedsCookies
  <2>2. /\ \A y \in AllSteps : "loadSettings" \in Before(y) => \A x \in S : x \in Before(y)
        /\ After("loadSettings") \subseteq After("storeSettings") /\ "storeSettings" \notin Unfinished
    BY DEF AllSteps, NeedsCookies, Before, After, Unfinished, Deletes
  <2>3. /\ script' \in [Processes -> Seq(AllSteps)] /\ Scripted(script'[CLI])
        /\ \A x : x \in Left' => x \in S \/ (x \in Left /\ "loadSettings" \in Before(x))
        /\ \A x : x \in Left => x = "loadSettings" \/ x \in Left'
        /\ \A x \in S : x \in Left'
        /\ Now' = "openSettings" /\ script'[CLI] # <<>>
    <3>1. TypeInv /\ At(CLI, "loadSettings") /\ Insert(CLI, Download)
      BY <1>2, <1>5
    <3> QED
      BY <3>1, <2>2, DownloadBlock, Inserted
  <2>4. /\ Left \cap (Deletes \cup {"writeCookie", "browser"}) = {}
        /\ Left' \cap (Deletes \cup {"writeCookie", "browser"}) = {} /\ "storeSettings" \in Left'
        /\ ("writeUser" \in Left <=> "writeUser" \in Left')
    BY <2>1, <2>3 DEF Before, Deletes
  <2>5. ~Fresh /\ command[CLI] # "none"
    BY <1>2, <2>1 DEF IInv, FreshInv, TypeInv, Fresh, LoginSteps, Deletes
  <2>6. TypeInv'
    BY <1>2, <1>5, <2>1, <2>3, <2>5 DEF TypeInv, TypeOK, NeedsCookies
  <2>7. FreshInv'
    BY <1>2, <2>4, <2>5 DEF FreshInv, Fresh, Deletes
  <2>8. OwnerInv'
    BY <1>2, <2>4 DEF IInv, OwnerInv, Owner, Fresh, Uninterrupted, Deletes
  <2>9. UserInv'
    BY <1>2, <2>1, <2>3, <2>4 DEF IInv, UserInv, Owner, Fresh, Uninterrupted, Deletes
  <2>10. LogoutInv'
    BY <1>2 DEF IInv, LogoutInv
  <2>11. SettingsInv'
    BY <1>2, <1>5, <2>4, <2>5 DEF IInv, SettingsInv, OwnedBy, Owner, Fresh, Deletes
  <2>12. TenantMatchesSession'
    BY <1>1, <1>2 DEF IInv, TenantMatchesSession, Uninterrupted
  <2> QED
    BY <2>6, <2>7, <2>8, <2>9, <2>10, <2>11, <2>12 DEF IInv
<1> QED
  BY <1>3, <1>4, <1>5 DEF LoadSettings

(* What the server keeps for the user is the user's. *)
LEMMA Kept ==
  ASSUME OneProcess, IInv, KeepSettings(CLI)
  PROVE  /\ cookies[CLI] \in Users /\ account' \in [Users -> Users \cup {None}]
         /\ \/ account' = account
            \/ account' = [account EXCEPT ![cookies[CLI]] = IF settings[CLI] = None THEN cookies[CLI] ELSE settings[CLI]]
<1>1. TypeInv /\ At(CLI, "keepSettings") /\ CLI \in Processes
  BY TheProcess DEF IInv, KeepSettings
<1>2. Now = "keepSettings" /\ cookies[CLI] \in Users
  BY <1>1, NowIsFirst DEF NeedsCookies
<1>3. sent[CLI].session = cookies[CLI]
  BY <1>1, <1>2 DEF TypeInv
<1>4. settings[CLI] \in Users \cup {None} /\ account \in [Users -> Users \cup {None}]
  BY <1>1, Types
<1> QED
  BY <1>2, <1>3, <1>4 DEF KeepSettings

LEMMA KeepSettingsKeeps ==
  ASSUME OneProcess, IInv, KeepSettings(CLI)
  PROVE  IInv'
<1>1. CLI \in Processes /\ \A p \in Processes : p = CLI
  BY TheProcess
<1>2. /\ TypeInv /\ Continue(CLI) /\ At(CLI, "keepSettings")
      /\ UNCHANGED <<cookieFile, cookies, userFile, user, settingsFile, settings, open, sent, mishaps, loggedOut, command>>
  BY DEF IInv, KeepSettings, cookieData, userData, server, history
<1>3. /\ Now = "keepSettings" /\ Now \in Left /\ script[CLI] # <<>>
      /\ \A x \in Left : x = "keepSettings" \/ "keepSettings" \in Before(x)
      /\ cookies[CLI] \in Users
  BY <1>2, NowIsFirst DEF NeedsCookies
<1>4. /\ script' \in [Processes -> Seq(AllSteps)] /\ Scripted(script'[CLI])
      /\ \A x : x \in Left' => x \in Left
      /\ \A x : x \in Left => x = "keepSettings" \/ x \in Left'
      /\ IF script'[CLI] = <<>> THEN Now' = "none" ELSE Now' = "answer"
  BY <1>2, GoesOn DEF After
<1>5. Left \cap (Deletes \cup {"writeCookie", "browser", "storeSettings", "readSettings"}) = {}
  BY <1>3 DEF Before, Deletes
<1>6. ~Fresh /\ command[CLI] # "none"
  BY <1>2, <1>3 DEF IInv, FreshInv, TypeInv, Fresh, LoginSteps, Deletes
<1>7. Owner = cookies[CLI] /\ Owner' = Owner
  BY <1>2, <1>3, <1>4, <1>5, UsersAssumption DEF IInv, OwnerInv, Owner
<1>8. TypeInv'
  BY <1>2, <1>3, <1>4, <1>6, Kept DEF TypeInv, TypeOK, NeedsCookies
<1>9. FreshInv'
  BY <1>2, <1>4, <1>5, <1>6 DEF FreshInv, Fresh, Deletes
<1>10. OwnerInv'
  BY <1>2, <1>4, <1>5 DEF IInv, OwnerInv, Owner, Fresh, Uninterrupted, Deletes
<1>11. UserInv'
  BY <1>2, <1>3, <1>4, <1>5 DEF IInv, UserInv, Owner, Fresh, Uninterrupted, Deletes
<1>12. LogoutInv'
  BY <1>2 DEF IInv, LogoutInv
<1>13. SettingsInv'
  <2>1. account[cookies[CLI]] \in Users \cup {None}
    BY <1>2, <1>3, Types
  <2>2. ASSUME mishaps = {}
        PROVE  /\ settingsFile \in Users => OwnedBy(settingsFile, cookies[CLI])'
               /\ settings[CLI] # None => OwnedBy(settings[CLI], cookies[CLI])' /\ settingsFile \in {settings[CLI], Torn}
    <3>1. /\ settingsFile \in Users => OwnedBy(settingsFile, cookies[CLI])
          /\ settings[CLI] # None => OwnedBy(settings[CLI], cookies[CLI]) /\ settingsFile \in {settings[CLI], Torn}
          /\ settings[CLI] # None \/ settingsFile \notin Users
      BY <1>3, <1>5, <1>7, <2>2, UsersAssumption DEF IInv, SettingsInv, Deletes
    <3>2. CASE account' = account
      BY <1>2, <3>1, <3>2 DEF OwnedBy
    <3>3. CASE account' = [account EXCEPT ![cookies[CLI]] = IF settings[CLI] = None THEN cookies[CLI] ELSE settings[CLI]]
      <4>1. account'[cookies[CLI]] = IF settings[CLI] = None THEN cookies[CLI] ELSE settings[CLI]
        BY <1>2, <1>3, <3>3, Types
      <4> QED
        BY <1>2, <1>3, <3>1, <4>1, UsersAssumption DEF OwnedBy
    <3> QED
      BY <3>2, <3>3, Kept
  <2>3. settings[CLI] # None => Left \cap {"browser", "telerikLogin", "deleteUser"} = {}
    BY <1>3 DEF IInv, SettingsInv
  <2> QED
    BY <1>2, <1>3, <1>4, <1>5, <1>6, <1>7, <2>2, <2>3 DEF IInv, SettingsInv, Fresh, Deletes
<1>14. TenantMatchesSession'
  BY <1>1, <1>2 DEF IInv, TenantMatchesSession, Uninterrupted
<1> QED
  BY <1>8, <1>9, <1>10, <1>11, <1>12, <1>13, <1>14 DEF IInv

--------------------------------------------------------------------------
(* Commands begin and end. *)
LEMMA Idles ==
  ASSUME IInv, command[CLI] = "none"
  PROVE  /\ script[CLI] = <<>> /\ Left = {} /\ Now = "none" /\ ~Fresh
         /\ cookies[CLI] = None /\ user[CLI] = None /\ settings[CLI] = None /\ sent[CLI] = None
BY NothingScripted DEF IInv, TypeInv, Left, Now, Fresh

LEMMA StartKeeps ==
  ASSUME OneProcess, IInv, NEW c \in Commands, Start(CLI, c)
  PROVE  IInv'
<1>1. CLI \in Processes /\ \A p \in Processes : p = CLI
  BY TheProcess
<1>2. /\ TypeInv /\ command[CLI] = "none"
      /\ command' = [command EXCEPT ![CLI] = c] /\ script' = [script EXCEPT ![CLI] = Steps(c)]
      /\ loggedOut' \in {loggedOut, "begun"} /\ (c # "logout" => loggedOut' = loggedOut)
      /\ UNCHANGED <<cookieFile, cookies, userFile, user, settingsFile, settings, account, open, sent, mishaps>>
  BY DEF IInv, Start, cookieData, userData, settingsData, server
<1>3. c \in {"login", "logout", "dev-telerik-login", "user", "build", "cloud list", "get setting", "save setting", "debug"}
  BY CommandsAssumption
<1>4. /\ Left = {} /\ Now = "none" /\ ~Fresh
      /\ cookies[CLI] = None /\ user[CLI] = None /\ settings[CLI] = None /\ sent[CLI] = None
  BY <1>2, Idles
<1>5. /\ script' \in [Processes -> Seq(AllSteps)] /\ Scripted(script'[CLI])
      /\ Left' = StepsOf(Steps(c)) /\ Now' = Head(Steps(c)) /\ script'[CLI] # <<>>
  <2>1. Scripted(Steps(c)) /\ Steps(c) # <<>> /\ Steps(c) \in Seq(AllSteps)
    BY CommandSteps DEF Scripted
  <2>2. script'[CLI] = Steps(c)
    BY <1>1, <1>2 DEF TypeInv
  <2> QED
    BY <1>1, <1>2, <2>1, <2>2 DEF TypeInv, Left, Now
<1>6. /\ Now' \in {"deleteCookie", "telerikLogin", "getUser", "ensureLoggedIn"}
      /\ c = "login" => Deletes \cup {"browser", "writeCookie", "writeUser"} \subseteq Left' /\ Left' \subseteq LoginSteps
      /\ c = "logout" => Left' = Deletes
      /\ c \notin {"login", "logout"} => Left' \cap (LoginSteps \ {"getCookies", "request", "answer"}) = {}
      /\ "keepSettings" \in Left' => {"storeSettings", "readSettings"} \cap Left' # {}
  BY <1>5, CommandSteps
<1>7. /\ command' \in [Processes -> Commands \cup {"none"}] /\ command'[CLI] = c /\ c # "none"
      /\ Fresh' = (c \in {"login", "logout"})
  BY <1>1, <1>2, <1>3 DEF TypeInv, TypeOK, Fresh
<1>8. /\ Fresh' => Deletes \subseteq Left' /\ Left' \subseteq LoginSteps
      /\ ~Fresh' => Left' \cap (Deletes \cup {"browser", "writeCookie", "writeUser"}) = {}
      /\ "browser" \in Left' => {"writeCookie", "writeUser"} \subseteq Left'
  <2>1. CASE c = "login"
    BY <2>1, <1>6, <1>7
  <2>2. CASE c = "logout"
    BY <2>2, <1>6, <1>7 DEF LoginSteps, Deletes
  <2>3. CASE c \notin {"login", "logout"}
    <3>1. Deletes \cup {"browser", "writeCookie", "writeUser"} \subseteq LoginSteps \ {"getCookies", "request", "answer"}
      BY DEF LoginSteps, Deletes
    <3>2. Left' \cap (LoginSteps \ {"getCookies", "request", "answer"}) = {} /\ ~Fresh'
      BY <2>3, <1>6, <1>7
    <3>3. Left' \cap (Deletes \cup {"browser", "writeCookie", "writeUser"}) = {}
      BY <3>1, <3>2
    <3> QED
      BY <3>2, <3>3
  <2> QED
    BY <2>1, <2>2, <2>3
<1>9. TypeInv'
  <2>1. loggedOut' \in {"no", "begun", "yes"}
    BY <1>2 DEF TypeInv, TypeOK
  <2>2. Now' \notin NeedsCookies
    BY <1>6 DEF NeedsCookies
  <2>3. TypeOK'
    BY <1>2, <1>7, <2>1 DEF TypeInv, TypeOK
  <2> QED
    BY <1>5, <1>7, <2>2, <2>3 DEF TypeInv, NeedsCookies
<1>10. FreshInv'
  BY <1>2, <1>4, <1>6, <1>7, <1>8 DEF FreshInv, Deletes
<1>11. OwnerInv'
  BY <1>2, <1>4, <1>8 DEF IInv, OwnerInv, Owner, Uninterrupted, Deletes
<1>12. UserInv'
  BY <1>2, <1>4, <1>8 DEF IInv, UserInv, Owner, Uninterrupted, Deletes
<1>13. LogoutInv'
  BY <1>2, <1>4, <1>7 DEF IInv, LogoutInv
<1>14. SettingsInv'
  BY <1>2, <1>4, <1>6, <1>8 DEF IInv, SettingsInv, OwnedBy, Owner, Deletes
<1>15. TenantMatchesSession'
  BY <1>1, <1>2, <1>4 DEF TenantMatchesSession
<1> QED
  BY <1>9, <1>10, <1>11, <1>12, <1>13, <1>14, <1>15 DEF IInv

LEMMA Stops ==
  ASSUME OneProcess, TypeInv, Stop(CLI)
  PROVE  /\ script' \in [Processes -> Seq(AllSteps)] /\ script'[CLI] = <<>> /\ Scripted(script'[CLI])
         /\ Left' = {} /\ Now' = "none" /\ ~Fresh'
         /\ command' \in [Processes -> Commands \cup {"none"}] /\ command'[CLI] = "none"
         /\ {cookies', user', settings'} \subseteq [Processes -> Users \cup {None}]
         /\ cookies'[CLI] = None /\ user'[CLI] = None /\ settings'[CLI] = None
         /\ sent' \in [Processes -> Requests \cup {None}] /\ sent'[CLI] = None
         /\ UNCHANGED <<cookieFile, userFile, settingsFile, open, account>>
<1>1. CLI \in Processes
  BY TheProcess
<1>2. script' \in [Processes -> Seq(AllSteps)] /\ script'[CLI] = <<>>
  BY <1>1, NothingScripted DEF Stop, TypeInv, Scripted
<1>3. command' \in [Processes -> Commands \cup {"none"}] /\ command'[CLI] = "none"
  BY <1>1 DEF Stop, TypeInv, TypeOK
<1>4. /\ {cookies', user', settings'} \subseteq [Processes -> Users \cup {None}]
      /\ cookies'[CLI] = None /\ user'[CLI] = None /\ settings'[CLI] = None
      /\ sent' \in [Processes -> Requests \cup {None}] /\ sent'[CLI] = None
  BY <1>1, Types DEF Stop
<1> QED
  BY <1>2, <1>3, <1>4, NothingScripted DEF Stop, Left, Now, Fresh

LEMMA ExitKeeps ==
  ASSUME OneProcess, IInv, Exit(CLI)
  PROVE  IInv'
<1>1. CLI \in Processes /\ \A p \in Processes : p = CLI
  BY TheProcess
<1>2. TypeInv /\ Stop(CLI) /\ Ended(CLI)
  BY DEF IInv, Exit
<1>3. Left \subseteq {"throw"} /\ (script[CLI] = <<>> <=> Left = {})
  <2>1. StepsOf(<<"throw">>) = {"throw"}
    BY OneStep DEF Block, AllSteps
  <2> QED
    BY <1>2, <2>1, NothingScripted DEF Ended, Left
<1>4. /\ mishaps' = IF Fresh /\ Left = {} THEN {} ELSE mishaps
      /\ loggedOut' = IF command[CLI] = "logout" /\ Left = {} /\ loggedOut = "begun" THEN "yes" ELSE loggedOut
  BY <1>3 DEF Exit, Completed, Fresh
<1>5. command[CLI] = "logout" => Left = {} /\ cookieFile = NoFile /\ userFile = NoFile /\ settingsFile = NoFile
  BY <1>3 DEF IInv, FreshInv, Fresh, Deletes
<1>6. Owner' = cookieFile /\ Owner = cookieFile /\ cookieFile' = cookieFile /\ userFile' = userFile
      /\ settingsFile' = settingsFile /\ account' = account
  BY <1>2, <1>3, Stops DEF Owner
<1>7. Now # "writeUser"
  BY <1>2, <1>3, Stops DEF Now, Ended
<1>8. /\ mishaps' = {} => mishaps = {} \/ Fresh
      /\ Uninterrupted' => Uninterrupted \/ Fresh
  BY <1>4 DEF Uninterrupted
<1>9. TypeInv'
  BY <1>2, <1>4, Stops DEF TypeInv, TypeOK, NeedsCookies
<1>10. FreshInv'
  BY <1>2, Stops DEF FreshInv, Fresh
<1>11. OwnerInv'
  BY <1>2, <1>3, <1>6, <1>8, Stops DEF IInv, OwnerInv
<1>12. UserInv'
  BY <1>2, <1>3, <1>6, <1>7, <1>8, Stops DEF IInv, UserInv
<1>13. LogoutInv'
  BY <1>2, <1>4, <1>5, <1>6, Stops DEF IInv, LogoutInv
<1>14. SettingsInv'
  BY <1>2, <1>3, <1>6, <1>8, Stops DEF IInv, SettingsInv, OwnedBy
<1>15. TenantMatchesSession'
  BY <1>1, <1>2, Stops DEF TenantMatchesSession
<1> QED
  BY <1>9, <1>10, <1>11, <1>12, <1>13, <1>14, <1>15 DEF IInv

LEMMA KillKeeps ==
  ASSUME OneProcess, IInv, Kill(CLI)
  PROVE  IInv'
<1>1. CLI \in Processes /\ \A p \in Processes : p = CLI
  BY TheProcess
<1>2. /\ TypeInv /\ Stop(CLI) /\ mishaps' = mishaps \cup {"killed"}
      /\ loggedOut' = IF command[CLI] = "logout" THEN "no" ELSE loggedOut
  BY DEF IInv, Kill
<1>3. mishaps' # {} /\ ~Uninterrupted'
  BY <1>2 DEF Uninterrupted
<1>4. TypeInv'
  BY <1>2, Stops DEF TypeInv, TypeOK, NeedsCookies
<1>5. FreshInv'
  BY <1>2, Stops DEF FreshInv, Fresh
<1>6. OwnerInv'
  BY <1>2, <1>3, Stops DEF OwnerInv
<1>7. UserInv'
  BY <1>2, <1>3, Stops DEF UserInv
<1>8. LogoutInv'
  BY <1>2, Stops DEF IInv, LogoutInv
<1>9. SettingsInv'
  BY <1>2, <1>3, Stops DEF SettingsInv
<1>10. TenantMatchesSession'
  BY <1>1, <1>2, Stops DEF TenantMatchesSession
<1> QED
  BY <1>4, <1>5, <1>6, <1>7, <1>8, <1>9, <1>10 DEF IInv

LEMMA InitIInv ==
  ASSUME OneProcess, Init
  PROVE  IInv
<1>1. CLI \in Processes /\ \A p \in Processes : p = CLI
  BY TheProcess
<1>2. /\ script[CLI] = <<>> /\ command[CLI] = "none" /\ cookies[CLI] = None /\ user[CLI] = None
      /\ settings[CLI] = None /\ sent[CLI] = None
      /\ cookieFile = NoFile /\ userFile = NoFile /\ settingsFile = NoFile /\ loggedOut = "no"
  BY <1>1 DEF Init
<1>3. Left = {} /\ Now = "none" /\ ~Fresh /\ Scripted(script[CLI]) /\ <<>> \in Seq(AllSteps)
  BY <1>2, NothingScripted DEF Left, Now, Fresh, Scripted
<1>4. TypeInv
  <2>1. TypeOK
    BY DEF Init, TypeOK
  <2>2. script \in [Processes -> Seq(AllSteps)]
    BY <1>3 DEF Init
  <2> QED
    BY <1>2, <1>3, <2>1, <2>2 DEF TypeInv, NeedsCookies
<1>5. FreshInv /\ OwnerInv /\ UserInv /\ LogoutInv /\ SettingsInv
  BY <1>2, <1>3, UsersAssumption, FilesAssumption
  DEF FreshInv, OwnerInv, Owner, UserInv, LogoutInv, SettingsInv
<1>6. TenantMatchesSession
  BY <1>1, <1>2 DEF TenantMatchesSession
<1> QED
  BY <1>4, <1>5, <1>6 DEF IInv

LEMMA ExpireKeeps ==
  ASSUME IInv, open' \subseteq open,
         UNCHANGED <<cookieFile, cookies, userFile, user, settingsFile, settings, account, sent, mishaps, loggedOut, command, script>>
  PROVE  IInv'
<1>1. UNCHANGED <<Left, Now, Owner, Fresh, Uninterrupted>>
  BY DEF Left, Now, Owner, Fresh, Uninterrupted
<1>2. TypeInv'
  BY <1>1 DEF IInv, TypeInv, TypeOK, NeedsCookies
<1>3. FreshInv'
  BY <1>1 DEF IInv, FreshInv, LoginSteps, Deletes
<1>4. OwnerInv'
  BY <1>1 DEF IInv, OwnerInv
<1>5. UserInv' /\ LogoutInv'
  BY <1>1 DEF IInv, UserInv, LogoutInv
<1>6. SettingsInv'
  BY <1>1 DEF IInv, SettingsInv, OwnedBy
<1>7. TenantMatchesSession'
  BY <1>1 DEF IInv, TenantMatchesSession
<1> QED
  BY <1>2, <1>3, <1>4, <1>5, <1>6, <1>7 DEF IInv

LEMMA NextKeeps ==
  ASSUME OneProcess, IInv, [Next]_vars
  PROVE  IInv'
<1>1. \A p \in Processes : p = CLI
  BY TheProcess
<1>2. ASSUME NEW u \in Users, Expire(u)
      PROVE  IInv'
  BY <1>2, ExpireKeeps DEF Expire, cookieData, userData, settingsData, history
<1>3. CASE UNCHANGED vars
  BY <1>3, ExpireKeeps DEF vars, cookieData, userData, settingsData, server, history
<1>4. ASSUME LoginDataStep(CLI) PROVE IInv'
  BY <1>4, TruncateCookieKeeps, WriteCookieKeeps, DeleteCookieKeeps, GetCookiesKeeps,
     TruncateUserKeeps, WriteUserKeeps, DeleteUserKeeps, GetUserKeeps DEF LoginDataStep
<1>5. ASSUME CallStep(CLI) PROVE IInv'
  BY <1>5, SendRequestKeeps, OutdatedKeeps, AnsweredKeeps, RefusedKeeps, CallFailsKeeps DEF CallStep
<1>6. ASSUME LoginStep(CLI) PROVE IInv'
  BY <1>6, DeleteSettingsKeeps, BrowserTimeoutKeeps, EnsureLoggedInKeeps, TelerikLoginKeeps DEF LoginStep
<1>7. ASSUME SettingsStep(CLI) PROVE IInv'
  BY <1>7, OpenSettingsKeeps, StoreSettingsKeeps, WriteSettingsKeeps, LoadSettingsKeeps, ReadSettingsKeeps,
     KeepSettingsKeeps DEF SettingsStep
<1> QED
  BY <1>1, <1>2, <1>3, <1>4, <1>5, <1>6, <1>7, ExitKeeps, StartKeeps, KillKeeps, BrowserAnswersKeeps
  DEF Next, ProgramStep

LEMMA InductiveInvariant ==
  ASSUME OneProcess
  PROVE  Spec => []IInv
<1>1. Init => IInv
  BY InitIInv
<1>2. IInv /\ [Next]_vars => IInv'
  BY NextKeeps
<1> QED
  BY <1>1, <1>2, PTL DEF Spec

--------------------------------------------------------------------------
(* When one process runs at a time: the files are of one user.              *)
THEOREM FilesAreOfOneUser ==
  ASSUME OneProcess
  PROVE  Spec => []FilesOfOneUser
<1>1. IInv => FilesOfOneUser
  <2>1. ASSUME IInv, Idle, Uninterrupted, userFile # NoFile
        PROVE  userFile = cookieFile
    <3>1. Left = {} /\ Now = "none"
      BY <2>1, TheProcess, Idles DEF Idle
    <3> QED
      BY <2>1, <3>1 DEF IInv, UserInv, Owner
  <2> QED
    BY <2>1 DEF FilesOfOneUser, UserMatchesCookie, IInv, TypeInv
<1> QED
  BY <1>1, InductiveInvariant, PTL

(* When one process runs at a time: a call names the tenant of the session  *)
(* it is sent with.                                                         *)
THEOREM TenantsMatchSessions ==
  ASSUME OneProcess
  PROVE  Spec => []TenantMatchesSession
<1>1. IInv => TenantMatchesSession
  BY DEF IInv
<1> QED
  BY <1>1, InductiveInvariant, PTL

(* When one process runs at a time: after a logout nothing of the login is  *)
(* left until somebody logs in again.                                       *)
THEOREM LogoutsStay ==
  ASSUME OneProcess
  PROVE  Spec => []LogoutStays
<1>1. IInv => LogoutStays
  BY DEF IInv, LogoutInv, LogoutStays
<1> QED
  BY <1>1, InductiveInvariant, PTL

(* Only saving a setting changes what the server keeps, and it keeps what   *)
(* is the user's.                                                           *)
LEMMA AccountsStayOwn ==
  ASSUME OneProcess, IInv, [Next]_vars, mishaps = {}, OwnSettings
  PROVE  OwnSettings'
<1>1. CASE account' = account
  BY <1>1 DEF OwnSettings
<1>2. CASE KeepSettings(CLI)
  <2>1. settings[CLI] # None => settings[CLI] \in {cookies[CLI], account[cookies[CLI]]}
    <3>1. cookies[CLI] # None
      BY <1>2, Kept, UsersAssumption
    <3> QED
      BY <3>1 DEF IInv, SettingsInv, OwnedBy
  <2>2. settings[CLI] # None => settings[CLI] = cookies[CLI]
    BY <1>2, <2>1, Kept DEF OwnSettings
  <2>3. account \in [Users -> Users \cup {None}]
    BY Types DEF IInv
  <2> QED
    BY <1>2, <2>2, <2>3, Kept DEF OwnSettings
<1>3. account' = account \/ KeepSettings(CLI)
  BY TheProcess
  DEF Next, ProgramStep, LoginDataStep, CallStep, LoginStep, SettingsStep, Start, Exit, Kill, Stop, Expire,
      BrowserAnswers,
     TruncateCookie, WriteCookie, DeleteCookie, GetCookies, TruncateUser, WriteUser, DeleteUser, GetUser,
     SendRequest, Outdated, Answered, Refused, CallFails, DeleteSettings, BrowserTimeout, EnsureLoggedIn, TelerikLogin,
     OpenSettings, StoreSettings, WriteSettings, LoadSettings, ReadSettings, settingsData, vars
<1> QED
  BY <1>1, <1>2, <1>3

(* Something goes wrong only in a step that takes settings from nobody.     *)
LEMMA MishapsKeepSettings ==
  ASSUME OneProcess, IInv, [Next]_vars, mishaps = {}, mishaps' # {}
  PROVE  settings'[CLI] = None \/ (settings'[CLI] = settings[CLI] /\ cookies'[CLI] = cookies[CLI])
<1>1. CLI \in Processes /\ TypeInv
  BY TheProcess DEF IInv
<1>2. CASE Refused(CLI)
  BY <1>2 DEF Refused, cookieData, settingsData
<1>3. CASE Kill(CLI)
  <2>1. settings'[CLI] = None
    BY <1>1, <1>3, Stops DEF Kill
  <2> QED
    BY <2>1
<1>4. CASE TelerikLogin(CLI)
  <2>1. At(CLI, "telerikLogin") /\ settings' = settings
    BY <1>4 DEF TelerikLogin, settingsData
  <2>2. Now = "telerikLogin" /\ Now \in Left
    BY <1>1, <2>1, NowIsFirst
  <2>3. settings[CLI] = None
    BY <2>2 DEF IInv, SettingsInv
  <2> QED
    BY <2>1, <2>3
<1>5. Refused(CLI) \/ Kill(CLI) \/ TelerikLogin(CLI)
  BY TheProcess
  DEF Next, ProgramStep, LoginDataStep, CallStep, LoginStep, SettingsStep, Start, Exit, Expire,
      BrowserAnswers,
     TruncateCookie, WriteCookie, DeleteCookie, GetCookies, TruncateUser, WriteUser, DeleteUser, GetUser,
     SendRequest, Outdated, Answered, CallFails, DeleteSettings, BrowserTimeout, EnsureLoggedIn,
     OpenSettings, StoreSettings, WriteSettings, LoadSettings, ReadSettings, KeepSettings, history, vars
<1> QED
  BY <1>2, <1>3, <1>4, <1>5

(* When one process runs at a time: the settings a command works with, and  *)
(* those it sends for an account, are that user's.                          *)
THEOREM SettingsAreTheUsers ==
  ASSUME OneProcess
  PROVE  Spec => SettingsOfUser
<1>1. ASSUME IInv, IInv', [Next]_vars, mishaps = {}, OwnSettings
      PROVE  /\ OwnSettings'
             /\ \A p \in Processes : settings'[p] # None /\ cookies'[p] # None => settings'[p] = cookies'[p]
  <2>1. OwnSettings'
    BY <1>1, AccountsStayOwn
  <2>2. ASSUME settings'[CLI] # None, cookies'[CLI] # None
        PROVE  settings'[CLI] = cookies'[CLI]
    <3>1. CASE mishaps' = {}
      <4>1. OwnedBy(settings[CLI], cookies[CLI])'
        BY <1>1, <2>2, <3>1 DEF IInv, SettingsInv
      <4> QED
        BY <2>1, <2>2, <4>1 DEF OwnedBy, OwnSettings
    <3>2. CASE mishaps' # {}
      <4>1. settings'[CLI] = settings[CLI] /\ cookies'[CLI] = cookies[CLI]
        BY <1>1, <2>2, <3>2, MishapsKeepSettings
      <4>2. OwnedBy(settings[CLI], cookies[CLI])
        BY <1>1, <2>2, <4>1 DEF IInv, SettingsInv
      <4> QED
        BY <1>1, <2>2, <4>1, <4>2 DEF OwnedBy, OwnSettings
    <3> QED
      BY <3>1, <3>2
  <2> QED
    BY <2>1, <2>2, TheProcess
<1> QED
  BY <1>1, InductiveInvariant, PTL DEF Spec, SettingsOfUser
====
