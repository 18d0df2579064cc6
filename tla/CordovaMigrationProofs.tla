----------------------- MODULE CordovaMigrationProofs -----------------------
(***************************************************************************)
(* Proofs about CordovaMigration, for any migration data, platforms and    *)
(* projects: the properties that are saved fit each other, a command that  *)
(* fails leaves the project as it was, one that succeeds saves the lists   *)
(* of plugins migrated and takes none away that an upgrade has, and the    *)
(* files of the platforms are replaced together or not at all.             *)
(*                                                                         *)
(* A command has one version v to go to; what holds while it runs is said  *)
(* with the set of the steps that are left.                                *)
(***************************************************************************)
EXTENDS CordovaMigration, FiniteSetTheorems, SequenceTheorems, WellFoundedInduction, TLAPS

Early == {"sdk", "ask", "accelerate", "lists"}
JsKinds == {"backup", "copy"}
Backup(p) == Step("backup", p)
Copy(p, v) == Step("copy", <<p, v>>)

(* The steps of a command that goes to version v. *)
Steps(v) == [do : Early \cup {"deleteBackups", "framework"}, value : {v}]
       \cup [do : {"backup"}, value : JsFiles]
       \cup [do : {"copy"}, value : JsFiles \X {v}]
       \cup [do : {"wpsdk"}, value : Sdks]
       \cup [do : {"save"}, value : FrameworkVersions \cup Sdks]

(* Their order: by rank, and each file is backed up before it is replaced. *)
Rank(do) == CASE do = "sdk" -> 1 [] do = "ask" -> 2 [] do = "accelerate" -> 3 [] do = "lists" -> 4
              [] do \in JsKinds -> 5 [] do = "deleteBackups" -> 6 [] do = "framework" -> 7
              [] do = "wpsdk" -> 8 [] OTHER -> 9

Follows(s, r) ==
  \/ Rank(s.do) < Rank(r.do)
  \/ /\ s.do \in JsKinds /\ r.do \in JsKinds /\ s # r
     /\ \A p \in JsFiles, v \in FrameworkVersions : s = Copy(p, v) => r # Backup(p)

Sorted(t) == \A i, j \in 1..Len(t) : i < j => Follows(t[i], t[j])

Left == Range(todo)
LeftOf(kinds) == \E s \in Left : s.do \in kinds

--------------------------------------------------------------------------
(* What the steps L that are left of a command that goes to v have to be ... *)
PlanOf(v, L) ==
  /\ L \subseteq Steps(v)
  /\ \A p \in JsFiles : Backup(p) \in L => Copy(p, v) \in L
  /\ (\E s \in L : s.do \in Early) => \A p \in JsFiles : Backup(p) \in L
  /\ (\E s \in L : s.do \in Early \cup JsKinds \cup {"deleteBackups"}) => Step("framework", v) \in L
  /\ Step("accelerate", v) \in L => Step("lists", v) \in L
  /\ L # {} => \E s \in L : s.do = "save"

(* ... which they are, and a save on the way is that of the acceleration. *)
PlanInv(v) ==
  /\ todo \in Seq(Steps(v)) /\ Sorted(todo) /\ PlanOf(v, Left)
  /\ LeftOf(Early \cup JsKinds \cup {"deleteBackups"}) => v # properties.framework
  /\ pc = "task" => todo # <<>>
  /\ pc \in {"save", "saveConfigurations"} =>
       todo = <<>> \/ (Step("lists", v) \in Left /\ AcceleratedFrom <= v)

(* The properties will fit each other when they are set ... *)
FitInv(v) ==
  /\ Step("framework", v) \in Left => v >= CordovaForSdk81 \/ properties.sdk <= 80 \/ Step("sdk", v) \in Left
  /\ \A s \in Left : s.do = "wpsdk" /\ s.value > 80 =>
       IF Step("framework", v) \in Left THEN v >= CordovaForSdk81 ELSE properties.framework >= CordovaForSdk81

(* ... the SDK is as it was while a save on the way may come ... *)
SdkInv(v) == Step("lists", v) \in Left /\ v >= CordovaForSdk81 => properties.sdk = before.properties.sdk

(* ... and the files are of v, but for those still to be replaced, with a   *)
(* backup of each that is not still to be backed up.                        *)
JsInv(v) ==
  /\ Step("framework", v) \in Left =>
       /\ properties.framework = before.properties.framework
       /\ IF v = properties.framework THEN js = before.js
          ELSE \A p \in JsFiles : js[p] = IF Copy(p, v) \in Left THEN before.js[p] ELSE v
  /\ LeftOf(JsKinds) => \A p \in JsFiles : Backup(p) \in Left \/ backup[p] = before.js[p]
  /\ Step("framework", v) \notin Left =>
       \/ js = before.js /\ properties.framework = before.properties.framework
       \/ js = [p \in JsFiles |-> properties.framework]

RunOf(v) == PlanInv(v) /\ FitInv(v) /\ SdkInv(v) /\ JsInv(v)

Running == pc \in {"task", "save", "saveConfigurations"}

RunInv == Running => \E v \in FrameworkVersions : RunOf(v)

(* What a command has changed in memory is the lists, when it got to them. *)
MemoryInv == Running /\ LeftOf(Early) => mem = disk

RevertSteps == [do : {"revert"}, value : JsFiles]

(* What is not yet copied back has a backup. *)
RevertInv ==
  pc = "revert" =>
    /\ todo \in Seq(RevertSteps \cup [do : {"delete"}, value : SUBSET JsFiles])
    /\ todo # <<>> /\ Last(todo).do = "delete"
    /\ \A i \in 1..(Len(todo) - 1) : todo[i] \in RevertSteps
    /\ \A p \in JsFiles : Step("revert", p) \in Left => backup[p] = before.js[p]
    /\ \A p \in JsFiles : js[p] = before.js[p] \/ Step("revert", p) \in Left

Fits(p) == p.sdk > 80 => p.framework >= CordovaForSdk81

StateInv ==
  /\ TypeOK /\ options \subseteq {Debug, Release}
  /\ Fits(properties) /\ Fits(saved)
  /\ pc \in {"idle", "saveConfigurations"} => properties = saved
  /\ (pc = "done") = (outcome # "none")
  /\ before.js \in [JsFiles -> FrameworkVersions \cup {Torn}]

(* A command that has not begun its save, or that failed before it did. *)
Unsaved ==
  \/ pc \in {"task", "save", "revert"} \/ (pc = "saveConfigurations" /\ todo # <<>>)
  \/ outcome \in {"failed", "notReverted"}

EnabledKept == \A c \in Configurations : Enabled(disk, c) = Enabled(started, c)

(* The acceleration, which is saved at once, comes with no version the 8.1  *)
(* SDK does not build with.                                                 *)
AcceleratesLate == AcceleratedFrom >= CordovaForSdk81

UnsavedInv ==
  Unsaved =>
    /\ saved.framework = before.properties.framework /\ EnabledKept
    /\ AcceleratesLate => saved.sdk = before.properties.sdk

Inv == StateInv /\ RunInv /\ MemoryInv /\ RevertInv /\ UnsavedInv /\ JsAllOrNone

(* The list of a configuration, migrated to version w: twice, if it is the  *)
(* only one there is.                                                      *)
OneList == options = {} /\ \A c \in Configurations : started.config[c] = Missing
Migrated(c, w) ==
  LET Once(plugins) == MigratePlugins(plugins, before.properties.framework, w)
  IN IF OneList THEN Once(Once(OrEmpty(Enabled(started, c)))) ELSE Once(OrEmpty(Enabled(started, c)))
MigratedIn(d, w) == \A c \in SelectedConfigurations : OrEmpty(Enabled(d, c)) = Migrated(c, w)

(* The files there are, and those of which there is data in memory. *)
FilesOf(d) == {c \in Configurations : d.config[c] # Missing}
FilesReadInv ==
  Running => FilesOf(disk) = FilesOf(started) \cup options /\ FilesOf(disk) \subseteq FilesOf(mem) /\ (OneList => FilesOf(mem) = {})

(* When the lists have been migrated, it was to the version that the        *)
(* command goes to, or it goes to none.                                    *)
NewVersion(w) ==
  IF LeftOf({"framework"}) THEN Step("framework", w) \in Left ELSE w = properties.framework
MemoryMigrated ==
  Running /\ ~LeftOf({"lists"}) =>
    \E w \in FrameworkVersions : NewVersion(w) /\ (w # before.properties.framework => MigratedIn(mem, w))

(* At its start a command that goes to v has the lists to migrate, or goes   *)
(* to the version there is.                                                *)
Goes(v) == LeftOf({"lists"}) \/ (v = properties.framework /\ NewVersion(v))

(* At the end what is in memory is saved, each list that has a file. *)
SavingInv ==
  pc \in {"save", "saveConfigurations"} /\ todo = <<>> =>
    /\ pc = "saveConfigurations" => disk.project = mem.project
    /\ \A c \in FilesOf(disk) \ toSave : pc = "saveConfigurations" /\ disk.config[c] = mem.config[c]

(* What was saved is what was migrated. *)
ListsMigrated == outcome = "ok" /\ Changed /\ ListsAreSaved => MigratedIn(disk, saved.framework)

(* The version or the SDK that the command was given is set, or to be set.  *)
GoalInv ==
  Running =>
    /\ command.property = "FrameworkVersion" =>
         \/ Step("framework", command.value) \in Left
         \/ ~LeftOf({"framework"}) /\ properties.framework = command.value
    /\ command.property = "WPSdk" =>
         \/ Step("wpsdk", command.value) \in Left
         \/ (\A s \in Left : s.do = "save") /\ properties.sdk = command.value

(* A list is as it was, or migrated to another version, w. *)
ListIn(d, c, w) ==
  \/ Enabled(d, c) = Enabled(started, c)
  \/ w # before.properties.framework /\ OrEmpty(Enabled(d, c)) = Migrated(c, w)

(* In memory they are all as they were, or as they are to be saved ...      *)
MemoryListsInv ==
  Running =>
    \/ \A c \in Configurations : Enabled(mem, c) = Enabled(started, c)
    \/ \E w \in FrameworkVersions : NewVersion(w) /\ \A c \in Configurations : ListIn(mem, c, w)

(* ... and in the files each is as it was, or as it is in memory. *)
DiskListsInv ==
  Running =>
    /\ FilesOf(mem) # {} => mem.project = disk.project
    /\ \A c \in Configurations : Enabled(disk, c) \in {Enabled(started, c), Enabled(mem, c)}

(* A write failed: before .abproject was written, or after. *)
NotSavedInv ==
  outcome = "notSaved" =>
    \/ /\ saved.framework = before.properties.framework /\ EnabledKept
       /\ AcceleratesLate => saved.sdk = before.properties.sdk
    \/ /\ command.property = "FrameworkVersion" => saved.framework = command.value
       /\ command.property = "WPSdk" => saved.sdk = command.value
       /\ \A c \in Configurations : ListIn(disk, c, saved.framework)

PartInv == GoalInv /\ MemoryListsInv /\ DiskListsInv /\ NotSavedInv

(* The version that the command found. *)
StartedInv == before.properties.framework \in FrameworkVersions

ListsInv == FilesReadInv /\ MemoryMigrated /\ SavingInv /\ ListsMigrated

--------------------------------------------------------------------------
(* The sequences of steps. *)
LEMMA RankIsNatural == \A do : Rank(do) \in 1..9
BY DEF Rank

LEMMA RankOf ==
  \A do : /\ do = "sdk" => Rank(do) = 1
          /\ do = "ask" => Rank(do) = 2
          /\ do = "accelerate" => Rank(do) = 3
          /\ do = "lists" => Rank(do) = 4
          /\ do \in JsKinds => Rank(do) = 5
          /\ do = "deleteBackups" => Rank(do) = 6
          /\ do = "framework" => Rank(do) = 7
          /\ do = "wpsdk" => Rank(do) = 8
          /\ do = "save" => Rank(do) = 9
BY DEF Rank, JsKinds

LEMMA RankBounds ==
  /\ \A do \in Early \cup JsKinds \cup {"deleteBackups"} : Rank(do) \in 1..6
  /\ \A do \in {"framework", "wpsdk", "save"} : Rank(do) \in 7..9
BY DEF Rank, Early, JsKinds

LEMMA StepParts ==
  /\ \A do, value : Step(do, value).do = do /\ Step(do, value).value = value
  /\ \A p : Backup(p).do = "backup" /\ Backup(p).value = p
  /\ \A p, v : Copy(p, v).do = "copy" /\ Copy(p, v).value = <<p, v>>
BY DEF Step, Backup, Copy

LEMMA NoneFollowsItself == \A s : ~Follows(s, s)
BY RankIsNatural DEF Follows

(* A step taken from the front is gone, and what is left follows it. *)
LEMMA SortedTail ==
  ASSUME NEW S, NEW t \in Seq(S), t # <<>>, Sorted(t)
  PROVE  /\ Tail(t) \in Seq(S) /\ Sorted(Tail(t)) /\ Head(t) \in Range(t) /\ Head(t) \in S
         /\ Range(Tail(t)) = Range(t) \ {Head(t)}
         /\ \A s \in Range(Tail(t)) : Follows(Head(t), s)
<1>1. Len(t) \in Nat /\ Len(t) > 0 /\ DOMAIN t = 1..Len(t) /\ Head(t) = t[1]
  OBVIOUS
<1>2. /\ Tail(t) \in Seq(S) /\ Len(Tail(t)) = Len(t) - 1 /\ DOMAIN Tail(t) = 1..(Len(t) - 1)
      /\ \A i \in 1..(Len(t) - 1) : Tail(t)[i] = t[i + 1]
  OBVIOUS
<1> DEFINE u == Tail(t)
<1> HIDE DEF u
<1>3. u \in Seq(S) /\ Len(u) = Len(t) - 1 /\ DOMAIN u = 1..(Len(t) - 1) /\ \A i \in 1..(Len(t) - 1) : u[i] = t[i + 1]
  BY <1>2 DEF u
<1>4. Sorted(u)
  <2> SUFFICES ASSUME NEW i \in 1..Len(u), NEW j \in 1..Len(u), i < j
               PROVE  Follows(u[i], u[j])
    BY DEF Sorted
  <2>1. i + 1 \in 1..Len(t) /\ j + 1 \in 1..Len(t) /\ i + 1 < j + 1 /\ u[i] = t[i + 1] /\ u[j] = t[j + 1]
    BY <1>1, <1>3
  <2> QED
    BY <2>1 DEF Sorted
<1>5. \A i \in 1..(Len(t) - 1) : Follows(t[1], u[i])
  <2> SUFFICES ASSUME NEW i \in 1..(Len(t) - 1)
               PROVE  Follows(t[1], u[i])
    OBVIOUS
  <2>1. 1 \in 1..Len(t) /\ i + 1 \in 1..Len(t) /\ 1 < i + 1 /\ u[i] = t[i + 1]
    BY <1>1, <1>3
  <2> QED
    BY <2>1 DEF Sorted
<1>6. \A i \in 1..(Len(t) - 1) : u[i] # t[1]
  BY <1>5, NoneFollowsItself
<1>7. Range(u) = Range(t) \ {t[1]}
  <2>1. ASSUME NEW x \in Range(u)
        PROVE  x \in Range(t) \ {t[1]}
    <3>1. PICK i \in 1..(Len(t) - 1) : x = u[i]
      BY <1>3 DEF Range
    <3>2. i + 1 \in DOMAIN t /\ x = t[i + 1]
      BY <1>1, <1>3, <3>1
    <3> QED
      BY <1>6, <3>1, <3>2 DEF Range
  <2>2. ASSUME NEW x \in Range(t), x # t[1]
        PROVE  x \in Range(u)
    <3>1. PICK j \in 1..Len(t) : x = t[j]
      BY <1>1 DEF Range
    <3>2. j - 1 \in 1..(Len(t) - 1) /\ (j - 1) + 1 = j
      BY <1>1, <2>2, <3>1
    <3>3. u[j - 1] = x
      BY <1>3, <3>1, <3>2
    <3> QED
      BY <1>3, <3>2, <3>3 DEF Range
  <2> QED
    BY <2>1, <2>2
<1>8. \A s \in Range(u) : Follows(t[1], s)
  BY <1>3, <1>5 DEF Range
<1>9. t[1] \in Range(t) /\ t[1] \in S
  BY <1>1 DEF Range
<1> QED
  BY <1>1, <1>3, <1>4, <1>7, <1>8, <1>9 DEF u

(* Steps after steps that they follow. *)
LEMMA SortedCat ==
  ASSUME NEW S, NEW t \in Seq(S), NEW u \in Seq(S), Sorted(t), Sorted(u),
         \A s \in Range(t), r \in Range(u) : Follows(s, r)
  PROVE  t \o u \in Seq(S) /\ Sorted(t \o u) /\ Range(t \o u) = Range(t) \cup Range(u)
<1> DEFINE w == t \o u
<1>1. /\ w \in Seq(S) /\ Len(w) = Len(t) + Len(u) /\ Len(t) \in Nat /\ Len(u) \in Nat
      /\ DOMAIN w = 1..Len(w) /\ DOMAIN t = 1..Len(t) /\ DOMAIN u = 1..Len(u)
  OBVIOUS
<1>2. \A i \in 1..Len(w) : w[i] = IF i <= Len(t) THEN t[i] ELSE u[i - Len(t)]
  OBVIOUS
<1> HIDE DEF w
<1>3. Sorted(w)
  <2> SUFFICES ASSUME NEW i \in 1..Len(w), NEW j \in 1..Len(w), i < j
               PROVE  Follows(w[i], w[j])
    BY DEF Sorted
  <2>1. CASE j <= Len(t)
    <3>1. i \in 1..Len(t) /\ j \in 1..Len(t) /\ w[i] = t[i] /\ w[j] = t[j]
      BY <1>1, <1>2, <2>1
    <3> QED
      BY <3>1 DEF Sorted
  <2>2. CASE i > Len(t)
    <3>1. i - Len(t) \in 1..Len(u) /\ j - Len(t) \in 1..Len(u) /\ i - Len(t) < j - Len(t)
          /\ w[i] = u[i - Len(t)] /\ w[j] = u[j - Len(t)]
      BY <1>1, <1>2, <2>2
    <3> QED
      BY <3>1 DEF Sorted
  <2>3. CASE i <= Len(t) /\ j > Len(t)
    <3>1. i \in 1..Len(t) /\ j - Len(t) \in 1..Len(u) /\ w[i] = t[i] /\ w[j] = u[j - Len(t)]
      BY <1>1, <1>2, <2>3
    <3>2. t[i] \in Range(t) /\ u[j - Len(t)] \in Range(u)
      BY <1>1, <3>1 DEF Range
    <3> QED
      BY <3>1, <3>2
  <2> QED
    BY <1>1, <2>1, <2>2, <2>3
<1>4. Range(w) = Range(t) \cup Range(u)
  <2>1. ASSUME NEW i \in 1..Len(w)
        PROVE  w[i] \in Range(t) \cup Range(u)
    <3>1. CASE i <= Len(t)
      BY <1>1, <1>2, <3>1 DEF Range
    <3>2. CASE i > Len(t)
      <4>1. i - Len(t) \in 1..Len(u) /\ w[i] = u[i - Len(t)]
        BY <1>1, <1>2, <3>2
      <4> QED
        BY <1>1, <4>1 DEF Range
    <3> QED
      BY <1>1, <3>1, <3>2
  <2>2. ASSUME NEW i \in 1..Len(t)
        PROVE  t[i] \in Range(w)
    <3>1. i \in 1..Len(w) /\ w[i] = t[i]
      BY <1>1, <1>2
    <3> QED
      BY <1>1, <3>1 DEF Range
  <2>3. ASSUME NEW i \in 1..Len(u)
        PROVE  u[i] \in Range(w)
    <3>1. i + Len(t) \in 1..Len(w) /\ (i + Len(t)) - Len(t) = i /\ ~(i + Len(t) <= Len(t))
      BY <1>1
    <3>2. w[i + Len(t)] = u[i]
      BY <1>2, <3>1
    <3> QED
      BY <1>1, <3>1, <3>2 DEF Range
  <2>4. Range(w) \subseteq Range(t) \cup Range(u)
    BY <1>1, <2>1 DEF Range
  <2>5. Range(t) \subseteq Range(w)
    BY <1>1, <2>2 DEF Range
  <2>6. Range(u) \subseteq Range(w)
    BY <1>1, <2>3 DEF Range
  <2> QED
    BY <2>4, <2>5, <2>6
<1> QED
  BY <1>1, <1>3, <1>4 DEF w

(* A short sequence. *)
LEMMA ShortSequences ==
  ASSUME NEW S
  PROVE  /\ <<>> \in Seq(S) /\ Sorted(<<>>) /\ Range(<<>>) = {}
         /\ \A a \in S : <<a>> \in Seq(S) /\ Sorted(<<a>>) /\ Range(<<a>>) = {a}
<1>1. <<>> \in Seq(S) /\ Len(<<>>) = 0
  OBVIOUS
<1>2. Sorted(<<>>) /\ Range(<<>>) = {}
  BY <1>1 DEF Sorted, Range
<1>3. ASSUME NEW a \in S
      PROVE  <<a>> \in Seq(S) /\ Sorted(<<a>>) /\ Range(<<a>>) = {a}
  <2>1. <<a>> \in Seq(S) /\ Len(<<a>>) = 1 /\ <<a>>[1] = a
    OBVIOUS
  <2>2. DOMAIN <<a>> = 1..1
    BY <2>1
  <2> DEFINE t == <<a>>
  <2> HIDE DEF t
  <2>3. Sorted(t) /\ Range(t) = {a}
    <3>1. Len(t) = 1 /\ t[1] = a /\ DOMAIN t = 1..1
      BY <2>1, <2>2 DEF t
    <3> QED
      BY <3>1 DEF Sorted, Range
  <2> QED
    BY <2>1, <2>3 DEF t
<1> QED
  BY <1>1, <1>2, <1>3


(* The platforms' files, each backed up and then replaced. *)
LEMMA PlatformFiles ==
  /\ Len(Platforms) \in Nat /\ DOMAIN Platforms = 1..Len(Platforms)
  /\ \A i \in 1..Len(Platforms) : Platforms[i] \in JsFiles
  /\ \A p \in JsFiles : \E i \in 1..Len(Platforms) : Platforms[i] = p
  /\ \A i, j \in 1..Len(Platforms) : Platforms[i] = Platforms[j] => i = j
<1>1. Len(Platforms) \in Nat /\ DOMAIN Platforms = 1..Len(Platforms)
  BY PlatformsAssumption
<1> QED
  BY <1>1, PlatformsAssumption DEF JsFiles, Range, IsInjective

LEMMA JsStepsFit ==
  ASSUME NEW v \in FrameworkVersions
  PROVE  /\ JsSteps(v) \in Seq(Steps(v)) /\ Sorted(JsSteps(v))
         /\ Range(JsSteps(v)) = {Backup(p) : p \in JsFiles} \cup {Copy(p, v) : p \in JsFiles}
<1> DEFINE n == Len(Platforms)
           P == Platforms
           t == JsSteps(v)
<1>0. n \in Nat
  BY PlatformFiles
<1>1. DOMAIN t = 1..2 * n /\ 2 * n \in Nat
  BY <1>0 DEF JsSteps
<1>2. \A i \in 1..2 * n : t[i] = IF i % 2 = 1 THEN Backup(P[(i + 1) \div 2]) ELSE Copy(P[i \div 2], v)
  BY DEF JsSteps, Backup, Copy
<1>3. \A i \in 1..2 * n : IF i % 2 = 1 THEN (i + 1) \div 2 \in 1..n /\ i = 2 * ((i + 1) \div 2) - 1
                          ELSE i \div 2 \in 1..n /\ i = 2 * (i \div 2)
  BY <1>0
<1>4. ASSUME NEW i \in 1..2 * n
      PROVE  \E k \in 1..n : \/ i = 2 * k - 1 /\ t[i] = Backup(P[k])
                             \/ i = 2 * k /\ t[i] = Copy(P[k], v)
  <2> HIDE DEF t
  <2>1. CASE i % 2 = 1
    BY <1>2, <1>3, <2>1
  <2>2. CASE i % 2 # 1
    BY <1>2, <1>3, <2>2
  <2> QED
    BY <2>1, <2>2
<1>5. \A k \in 1..n : /\ 2 * k - 1 \in 1..2 * n /\ t[2 * k - 1] = Backup(P[k])
                      /\ 2 * k \in 1..2 * n /\ t[2 * k] = Copy(P[k], v)
  <2> SUFFICES ASSUME NEW k \in 1..n
               PROVE  /\ 2 * k - 1 \in 1..2 * n /\ t[2 * k - 1] = Backup(P[k])
                      /\ 2 * k \in 1..2 * n /\ t[2 * k] = Copy(P[k], v)
    OBVIOUS
  <2>1. 2 * k - 1 \in 1..2 * n /\ 2 * k \in 1..2 * n /\ (2 * k - 1) % 2 = 1 /\ ((2 * k - 1) + 1) \div 2 = k
        /\ (2 * k) % 2 = 0 /\ (2 * k) \div 2 = k
    BY <1>0
  <2> HIDE DEF t
  <2> QED
    BY <1>2, <2>1
<1> HIDE DEF t
<1>6. \A p \in JsFiles : /\ Backup(p) \in Steps(v) /\ Backup(p).do = "backup" /\ Backup(p).value = p
                         /\ Copy(p, v) \in Steps(v) /\ Copy(p, v).do = "copy" /\ Copy(p, v).value = <<p, v>>
  BY DEF Backup, Copy, Step, Steps
<1>7. t \in Seq(Steps(v))
  <2>1. \A i \in 1..2 * n : t[i] \in Steps(v)
    BY <1>4, <1>6, PlatformFiles
  <2>2. t = [i \in 1..2 * n |-> t[i]]
    <3>1. JsSteps(v) = [i \in DOMAIN JsSteps(v) |-> JsSteps(v)[i]]
      BY DEF JsSteps
    <3> QED
      BY <1>1, <3>1 DEF t
  <2> QED
    BY <1>1, <2>1, <2>2
<1>8. Len(t) = 2 * n
  BY <1>1, <1>7
<1>9. Sorted(t)
  <2> SUFFICES ASSUME NEW i \in 1..2 * n, NEW j \in 1..2 * n, i < j
               PROVE  Follows(t[i], t[j])
    BY <1>8 DEF Sorted
  <2>1. PICK k \in 1..n : (i = 2 * k - 1 /\ t[i] = Backup(P[k])) \/ (i = 2 * k /\ t[i] = Copy(P[k], v))
    BY <1>4
  <2>2. PICK m \in 1..n : (j = 2 * m - 1 /\ t[j] = Backup(P[m])) \/ (j = 2 * m /\ t[j] = Copy(P[m], v))
    BY <1>4
  <2>3. P[k] \in JsFiles /\ P[m] \in JsFiles /\ (P[k] = P[m] => k = m)
    BY PlatformFiles
  <2>4. t[i].do \in JsKinds /\ t[j].do \in JsKinds
    BY <1>6, <2>1, <2>2, <2>3 DEF JsKinds
  <2>5. t[i] # t[j]
    <3>1. k = m => t[i] = Backup(P[k]) /\ t[j] = Copy(P[k], v)
      BY <2>1, <2>2
    <3>2. k # m => P[k] # P[m]
      BY <2>3
    <3> QED
      BY <1>6, <2>1, <2>2, <2>3, <3>1, <3>2
  <2>6. ASSUME NEW p \in JsFiles, NEW w \in FrameworkVersions, t[i] = Copy(p, w), t[j] = Backup(p)
        PROVE  FALSE
    <3>1. t[i].do = "copy" /\ t[i].value = <<p, w>> /\ t[j].do = "backup" /\ t[j].value = p
      BY <2>6 DEF Copy, Backup, Step
    <3>2. i = 2 * k /\ t[i] = Copy(P[k], v) /\ j = 2 * m - 1 /\ t[j] = Backup(P[m])
      BY <1>6, <2>1, <2>2, <2>3, <3>1
    <3>3. P[k] = p /\ P[m] = p
      BY <1>6, <2>3, <3>1, <3>2
    <3> QED
      BY <2>3, <3>2, <3>3
  <2> QED
    BY <2>4, <2>5, <2>6 DEF Follows
<1>10. Range(t) = {Backup(p) : p \in JsFiles} \cup {Copy(p, v) : p \in JsFiles}
  <2>1. Range(t) = {t[i] : i \in 1..2 * n}
    BY <1>1 DEF Range
  <2>2. ASSUME NEW p \in JsFiles
        PROVE  Backup(p) \in Range(t) /\ Copy(p, v) \in Range(t)
    <3>1. PICK k \in 1..n : P[k] = p
      BY PlatformFiles
    <3>2. /\ 2 * k - 1 \in 1..2 * n /\ t[2 * k - 1] = Backup(p)
          /\ 2 * k \in 1..2 * n /\ t[2 * k] = Copy(p, v)
      BY <1>5, <3>1
    <3> QED
      BY <2>1, <3>2
  <2>3. ASSUME NEW i \in 1..2 * n
        PROVE  \E p \in JsFiles : t[i] = Backup(p) \/ t[i] = Copy(p, v)
    <3>1. PICK k \in 1..n : t[i] = Backup(P[k]) \/ t[i] = Copy(P[k], v)
      BY <1>4
    <3> QED
      BY <3>1, PlatformFiles
  <2> QED
    BY <2>1, <2>2, <2>3
<1> QED
  BY <1>7, <1>9, <1>10 DEF t

(* The steps that change the version. *)
EarlySteps(v) == {Step(do, v) : do \in Early}
FileSteps(v) == {Backup(p) : p \in JsFiles} \cup {Copy(p, v) : p \in JsFiles}
Changes(v) == IF v = properties.framework THEN {}
              ELSE EarlySteps(v) \cup FileSteps(v) \cup {Step("deleteBackups", v)}

LEMMA ChangingFits ==
  ASSUME NEW v \in FrameworkVersions
  PROVE  LET t == FrameworkVersionChanging(v)
         IN t \in Seq(Steps(v)) /\ Sorted(t) /\ Range(t) = Changes(v)
<1>0. CASE v = properties.framework
  BY <1>0, ShortSequences DEF FrameworkVersionChanging, Changes
<1> SUFFICES ASSUME v # properties.framework
             PROVE  LET t == FrameworkVersionChanging(v)
                    IN t \in Seq(Steps(v)) /\ Sorted(t) /\ Range(t) = Changes(v)
  BY <1>0
<1> DEFINE a == <<Step("sdk", v), Step("ask", v), Step("accelerate", v), Step("lists", v)>>
           d == <<Step("deleteBackups", v)>>
           J == {Backup(p) : p \in JsFiles} \cup {Copy(p, v) : p \in JsFiles}
           E == {Step(do, v) : do \in Early}
<1>1. FrameworkVersionChanging(v) = (a \o JsSteps(v)) \o d
  BY DEF FrameworkVersionChanging
<1>2. a \in Seq(Steps(v)) /\ Sorted(a) /\ Range(a) = E
  <2>1. Len(a) = 4 /\ a \in Seq(Steps(v)) /\ a[1] = Step("sdk", v) /\ a[2] = Step("ask", v)
        /\ a[3] = Step("accelerate", v) /\ a[4] = Step("lists", v)
    BY DEF Steps, Step, Early
  <2> HIDE DEF a
  <2>2. DOMAIN a = {1, 2, 3, 4}
    <3>1. DOMAIN a = 1..4
      BY <2>1
    <3> QED
      BY <3>1
  <2>3. Range(a) = E
    BY <2>1, <2>2 DEF Range, Early
  <2>4. \A i \in 1..4 : Rank(a[i].do) = i
    <3>1. /\ a[1].do = "sdk" /\ a[2].do = "ask" /\ a[3].do = "accelerate" /\ a[4].do = "lists"
      BY <2>1 DEF Step
    <3>2. Rank(a[1].do) = 1 /\ Rank(a[2].do) = 2 /\ Rank(a[3].do) = 3 /\ Rank(a[4].do) = 4
      BY <3>1, RankOf
    <3> QED
      BY <3>2
  <2>5. Sorted(a)
    BY <2>1, <2>4 DEF Sorted, Follows
  <2> QED
    BY <2>1, <2>3, <2>5
<1>3. Step("deleteBackups", v) \in Steps(v) /\ Rank("deleteBackups") = 6
  BY RankOf DEF Steps, Step
<1>4. d \in Seq(Steps(v)) /\ Sorted(d) /\ Range(d) = {Step("deleteBackups", v)}
  BY <1>3, ShortSequences
<1>5. ASSUME NEW s \in J
      PROVE  Rank(s.do) = 5
  <2>1. \E p \in JsFiles : s = Backup(p) \/ s = Copy(p, v)
    OBVIOUS
  <2>2. s.do \in JsKinds
    BY <2>1, StepParts DEF JsKinds
  <2> HIDE DEF J
  <2>3. s.do \in JsKinds => Rank(s.do) = 5
    BY RankOf
  <2> QED
    BY <2>2, <2>3
<1>6. ASSUME NEW s \in E
      PROVE  Rank(s.do) \in 1..4
  <2>1. \E do \in Early : s = Step(do, v)
    OBVIOUS
  <2>2. s.do \in Early
    BY <2>1, StepParts
  <2> HIDE DEF E
  <2>3. /\ s.do = "sdk" => Rank(s.do) = 1
        /\ s.do = "ask" => Rank(s.do) = 2
        /\ s.do = "accelerate" => Rank(s.do) = 3
        /\ s.do = "lists" => Rank(s.do) = 4
    BY RankOf
  <2> QED
    BY <2>2, <2>3 DEF Early
<1> HIDE DEF a, d, E, J
<1>7. JsSteps(v) \in Seq(Steps(v)) /\ Sorted(JsSteps(v)) /\ Range(JsSteps(v)) = J
  BY JsStepsFit DEF J
<1>8. \A s \in E, r \in J : Follows(s, r)
  BY <1>5, <1>6 DEF Follows
<1>9. (a \o JsSteps(v)) \in Seq(Steps(v)) /\ Sorted(a \o JsSteps(v)) /\ Range(a \o JsSteps(v)) = E \cup J
  BY <1>2, <1>7, <1>8, SortedCat
<1>10. ASSUME NEW s \in E \cup J
       PROVE  Follows(s, Step("deleteBackups", v))
  <2>1. Step("deleteBackups", v).do = "deleteBackups"
    BY StepParts
  <2>2. Rank(s.do) \in 1..5
    <3>1. s \in J => Rank(s.do) = 5
      BY <1>5
    <3>2. s \in E => Rank(s.do) \in 1..4
      BY <1>6
    <3> QED
      BY <3>1, <3>2
  <2>3. Rank(Step("deleteBackups", v).do) = 6
    BY <1>3, <2>1
  <2>4. Rank(s.do) < Rank(Step("deleteBackups", v).do)
    <3> DEFINE x == Rank(s.do)
               y == Rank(Step("deleteBackups", v).do)
    <3>1. x \in 1..5 /\ y = 6
      BY <2>2, <2>3
    <3> HIDE DEF x, y
    <3>2. x < y
      BY <3>1
    <3> QED
      BY <3>2 DEF x, y
  <2> QED
    BY <2>4 DEF Follows
<1>11. /\ ((a \o JsSteps(v)) \o d) \in Seq(Steps(v)) /\ Sorted((a \o JsSteps(v)) \o d)
       /\ Range((a \o JsSteps(v)) \o d) = (E \cup J) \cup {Step("deleteBackups", v)}
  <2> DEFINE b == a \o JsSteps(v)
  <2>1. b \in Seq(Steps(v)) /\ Sorted(b) /\ Range(b) = E \cup J
    BY <1>9
  <2> HIDE DEF b
  <2>2. \A s \in Range(b), r \in Range(d) : Follows(s, r)
    BY <1>4, <1>10, <2>1
  <2>3. /\ (b \o d) \in Seq(Steps(v)) /\ Sorted(b \o d)
        /\ Range(b \o d) = Range(b) \cup Range(d)
    <3>1. b \in Seq(Steps(v)) /\ d \in Seq(Steps(v)) /\ Sorted(b) /\ Sorted(d)
      BY <1>4, <2>1
    <3> QED
      BY <2>2, <3>1, SortedCat
  <2> QED
    BY <1>4, <2>1, <2>3 DEF b
<1> QED
  BY <1>1, <1>11 DEF E, J, Changes, EarlySteps, FileSteps


(* ... and others after them. *)
LEMMA ChangingThenEnd ==
  ASSUME NEW v \in FrameworkVersions, NEW e \in Seq(Steps(v)), Sorted(e),
         \A s \in Range(e) : s.do \in {"framework", "wpsdk", "save"}
  PROVE  LET t == FrameworkVersionChanging(v) \o e
         IN t \in Seq(Steps(v)) /\ Sorted(t) /\ Range(t) = Changes(v) \cup Range(e)
<1> DEFINE c == FrameworkVersionChanging(v)
<1>1. c \in Seq(Steps(v)) /\ Sorted(c) /\ Range(c) = Changes(v)
  BY ChangingFits
<1>2. ASSUME NEW s \in Changes(v)
      PROVE  s.do \in Early \cup JsKinds \cup {"deleteBackups"}
  <2>1. \/ \E do \in Early : s = Step(do, v)
        \/ \E p \in JsFiles : s = Backup(p) \/ s = Copy(p, v)
        \/ s = Step("deleteBackups", v)
    BY <1>2, Zenon DEF Changes, EarlySteps, FileSteps
  <2>2. ASSUME NEW do \in Early, s = Step(do, v)
        PROVE  s.do \in Early
    BY <2>2, StepParts
  <2>3. ASSUME NEW f \in JsFiles, s = Backup(f) \/ s = Copy(f, v)
        PROVE  s.do \in JsKinds
    <3>1. s.do = "backup" \/ s.do = "copy"
      BY <2>3, StepParts
    <3> QED
      BY <3>1 DEF JsKinds
  <2>4. ASSUME s = Step("deleteBackups", v)
        PROVE  s.do = "deleteBackups"
    BY <2>4, StepParts
  <2> QED
    BY <2>1, <2>2, <2>3, <2>4, Zenon
<1>3. ASSUME NEW s, s.do \in Early \cup JsKinds \cup {"deleteBackups"}
      PROVE  Rank(s.do) \in 1..6
  BY <1>3, RankBounds
<1>4. ASSUME NEW r, r.do \in {"framework", "wpsdk", "save"}
      PROVE  Rank(r.do) \in 7..9
  BY <1>4, RankBounds
<1> HIDE DEF c
<1>5. ASSUME NEW s \in Range(c), NEW r \in Range(e)
      PROVE  Follows(s, r)
  <2> DEFINE x == Rank(s.do)
             y == Rank(r.do)
  <2>1. x \in 1..6
    <3>1. s.do \in Early \cup JsKinds \cup {"deleteBackups"}
      BY <1>1, <1>2
    <3> QED
      BY <1>3, <3>1
  <2>2. y \in 7..9
    BY <1>4
  <2> HIDE DEF x, y
  <2>3. x < y
    BY <2>1, <2>2
  <2> QED
    BY <2>3 DEF x, y, Follows
<1>6. c \o e \in Seq(Steps(v)) /\ Sorted(c \o e) /\ Range(c \o e) = Range(c) \cup Range(e)
  BY <1>1, <1>5, SortedCat
<1> QED
  BY <1>1, <1>6 DEF c

(* The ends of the commands. *)
LEMMA EndsFit ==
  ASSUME NEW v \in FrameworkVersions, NEW value \in FrameworkVersions \cup Sdks, NEW sdk \in Sdks
  PROVE  /\ <<Step("framework", v), Step("save", value)>> \in Seq(Steps(v))
         /\ Sorted(<<Step("framework", v), Step("save", value)>>)
         /\ Range(<<Step("framework", v), Step("save", value)>>) = {Step("framework", v), Step("save", value)}
         /\ <<Step("wpsdk", sdk), Step("save", value)>> \in Seq(Steps(v))
         /\ Sorted(<<Step("wpsdk", sdk), Step("save", value)>>)
         /\ Range(<<Step("wpsdk", sdk), Step("save", value)>>) = {Step("wpsdk", sdk), Step("save", value)}
         /\ Step("framework", v) \in Steps(v)
         /\ Follows(Step("framework", v), Step("wpsdk", sdk)) /\ Follows(Step("framework", v), Step("save", value))
<1>1. Step("framework", v) \in Steps(v) /\ Step("save", value) \in Steps(v) /\ Step("wpsdk", sdk) \in Steps(v)
  BY DEF Steps, Step
<1>2. ASSUME NEW a, NEW b, Rank(a.do) < Rank(b.do)
      PROVE  Follows(a, b)
  BY <1>2 DEF Follows
<1>3. ASSUME NEW a \in Steps(v), NEW b \in Steps(v), Follows(a, b)
      PROVE  <<a, b>> \in Seq(Steps(v)) /\ Sorted(<<a, b>>) /\ Range(<<a, b>>) = {a, b}
  <2> DEFINE t == <<a, b>>
  <2>1. Len(t) = 2 /\ t \in Seq(Steps(v)) /\ t[1] = a /\ t[2] = b
    OBVIOUS
  <2> HIDE DEF t
  <2>2. DOMAIN t = 1..2
    BY <2>1
  <2>3. Range(t) = {a, b}
    BY <2>1, <2>2 DEF Range
  <2>4. Sorted(t)
    BY <1>3, <2>1 DEF Sorted
  <2> QED
    BY <2>1, <2>3, <2>4 DEF t
<1>4. /\ Step("framework", v).do = "framework" /\ Step("wpsdk", sdk).do = "wpsdk" /\ Step("save", value).do = "save"
  BY StepParts
<1> DEFINE f == Step("framework", v)
           w == Step("wpsdk", sdk)
           s == Step("save", value)
<1> HIDE DEF f, w, s
<1>5. f.do = "framework" /\ w.do = "wpsdk" /\ s.do = "save"
  BY <1>4 DEF f, w, s
<1>6. Rank(f.do) = 7 /\ Rank(w.do) = 8 /\ Rank(s.do) = 9
  <2>1. /\ f.do = "framework" => Rank(f.do) = 7
        /\ w.do = "wpsdk" => Rank(w.do) = 8
        /\ s.do = "save" => Rank(s.do) = 9
    BY RankOf
  <2> QED
    BY <1>5, <2>1
<1>7. Follows(f, w) /\ Follows(f, s) /\ Follows(w, s)
  BY <1>2, <1>6
<1>8. f \in Steps(v) /\ w \in Steps(v) /\ s \in Steps(v)
  BY <1>1 DEF f, w, s
<1>9. <<f, s>> \in Seq(Steps(v)) /\ Sorted(<<f, s>>) /\ Range(<<f, s>>) = {f, s}
  BY <1>3, <1>7, <1>8
<1>10. <<w, s>> \in Seq(Steps(v)) /\ Sorted(<<w, s>>) /\ Range(<<w, s>>) = {w, s}
  BY <1>3, <1>7, <1>8
<1> QED
  BY <1>7, <1>8, <1>9, <1>10 DEF f, w, s

(* The version that builds for the 8.1 SDK is one that does. *)
LEMMA LatestVersion ==
  ASSUME NEW S, S \subseteq FrameworkVersions, S # {}
  PROVE  \E v \in S : \A w \in S : w <= v
<1> DEFINE Above(v) == {w \in S : v < w}
           counts == {Cardinality(Above(v)) : v \in S}
           less == {ss \in Nat \X Nat : ss[1] < ss[2]}
<1>1. S \in SUBSET Nat /\ IsFiniteSet(S)
  BY VersionsAssumption, FS_Subset
<1>2. \A v \in S : IsFiniteSet(Above(v)) /\ Cardinality(Above(v)) \in Nat
  BY <1>1, FS_Subset, FS_CardinalityType
<1>3. counts \in SUBSET Nat /\ counts # {}
  BY <1>2
<1>4. IsWellFoundedOn(less, Nat)
  BY NatLessThanWellFounded, Zenon DEF OpToRel
<1> HIDE DEF less, counts
<1>5. PICK n \in counts : \A m \in counts : ~ (<<m, n>> \in less)
  BY <1>3, <1>4, WFMin
<1>6. PICK v \in S : n = Cardinality(Above(v))
  BY DEF counts
<1>7. ASSUME NEW w \in S, v < w
      PROVE  FALSE
  <2>1. Above(w) \in SUBSET Above(v) /\ w \in Above(v) /\ w \notin Above(w)
    <3>1. v \in Nat /\ w \in Nat /\ \A x \in S : x \in Nat
      BY <1>1
    <3>2. \A x \in Above(w) : x \in Above(v)
      BY <1>7, <3>1
    <3>3. w \in Above(v) /\ w \notin Above(w)
      BY <1>7, <3>1
    <3> HIDE DEF Above
    <3> QED
      BY <3>2, <3>3
  <2>2. Cardinality(Above(w)) <= Cardinality(Above(v)) /\ Cardinality(Above(w)) # Cardinality(Above(v))
    <3> HIDE DEF Above
    <3> QED
      BY <1>2, <2>1, FS_Subset
  <2>3. Cardinality(Above(w)) \in counts
    BY DEF counts
  <2>4. Cardinality(Above(w)) \in Nat /\ n \in Nat /\ Cardinality(Above(w)) < n
    <3> HIDE DEF Above
    <3> QED
      BY <1>2, <1>6, <2>2
  <2> DEFINE m == Cardinality(Above(w))
  <2> HIDE DEF m
  <2>5. m \in Nat /\ n \in Nat /\ m < n /\ m \in counts
    BY <2>3, <2>4 DEF m
  <2>6. <<m, n>> \in less
    BY <2>5 DEF less
  <2> QED
    BY <1>5, <2>5, <2>6
<1> QED
  BY <1>1, <1>7

LEMMA VersionBuildsWithSdk81 == VersionForSdk81 \in FrameworkVersions /\ VersionForSdk81 >= CordovaForSdk81
<1> DEFINE Latest(versions) == CHOOSE v \in versions : \A w \in versions : w <= v
           experimental == {v \in FrameworkVersions \ StableVersions : CordovaForSdk81 <= v}
<1>1. ASSUME NEW S, S \subseteq FrameworkVersions, S # {}
      PROVE  Latest(S) \in S /\ \A w \in S : w <= Latest(S)
  BY <1>1, LatestVersion
<1> HIDE DEF Latest
<1>2. StableVersions \subseteq FrameworkVersions /\ StableVersions # {} /\ experimental \subseteq FrameworkVersions
  BY VersionsAssumption
<1>3. CASE Latest(StableVersions) >= CordovaForSdk81
  <2>1. VersionForSdk81 = Latest(StableVersions)
    BY <1>3 DEF VersionForSdk81, Latest
  <2> QED
    BY <1>1, <1>2, <1>3, <2>1
<1>4. CASE ~(Latest(StableVersions) >= CordovaForSdk81)
  <2>1. VersionForSdk81 = Latest(experimental)
    BY <1>4 DEF VersionForSdk81, Latest
  <2>2. PICK v \in FrameworkVersions : v >= 37
    BY VersionForSdk81Assumption
  <2>3. v \notin StableVersions
    <3> DEFINE l == Latest(StableVersions)
    <3>1. l \in StableVersions /\ \A w \in StableVersions : w <= l
      BY <1>1, <1>2
    <3>2. ~(l >= 37)
      BY <1>4 DEF CordovaForSdk81
    <3> HIDE DEF l
    <3>3. l \in Nat /\ v \in Nat
      BY <3>1, VersionsAssumption
    <3>4. ~(v <= l)
      BY <2>2, <3>2, <3>3
    <3> QED
      BY <3>1, <3>4
  <2>4. experimental # {}
    BY <2>2, <2>3, VersionsAssumption DEF CordovaForSdk81
  <2>5. Latest(experimental) \in experimental
    BY <1>1, <1>2, <2>4
  <2> QED
    BY <2>1, <2>5, VersionsAssumption DEF CordovaForSdk81
<1> QED
  BY <1>3, <1>4

--------------------------------------------------------------------------
(* The steps of a command, by what they do. *)
LEMMA StepKinds ==
  ASSUME NEW v, NEW s \in Steps(v)
  PROVE  /\ \/ s.do \in Early \cup {"deleteBackups", "framework"} /\ s = Step(s.do, v) /\ s.value = v
            \/ s.do = "backup" /\ s = Backup(s.value) /\ s.value \in JsFiles
            \/ s.do = "copy" /\ \E p \in JsFiles : s = Copy(p, v) /\ s.value = <<p, v>>
            \/ s.do = "wpsdk" /\ s.value \in Sdks
            \/ s.do = "save" /\ s.value \in FrameworkVersions \cup Sdks
<1>1. CASE s \in [do : Early \cup {"deleteBackups", "framework"}, value : {v}]
  BY <1>1 DEF Step
<1>2. CASE s \in [do : {"backup"}, value : JsFiles]
  BY <1>2 DEF Step, Backup
<1>3. CASE s \in [do : {"copy"}, value : JsFiles \X {v}]
  <2>1. PICK p \in JsFiles : s.value = <<p, v>>
    BY <1>3
  <2>2. s = Copy(p, v) /\ s.do = "copy"
    BY <1>3, <2>1 DEF Step, Copy
  <2> QED
    BY <2>1, <2>2
<1>4. CASE s \in [do : {"wpsdk"}, value : Sdks]
  BY <1>4
<1>5. CASE s \in [do : {"save"}, value : FrameworkVersions \cup Sdks]
  BY <1>5
<1> QED
  BY <1>1, <1>2, <1>3, <1>4, <1>5 DEF Steps

(* The rank tells what a step does. *)
LEMMA RankTells ==
  ASSUME NEW do \in {"sdk", "ask", "accelerate", "lists", "backup", "copy", "deleteBackups",
                     "framework", "wpsdk", "save"}
  PROVE  /\ do \in Early <=> Rank(do) < 5
         /\ do \in {"backup", "copy"} <=> Rank(do) = 5
         /\ do = "deleteBackups" <=> Rank(do) = 6
         /\ do = "framework" <=> Rank(do) = 7
         /\ do = "save" <=> Rank(do) = 9
         /\ do = "sdk" <=> Rank(do) < 2
         /\ do = "accelerate" <=> Rank(do) = 3
         /\ do = "lists" <=> Rank(do) = 4
         /\ do \in {"sdk", "ask"} <=> Rank(do) < 3
         /\ do \in {"sdk", "ask", "accelerate"} <=> Rank(do) < 4
         /\ Rank(do) \in 1..9
<1>1. /\ Rank("sdk") = 1 /\ Rank("ask") = 2 /\ Rank("accelerate") = 3 /\ Rank("lists") = 4
      /\ Rank("backup") = 5 /\ Rank("copy") = 5 /\ Rank("deleteBackups") = 6
      /\ Rank("framework") = 7 /\ Rank("wpsdk") = 8 /\ Rank("save") = 9
  BY RankOf DEF JsKinds
<1> DEFINE n == Rank(do)
<1>2. /\ do = "sdk" => n = 1
      /\ do = "ask" => n = 2
      /\ do = "accelerate" => n = 3
      /\ do = "lists" => n = 4
      /\ do = "backup" => n = 5
      /\ do = "copy" => n = 5
      /\ do = "deleteBackups" => n = 6
      /\ do = "framework" => n = 7
      /\ do = "wpsdk" => n = 8
      /\ do = "save" => n = 9
  BY <1>1
<1> HIDE DEF n
<1>3. CASE do = "sdk"
  <2>1. n = 1
    BY <1>2, <1>3
  <2> QED
    BY <1>3, <2>1 DEF n, Early
<1>4. CASE do = "ask"
  <2>1. n = 2
    BY <1>2, <1>4
  <2> QED
    BY <1>4, <2>1 DEF n, Early
<1>5. CASE do = "accelerate"
  <2>1. n = 3
    BY <1>2, <1>5
  <2> QED
    BY <1>5, <2>1 DEF n, Early
<1>6. CASE do = "lists"
  <2>1. n = 4
    BY <1>2, <1>6
  <2> QED
    BY <1>6, <2>1 DEF n, Early
<1>7. CASE do = "backup"
  <2>1. n = 5
    BY <1>2, <1>7
  <2> QED
    BY <1>7, <2>1 DEF n, Early
<1>8. CASE do = "copy"
  <2>1. n = 5
    BY <1>2, <1>8
  <2> QED
    BY <1>8, <2>1 DEF n, Early
<1>9. CASE do = "deleteBackups"
  <2>1. n = 6
    BY <1>2, <1>9
  <2> QED
    BY <1>9, <2>1 DEF n, Early
<1>10. CASE do = "framework"
  <2>1. n = 7
    BY <1>2, <1>10
  <2> QED
    BY <1>10, <2>1 DEF n, Early
<1>11. CASE do = "wpsdk"
  <2>1. n = 8
    BY <1>2, <1>11
  <2> QED
    BY <1>11, <2>1 DEF n, Early
<1>12. CASE do = "save"
  <2>1. n = 9
    BY <1>2, <1>12
  <2> QED
    BY <1>12, <2>1 DEF n, Early
<1> QED
  BY <1>3, <1>4, <1>5, <1>6, <1>7, <1>8, <1>9, <1>10, <1>11, <1>12

(* What may still come after a step. *)
LEMMA AfterStep ==
  ASSUME NEW v \in FrameworkVersions, NEW h \in Steps(v), NEW s \in Steps(v), Follows(h, s)
  PROVE  /\ s # h
         /\ s.do \in Early => h.do \in {"sdk", "ask", "accelerate"}
         /\ s.do \in Early \cup JsKinds => h.do \in Early \cup JsKinds
         /\ s.do \in Early \cup JsKinds \cup {"deleteBackups"} => h.do \in Early \cup JsKinds \cup {"deleteBackups"}
         /\ s.do = "framework" => h.do \in Early \cup JsKinds \cup {"deleteBackups"}
         /\ s.do = "sdk" => FALSE
         /\ s.do = "accelerate" => h.do \in {"sdk", "ask"}
         /\ s.do = "lists" => h.do \in {"sdk", "ask", "accelerate"}
         /\ h.do # "save"
         /\ \A p \in JsFiles : h = Copy(p, v) => s # Backup(p)
<1> DEFINE x == Rank(h.do)
           y == Rank(s.do)
           K == {"sdk", "ask", "accelerate", "lists", "backup", "copy", "deleteBackups", "framework", "wpsdk", "save"}
<1>1. h.do \in K /\ s.do \in K
  BY StepKinds, Zenon DEF Early
<1>2. /\ h.do = "sdk" => x = 1
      /\ h.do = "ask" => x = 2
      /\ h.do = "accelerate" => x = 3
      /\ h.do = "lists" => x = 4
      /\ h.do \in JsKinds => x = 5
      /\ h.do = "deleteBackups" => x = 6
      /\ h.do = "framework" => x = 7
      /\ h.do = "wpsdk" => x = 8
      /\ h.do = "save" => x = 9
  BY RankOf
<1>3. /\ s.do = "sdk" => y = 1
      /\ s.do = "ask" => y = 2
      /\ s.do = "accelerate" => y = 3
      /\ s.do = "lists" => y = 4
      /\ s.do \in JsKinds => y = 5
      /\ s.do = "deleteBackups" => y = 6
      /\ s.do = "framework" => y = 7
      /\ s.do = "wpsdk" => y = 8
      /\ s.do = "save" => y = 9
  BY RankOf
<1>4. x < y \/ (h.do \in JsKinds /\ s.do \in JsKinds)
  BY DEF Follows
<1> HIDE DEF x, y
<1>5. h.do \in JsKinds <=> h.do \in {"backup", "copy"}
  BY DEF JsKinds
<1>6. s.do \in JsKinds <=> s.do \in {"backup", "copy"}
  BY DEF JsKinds
<1>7. s # h
  BY NoneFollowsItself
<1>8. ASSUME NEW p \in JsFiles, h = Copy(p, v), s = Backup(p)
      PROVE  FALSE
  <2>1. h.do = "copy" /\ s.do = "backup"
    BY <1>8, StepParts
  <2>2. ~(x < y)
    BY <1>2, <1>3, <1>5, <1>6, <2>1
  <2> QED
    BY <1>8, <2>2 DEF Follows, x, y
<1> DEFINE a == h.do
           b == s.do
<1> HIDE DEF a, b
<1>9. x \in Nat /\ y \in Nat
  BY RankIsNatural DEF x, y
<1>10. x < y \/ (x = 5 /\ y = 5)
  BY <1>2, <1>3, <1>4
<1>11. /\ a \in Early <=> x < 5
       /\ a \in {"backup", "copy"} <=> x = 5
       /\ a = "deleteBackups" <=> x = 6
       /\ a = "save" <=> x = 9
       /\ a \in {"sdk", "ask"} <=> x < 3
       /\ a \in {"sdk", "ask", "accelerate"} <=> x < 4
       /\ x \in 1..9
  BY <1>1, RankTells DEF a, x
<1>12. /\ b \in Early <=> y < 5
       /\ b \in {"backup", "copy"} <=> y = 5
       /\ b = "deleteBackups" <=> y = 6
       /\ b = "framework" <=> y = 7
       /\ b = "sdk" <=> y < 2
       /\ b = "accelerate" <=> y = 3
       /\ b = "lists" <=> y = 4
       /\ y \in 1..9
  BY <1>1, RankTells DEF b, y
<1>14. /\ y < 5 => x < 4
       /\ y < 5 \/ y = 5 => x < 5 \/ x = 5
       /\ y < 5 \/ y = 5 \/ y = 6 => x < 5 \/ x = 5 \/ x = 6
       /\ y = 7 => x < 5 \/ x = 5 \/ x = 6
       /\ ~(y < 2)
       /\ y = 3 => x < 3
       /\ y = 4 => x < 4
       /\ x # 9
  <2> DEFINE m == x
             n == y
  <2>1. m \in 1..9 /\ n \in 1..9 /\ (m < n \/ (m = 5 /\ n = 5))
    BY <1>10, <1>11, <1>12
  <2> HIDE DEF m, n
  <2>2. /\ n < 5 => m < 4
        /\ n < 5 \/ n = 5 => m < 5 \/ m = 5
        /\ n < 5 \/ n = 5 \/ n = 6 => m < 5 \/ m = 5 \/ m = 6
        /\ n = 7 => m < 5 \/ m = 5 \/ m = 6
        /\ ~(n < 2)
        /\ n = 3 => m < 3
        /\ n = 4 => m < 4
        /\ m # 9
    BY <2>1
  <2> QED
    BY <2>2 DEF m, n
<1>15. /\ b \in Early => a \in {"sdk", "ask", "accelerate"}
       /\ b \in Early \cup {"backup", "copy"} => a \in Early \cup {"backup", "copy"}
       /\ b \in Early \cup {"backup", "copy"} \cup {"deleteBackups"} =>
            a \in Early \cup {"backup", "copy"} \cup {"deleteBackups"}
       /\ b = "framework" => a \in Early \cup {"backup", "copy"} \cup {"deleteBackups"}
       /\ b = "sdk" => FALSE
       /\ b = "accelerate" => a \in {"sdk", "ask"}
       /\ b = "lists" => a \in {"sdk", "ask", "accelerate"}
       /\ a # "save"
  BY <1>11, <1>12, <1>14
<1> QED
  BY <1>7, <1>8, <1>15 DEF a, b, JsKinds

(* What is left of a plan is a plan, when a step was taken that all others  *)
(* follow.                                                                  *)
LEMMA RestOfPlan ==
  ASSUME NEW v \in FrameworkVersions, NEW L, PlanOf(v, L), NEW h \in L,
         \A s \in L \ {h} : Follows(h, s)
  PROVE  /\ PlanOf(v, L \ {h})
         /\ h.do = "save" => L \ {h} = {}
<1> DEFINE M == L \ {h}
<1>1. L \subseteq Steps(v) /\ h \in Steps(v) /\ M \subseteq L
  BY DEF PlanOf
<1>2. \A s \in M : s \in Steps(v) /\ Follows(h, s)
  BY <1>1
<1> HIDE DEF M
<1>3. ASSUME NEW p \in JsFiles, Backup(p) \in M
      PROVE  Copy(p, v) \in M
  <2>1. Copy(p, v) \in L
    BY <1>1, <1>3 DEF PlanOf
  <2>2. h # Copy(p, v)
    BY <1>1, <1>2, <1>3, AfterStep
  <2> QED
    BY <2>1, <2>2 DEF M
<1>4. ASSUME NEW s \in M, s.do \in Early, NEW p \in JsFiles
      PROVE  Backup(p) \in M
  <2>1. Backup(p) \in L
    BY <1>1, <1>4 DEF PlanOf
  <2>2. h.do \in {"sdk", "ask", "accelerate"}
    BY <1>1, <1>2, <1>4, AfterStep
  <2>3. h # Backup(p)
    BY <2>2, StepParts
  <2> QED
    BY <2>1, <2>3 DEF M
<1>5. ASSUME NEW s \in M, s.do \in Early \cup JsKinds \cup {"deleteBackups"}
      PROVE  Step("framework", v) \in M
  <2>1. Step("framework", v) \in L
    BY <1>1, <1>5 DEF PlanOf
  <2>2. h.do \in Early \cup JsKinds \cup {"deleteBackups"}
    BY <1>1, <1>2, <1>5, AfterStep
  <2>3. h # Step("framework", v)
    BY <2>2, StepParts DEF Early, JsKinds
  <2> QED
    BY <2>1, <2>3 DEF M
<1>6. ASSUME Step("accelerate", v) \in M
      PROVE  Step("lists", v) \in M
  <2>1. Step("lists", v) \in L
    BY <1>1, <1>6 DEF PlanOf
  <2>2. Step("accelerate", v).do = "accelerate"
    BY StepParts
  <2>3. h.do \in {"sdk", "ask"}
    BY <1>1, <1>2, <1>6, <2>2, AfterStep
  <2>4. h # Step("lists", v)
    BY <2>3, StepParts
  <2> QED
    BY <2>1, <2>4 DEF M
<1>7. \A s \in M : h.do # "save"
  BY <1>1, <1>2, AfterStep
<1>8. ASSUME M # {}
      PROVE  \E s \in M : s.do = "save"
  <2>1. h.do # "save"
    BY <1>7, <1>8
  <2>2. PICK s \in L : s.do = "save"
    BY DEF PlanOf
  <2> QED
    BY <2>1, <2>2 DEF M
<1>9. PlanOf(v, M)
  <2>1. M \subseteq Steps(v)
    BY <1>2
  <2>2. (\E s \in M : s.do \in Early) => \A p \in JsFiles : Backup(p) \in M
    BY <1>4
  <2>3. (\E s \in M : s.do \in Early \cup JsKinds \cup {"deleteBackups"}) => Step("framework", v) \in M
    BY <1>5
  <2> QED
    BY <1>3, <1>6, <1>8, <2>1, <2>2, <2>3, Zenon DEF PlanOf
<1> QED
  BY <1>7, <1>9 DEF M

--------------------------------------------------------------------------
(* A step of the command that is taken from `todo`. *)
Taken(h, v) ==
  /\ h \in Left /\ h \in Steps(v) /\ Left' = Left \ {h}
  /\ \A s \in Left' : s \in Steps(v) /\ Follows(h, s)
  /\ todo' \in Seq(Steps(v)) /\ Sorted(todo') /\ PlanOf(v, Left')
  /\ h.do = "save" => todo' = <<>>
  /\ todo' = <<>> <=> Left' = {}

LEMMA EmptyIfNone ==
  ASSUME NEW S, NEW t \in Seq(S)
  PROVE  t = <<>> <=> Range(t) = {}
<1>1. ASSUME t # <<>>
      PROVE  Range(t) # {}
  <2>1. 1 \in DOMAIN t
    BY <1>1
  <2> QED
    BY <2>1 DEF Range
<1>2. t = <<>> => Range(t) = {}
  BY DEF Range
<1> QED
  BY <1>1, <1>2

LEMMA HeadIsTaken ==
  ASSUME NEW v \in FrameworkVersions, PlanInv(v), todo # <<>>, todo' = Tail(todo)
  PROVE  Taken(Head(todo), v)
<1> DEFINE h == Head(todo)
           t == Tail(todo)
<1>1. todo \in Seq(Steps(v)) /\ Sorted(todo) /\ PlanOf(v, Left)
  BY DEF PlanInv
<1>2. /\ t \in Seq(Steps(v)) /\ Sorted(t) /\ h \in Range(todo) /\ h \in Steps(v)
      /\ Range(t) = Range(todo) \ {h}
      /\ \A s \in Range(t) : Follows(h, s)
  BY <1>1, SortedTail
<1> HIDE DEF h, t
<1>3. todo' = t /\ Left' = Range(t) /\ Left = Range(todo)
  BY DEF t, Left
<1>4. h \in Left /\ Left' = Left \ {h} /\ \A s \in Left \ {h} : Follows(h, s)
  BY <1>2, <1>3
<1>5. PlanOf(v, Left \ {h}) /\ (h.do = "save" => Left \ {h} = {})
  BY <1>1, <1>4, RestOfPlan
<1>6. todo' = <<>> <=> Left' = {}
  BY <1>2, <1>3, EmptyIfNone
<1>7. \A s \in Left' : s \in Steps(v) /\ Follows(h, s)
  BY <1>4, <1>5 DEF PlanOf
<1>8. todo' \in Seq(Steps(v)) /\ Sorted(todo')
  BY <1>2, <1>3
<1>9. PlanOf(v, Left') /\ (h.do = "save" => todo' = <<>>)
  BY <1>4, <1>5, <1>6
<1> QED
  BY <1>2, <1>4, <1>6, <1>7, <1>8, <1>9 DEF Taken, h

(* Of the kinds of steps left, the one taken is the first. *)
LEMMA TakenFirst ==
  ASSUME NEW v \in FrameworkVersions, NEW h, Taken(h, v)
  PROVE  /\ LeftOf(Early)' => h.do \in {"sdk", "ask", "accelerate"}
         /\ LeftOf(JsKinds)' => LeftOf(JsKinds) /\ h.do \in Early \cup JsKinds
         /\ LeftOf(Early \cup JsKinds \cup {"deleteBackups"})' => h.do \in Early \cup JsKinds \cup {"deleteBackups"}
         /\ LeftOf(Early)' => LeftOf(Early)
         /\ LeftOf(Early \cup JsKinds \cup {"deleteBackups"})' => LeftOf(Early \cup JsKinds \cup {"deleteBackups"})
         /\ Step("framework", v) \in Left' => h.do \in Early \cup JsKinds \cup {"deleteBackups"}
         /\ Step("sdk", v) \notin Left'
         /\ Step("accelerate", v) \in Left' => h.do \in {"sdk", "ask"}
         /\ Step("lists", v) \in Left' => h.do \in {"sdk", "ask", "accelerate"}
         /\ \A p \in JsFiles : h = Copy(p, v) => Backup(p) \notin Left'
<1>1. h \in Steps(v) /\ Left' = Left \ {h} /\ \A s \in Left' : s \in Left /\ s \in Steps(v) /\ Follows(h, s)
  BY DEF Taken
<1>2. \A s \in Left' :
         /\ s.do \in Early => h.do \in {"sdk", "ask", "accelerate"}
         /\ s.do \in Early \cup JsKinds => h.do \in Early \cup JsKinds
         /\ s.do \in Early \cup JsKinds \cup {"deleteBackups"} => h.do \in Early \cup JsKinds \cup {"deleteBackups"}
         /\ s.do = "framework" => h.do \in Early \cup JsKinds \cup {"deleteBackups"}
         /\ s.do = "sdk" => FALSE
         /\ s.do = "accelerate" => h.do \in {"sdk", "ask"}
         /\ s.do = "lists" => h.do \in {"sdk", "ask", "accelerate"}
         /\ \A p \in JsFiles : h = Copy(p, v) => s # Backup(p)
  BY <1>1, AfterStep, Zenon
<1>3. \A do, value : Step(do, value).do = do
  BY StepParts
<1>4. LeftOf(Early)' => h.do \in {"sdk", "ask", "accelerate"} /\ LeftOf(Early)
  BY <1>1, <1>2 DEF LeftOf
<1>5. LeftOf(JsKinds)' => LeftOf(JsKinds) /\ h.do \in Early \cup JsKinds
  BY <1>1, <1>2 DEF LeftOf
<1>6. LeftOf(Early \cup JsKinds \cup {"deleteBackups"})' =>
        /\ h.do \in Early \cup JsKinds \cup {"deleteBackups"}
        /\ LeftOf(Early \cup JsKinds \cup {"deleteBackups"})
  BY <1>1, <1>2, Zenon DEF LeftOf
<1>7. /\ Step("framework", v) \in Left' => h.do \in Early \cup JsKinds \cup {"deleteBackups"}
      /\ Step("sdk", v) \notin Left'
      /\ Step("accelerate", v) \in Left' => h.do \in {"sdk", "ask"}
      /\ Step("lists", v) \in Left' => h.do \in {"sdk", "ask", "accelerate"}
  BY <1>2, <1>3, Zenon
<1>8. \A p \in JsFiles : h = Copy(p, v) => Backup(p) \notin Left'
  BY <1>2
<1> QED
  BY <1>4, <1>5, <1>6, <1>7, <1>8

(* What a step that does nothing else leaves of each part of the plan. *)
LEMMA PlanKept ==
  ASSUME NEW v \in FrameworkVersions, PlanInv(v), pc = "task",
         todo' = Tail(todo), Head(todo).do # "save",
         \/ pc' = "task"
         \/ pc' = "save" /\ Step("lists", v) \in Left' /\ AcceleratedFrom <= v,
         properties'.framework = properties.framework \/ Head(todo).do \in {"framework", "wpsdk"}
  PROVE  Taken(Head(todo), v) /\ PlanInv(v)' /\ todo' # <<>>
<1> DEFINE h == Head(todo)
<1>1. Taken(h, v) /\ todo # <<>> /\ todo \in Seq(Steps(v))
  BY HeadIsTaken DEF PlanInv
<1>2. h.do # "save" /\ (properties'.framework = properties.framework \/ h.do \in {"framework", "wpsdk"})
  OBVIOUS
<1> HIDE DEF h
<1>3. todo' # <<>>
  <2>1. Left # {} /\ PlanOf(v, Left)
    BY <1>1 DEF Taken, PlanInv
  <2>2. PICK s \in Left : s.do = "save"
    BY <2>1 DEF PlanOf
  <2>3. s \in Left'
    BY <1>1, <1>2, <2>2 DEF Taken
  <2> QED
    BY <1>1, <2>3 DEF Taken
<1>4. LeftOf(Early \cup JsKinds \cup {"deleteBackups"})' => v # properties'.framework
  <2> SUFFICES ASSUME LeftOf(Early \cup JsKinds \cup {"deleteBackups"})'
               PROVE  v # properties'.framework
    OBVIOUS
  <2>1. h.do \in Early \cup JsKinds \cup {"deleteBackups"} /\ LeftOf(Early \cup JsKinds \cup {"deleteBackups"})
    BY <1>1, TakenFirst
  <2>2. v # properties.framework
    BY <2>1 DEF PlanInv
  <2>3. h.do \notin {"framework", "wpsdk"}
    BY <2>1 DEF Early, JsKinds
  <2> QED
    BY <1>2, <2>2, <2>3
<1>5. todo' \in Seq(Steps(v)) /\ Sorted(todo)' /\ PlanOf(v, Left)'
  BY <1>1 DEF Taken, Sorted, PlanOf
<1>6. PlanInv(v)'
  BY <1>3, <1>4, <1>5 DEF PlanInv
<1> QED
  BY <1>1, <1>3, <1>6 DEF h

LEMMA FitKept ==
  ASSUME NEW v \in FrameworkVersions, NEW h, Taken(h, v), FitInv(v), h.do \notin {"sdk", "framework"},
         properties'.framework = properties.framework, properties'.sdk = properties.sdk \/ h.do = "wpsdk"
  PROVE  FitInv(v)'
<1>1. Left' = Left \ {h} /\ h # Step("framework", v) /\ h # Step("sdk", v)
  BY StepParts DEF Taken
<1>2. Step("framework", v) \in Left' <=> Step("framework", v) \in Left
  BY <1>1
<1>3. Step("sdk", v) \notin Left
  BY <1>1, TakenFirst
<1>4. ASSUME Step("framework", v) \in Left'
      PROVE  v >= CordovaForSdk81 \/ properties'.sdk <= 80
  <2>1. v >= CordovaForSdk81 \/ properties.sdk <= 80
    BY <1>2, <1>3, <1>4 DEF FitInv
  <2>2. h.do \in Early \cup JsKinds \cup {"deleteBackups"}
    BY <1>4, TakenFirst
  <2>3. h.do # "wpsdk"
    BY <2>2 DEF Early, JsKinds
  <2> QED
    BY <2>1, <2>3
<1>5. ASSUME NEW s \in Left', s.do = "wpsdk", s.value > 80
      PROVE  IF Step("framework", v) \in Left' THEN v >= CordovaForSdk81 ELSE properties'.framework >= CordovaForSdk81
  <2>1. s \in Left
    BY <1>1
  <2>2. IF Step("framework", v) \in Left THEN v >= CordovaForSdk81 ELSE properties.framework >= CordovaForSdk81
    BY <1>5, <2>1 DEF FitInv
  <2> QED
    BY <1>2, <2>2
<1> QED
  BY <1>4, <1>5 DEF FitInv

LEMMA SdkKept ==
  ASSUME NEW v \in FrameworkVersions, NEW h, Taken(h, v), SdkInv(v),
         properties'.sdk = properties.sdk \/ h.do \in {"framework", "wpsdk"}, before' = before
  PROVE  SdkInv(v)'
<1> SUFFICES ASSUME Step("lists", v) \in Left', v >= CordovaForSdk81
             PROVE  properties'.sdk = before.properties.sdk
  BY DEF SdkInv
<1>1. h.do \in {"sdk", "ask", "accelerate"}
  BY TakenFirst
<1>2. Step("lists", v) \in Left
  BY DEF Taken
<1> QED
  BY <1>1, <1>2 DEF SdkInv

LEMMA JsKept ==
  ASSUME NEW v \in FrameworkVersions, NEW h, Taken(h, v), JsInv(v), h.do \notin JsKinds \cup {"framework"},
         properties'.framework = properties.framework, js' = js, before' = before,
         backup' = backup \/ h.do = "deleteBackups"
  PROVE  JsInv(v)'
<1>1. Left' = Left \ {h} /\ h # Step("framework", v)
  BY StepParts DEF Taken
<1>2. \A p \in JsFiles : h # Copy(p, v) /\ h # Backup(p)
  BY StepParts DEF JsKinds
<1>3. /\ Step("framework", v) \in Left' <=> Step("framework", v) \in Left
      /\ \A p \in JsFiles : Copy(p, v) \in Left' <=> Copy(p, v) \in Left
      /\ \A p \in JsFiles : Backup(p) \in Left' <=> Backup(p) \in Left
  BY <1>1, <1>2
<1>4. ASSUME LeftOf(JsKinds)', NEW p \in JsFiles
      PROVE  Backup(p) \in Left' \/ backup'[p] = before.js[p]
  <2>1. LeftOf(JsKinds) /\ h.do \in Early \cup JsKinds
    BY <1>4, TakenFirst
  <2>2. h.do # "deleteBackups"
    BY <2>1 DEF Early, JsKinds
  <2>3. Backup(p) \in Left \/ backup[p] = before.js[p]
    BY <2>1 DEF JsInv
  <2> QED
    BY <1>3, <2>2, <2>3
<1>5. ASSUME Step("framework", v) \in Left'
      PROVE  /\ properties'.framework = before.properties.framework
             /\ IF v = properties'.framework THEN js = before.js
                ELSE \A p \in JsFiles : js[p] = IF Copy(p, v) \in Left' THEN before.js[p] ELSE v
  BY <1>3, <1>5 DEF JsInv
<1>6. ASSUME Step("framework", v) \notin Left'
      PROVE  \/ js = before.js /\ properties'.framework = before.properties.framework
             \/ js = [p \in JsFiles |-> properties'.framework]
  <2>1. Step("framework", v) \notin Left
    BY <1>3, <1>6
  <2>2. \/ js = before.js /\ properties.framework = before.properties.framework
        \/ js = [p \in JsFiles |-> properties.framework]
    BY <2>1 DEF JsInv
  <2> QED
    BY <2>2
<1> QED
  BY <1>4, <1>5, <1>6 DEF JsInv

--------------------------------------------------------------------------
(* The steps of a command keep its plan. *)
LEMMA QuietStep ==
  ASSUME NEW v \in FrameworkVersions, RunOf(v), AskAboutPlugins \/ MigrateLists \/ DeleteBackups
  PROVE  RunOf(v)'
<1> DEFINE h == Head(todo)
<1>1. /\ pc = "task" /\ pc' = "task" /\ todo' = Tail(todo) /\ h.do \in {"ask", "lists", "deleteBackups"}
      /\ UNCHANGED <<properties, js, before>>
      /\ backup' = backup \/ h.do = "deleteBackups"
  <2>1. CASE AskAboutPlugins
    BY <2>1 DEF AskAboutPlugins, At, Continue
  <2>2. CASE MigrateLists
    BY <2>2 DEF MigrateLists, At, Continue
  <2>3. CASE DeleteBackups
    BY <2>3 DEF DeleteBackups, At, Continue
  <2> QED
    BY <2>1, <2>2, <2>3
<1>2. PlanInv(v) /\ FitInv(v) /\ SdkInv(v) /\ JsInv(v)
  BY DEF RunOf
<1>3. Taken(h, v) /\ PlanInv(v)'
  BY <1>1, <1>2, PlanKept
<1> HIDE DEF h
<1>4. h.do \notin {"sdk", "framework"} /\ h.do \notin JsKinds \cup {"framework"}
  BY <1>1 DEF JsKinds
<1>5. FitInv(v)'
  BY <1>1, <1>2, <1>3, <1>4, FitKept
<1>6. SdkInv(v)'
  BY <1>1, <1>2, <1>3, SdkKept
<1>7. JsInv(v)'
  BY <1>1, <1>2, <1>3, <1>4, JsKept
<1> QED
  BY <1>3, <1>5, <1>6, <1>7 DEF RunOf

LEMMA AccelerateStep ==
  ASSUME StateInv, NEW v \in FrameworkVersions, RunOf(v), Accelerate
  PROVE  RunOf(v)' /\ (pc' = "save" => Step("lists", v) \in Left') /\ todo' # <<>>
<1> DEFINE h == Head(todo)
<1>1. /\ pc = "task" /\ todo' = Tail(todo) /\ h.do = "accelerate"
      /\ \/ pc' = "task" /\ properties' = properties
         \/ h.value >= AcceleratedFrom /\ pc' = "save" /\ properties' = [properties EXCEPT !.accelerated = TRUE]
      /\ UNCHANGED <<js, backup, before>>
  BY DEF Accelerate, At, Value
<1>2. PlanInv(v) /\ FitInv(v) /\ SdkInv(v) /\ JsInv(v) /\ todo # <<>>
  BY <1>1 DEF RunOf, PlanInv
<1>3. Taken(h, v)
  BY <1>1, <1>2, HeadIsTaken
<1> HIDE DEF h
<1>4. h.do # "save" /\ h.do \notin {"sdk", "framework"} /\ h.do \notin JsKinds \cup {"framework"}
  BY <1>1 DEF JsKinds
<1>5. h = Step("accelerate", v) /\ h.value = v
  BY <1>1, <1>3, StepKinds DEF Taken
<1>6. Step("lists", v) \in Left'
  <2>1. Step("accelerate", v) \in Left /\ PlanOf(v, Left) /\ Left' = Left \ {h}
    BY <1>2, <1>3, <1>5 DEF Taken, PlanInv
  <2>2. Step("lists", v) \in Left
    BY <2>1 DEF PlanOf
  <2>3. Step("lists", v) # h
    BY <1>1, StepParts
  <2> QED
    BY <2>1, <2>2, <2>3
<1>7. AcceleratedFrom <= v \/ pc' = "task"
  BY <1>1, <1>5
<1>8. properties'.framework = properties.framework /\ properties'.sdk = properties.sdk
  BY <1>1 DEF StateInv, TypeOK, Properties
<1>9. PlanInv(v)' /\ todo' # <<>>
  <2>1. pc' = "task" \/ (pc' = "save" /\ Step("lists", v) \in Left' /\ AcceleratedFrom <= v)
    BY <1>1, <1>6, <1>7
  <2>2. Head(todo).do # "save"
    BY <1>4 DEF h
  <2> QED
    BY <1>1, <1>2, <1>8, <2>1, <2>2, PlanKept
<1>10. FitInv(v)'
  BY <1>2, <1>3, <1>4, <1>8, FitKept
<1>11. SdkInv(v)'
  BY <1>1, <1>2, <1>3, <1>8, SdkKept
<1>12. JsInv(v)'
  BY <1>1, <1>2, <1>3, <1>4, <1>8, JsKept
<1> QED
  BY <1>6, <1>9, <1>10, <1>11, <1>12 DEF RunOf

LEMMA ChangeSdkStep ==
  ASSUME StateInv, NEW v \in FrameworkVersions, RunOf(v), ChangeSdk
  PROVE  RunOf(v)' /\ Fits(properties') /\ properties' \in Properties
<1> DEFINE h == Head(todo)
<1>1. /\ pc = "task" /\ pc' = "task" /\ todo' = Tail(todo) /\ h.do = "sdk"
      /\ properties' = IF properties.sdk > 80 /\ h.value < CordovaForSdk81
                       THEN [properties EXCEPT !.sdk = 80] ELSE properties
      /\ UNCHANGED <<js, backup, before>>
  BY DEF ChangeSdk, At, Value, Continue
<1>2. PlanInv(v) /\ FitInv(v) /\ SdkInv(v) /\ JsInv(v) /\ todo # <<>>
  BY <1>1 DEF RunOf, PlanInv
<1>3. Taken(h, v)
  BY <1>1, <1>2, HeadIsTaken
<1>4. Head(todo).do # "save"
  BY <1>1
<1> HIDE DEF h
<1>5. h.do \notin JsKinds \cup {"framework"}
  BY <1>1 DEF JsKinds
<1>6. h = Step("sdk", v) /\ h.value = v
  BY <1>1, <1>3, StepKinds DEF Taken
<1>7. /\ properties \in Properties /\ Fits(properties)
      /\ properties.sdk \in Nat /\ v \in Nat
  BY SdksAssumption, VersionsAssumption DEF StateInv, TypeOK, Properties
<1>8. /\ properties' \in Properties /\ properties'.framework = properties.framework
      /\ \/ properties' = properties /\ (properties.sdk <= 80 \/ v >= CordovaForSdk81)
         \/ properties'.sdk = 80 /\ v < CordovaForSdk81
  BY <1>1, <1>6, <1>7, SdksAssumption DEF Properties, CordovaForSdk81
<1>9. Fits(properties')
  BY <1>7, <1>8 DEF Fits
<1>10. PlanInv(v)'
  BY <1>1, <1>2, <1>4, <1>8, PlanKept
<1>11. FitInv(v)'
  <2>1. ASSUME NEW s \in Left', s.do = "wpsdk", s.value > 80
        PROVE  IF Step("framework", v) \in Left' THEN v >= CordovaForSdk81 ELSE properties'.framework >= CordovaForSdk81
    <3>1. s \in Left /\ (Step("framework", v) \in Left' <=> Step("framework", v) \in Left)
      <4>1. h # Step("framework", v)
        BY <1>1, StepParts
      <4> QED
        BY <1>3, <4>1 DEF Taken
    <3> QED
      BY <1>2, <1>8, <2>1, <3>1 DEF FitInv
  <2>2. v >= CordovaForSdk81 \/ properties'.sdk <= 80
    BY <1>8
  <2> QED
    BY <2>1, <2>2 DEF FitInv
<1>12. SdkInv(v)'
  <2> SUFFICES ASSUME Step("lists", v) \in Left', v >= CordovaForSdk81
               PROVE  properties'.sdk = before'.properties.sdk
    BY DEF SdkInv
  <2>1. properties' = properties
    BY <1>7, <1>8 DEF CordovaForSdk81
  <2>2. Step("lists", v) \in Left
    BY <1>3 DEF Taken
  <2> QED
    BY <1>1, <1>2, <2>1, <2>2 DEF SdkInv
<1>13. JsInv(v)'
  BY <1>1, <1>2, <1>3, <1>5, <1>8, JsKept
<1> QED
  BY <1>8, <1>9, <1>10, <1>11, <1>12, <1>13 DEF RunOf

LEMMA SetSdkStep ==
  ASSUME StateInv, NEW v \in FrameworkVersions, RunOf(v), SetSdk
  PROVE  RunOf(v)' /\ Fits(properties') /\ properties' \in Properties
<1> DEFINE h == Head(todo)
<1>1. /\ pc = "task" /\ pc' = "task" /\ todo' = Tail(todo) /\ h.do = "wpsdk"
      /\ properties' = [properties EXCEPT !.sdk = h.value]
      /\ UNCHANGED <<js, backup, before>>
  BY DEF SetSdk, At, Value, Continue
<1>2. PlanInv(v) /\ FitInv(v) /\ SdkInv(v) /\ JsInv(v) /\ todo # <<>>
  BY <1>1 DEF RunOf, PlanInv
<1>3. Taken(h, v)
  BY <1>1, <1>2, HeadIsTaken
<1>4. Head(todo).do # "save"
  BY <1>1
<1> HIDE DEF h
<1>5. h.do \notin JsKinds \cup {"framework"} /\ h.do \notin {"sdk", "framework"}
  BY <1>1 DEF JsKinds
<1>6. h.value \in Sdks
  <2>1. h \in Steps(v)
    BY <1>3 DEF Taken
  <2> QED
    BY <1>1, <2>1, StepKinds DEF Early
<1>7. /\ properties' \in Properties /\ properties'.framework = properties.framework /\ properties'.sdk = h.value
  BY <1>1, <1>6 DEF Properties, StateInv, TypeOK
<1>8. Fits(properties')
  <2> SUFFICES ASSUME h.value > 80 PROVE properties.framework >= CordovaForSdk81
    BY <1>7 DEF Fits
  <2>1. h \in Left /\ Left' = Left \ {h}
    BY <1>3 DEF Taken
  <2>2. Step("framework", v) \notin Left
    <3>1. Step("framework", v) \notin Left'
      BY <1>1, <1>3, TakenFirst DEF Early, JsKinds
    <3>2. h # Step("framework", v)
      BY <1>1, StepParts
    <3> QED
      BY <2>1, <3>1, <3>2
  <2> QED
    BY <1>1, <1>2, <2>1, <2>2 DEF FitInv
<1>9. PlanInv(v)'
  BY <1>1, <1>2, <1>4, <1>7, PlanKept
<1>10. FitInv(v)'
  BY <1>1, <1>2, <1>3, <1>5, <1>7, FitKept
<1>11. SdkInv(v)'
  BY <1>1, <1>2, <1>3, SdkKept
<1>12. JsInv(v)'
  BY <1>1, <1>2, <1>3, <1>5, <1>7, JsKept
<1> QED
  BY <1>7, <1>8, <1>9, <1>10, <1>11, <1>12 DEF RunOf

LEMMA SetFrameworkStep ==
  ASSUME StateInv, NEW v \in FrameworkVersions, RunOf(v), SetFramework
  PROVE  RunOf(v)' /\ Fits(properties') /\ properties' \in Properties
<1> DEFINE h == Head(todo)
<1>1. /\ pc = "task" /\ pc' = "task" /\ todo' = Tail(todo) /\ h.do = "framework"
      /\ properties' = [properties EXCEPT !.framework = h.value]
      /\ UNCHANGED <<js, backup, before>>
  BY DEF SetFramework, At, Value, Continue
<1>2. PlanInv(v) /\ FitInv(v) /\ SdkInv(v) /\ JsInv(v) /\ todo # <<>>
  BY <1>1 DEF RunOf, PlanInv
<1>3. Taken(h, v)
  BY <1>1, <1>2, HeadIsTaken
<1>4. Head(todo).do # "save" /\ Head(todo).do \in {"framework", "wpsdk"}
  BY <1>1
<1> HIDE DEF h
<1>5. h = Step("framework", v) /\ h.value = v
  BY <1>1, <1>3, StepKinds DEF Taken
<1>6. h.do \notin Early \cup JsKinds \cup {"deleteBackups"}
  BY <1>1 DEF Early, JsKinds
<1>7. /\ properties' \in Properties /\ properties'.framework = v /\ properties'.sdk = properties.sdk
  BY <1>1, <1>5 DEF Properties, StateInv, TypeOK
<1>8. h \in Left /\ Left' = Left \ {h} /\ Step("framework", v) \in Left /\ Step("framework", v) \notin Left'
  BY <1>3, <1>5 DEF Taken
<1>9. Step("sdk", v) \notin Left
  <2>1. Step("sdk", v) # h
    BY <1>1, StepParts
  <2> QED
    BY <1>3, <1>8, <2>1, TakenFirst
<1>10. Fits(properties')
  <2>1. v >= CordovaForSdk81 \/ properties.sdk <= 80
    BY <1>2, <1>8, <1>9 DEF FitInv
  <2>2. properties.sdk \in Nat
    BY SdksAssumption DEF StateInv, TypeOK, Properties
  <2> QED
    BY <1>7, <2>1, <2>2 DEF Fits
<1>11. PlanInv(v)'
  BY <1>1, <1>2, <1>4, PlanKept
<1>12. FitInv(v)'
  <2>1. ASSUME NEW s \in Left', s.do = "wpsdk", s.value > 80
        PROVE  properties'.framework >= CordovaForSdk81
    BY <1>2, <1>7, <1>8, <2>1 DEF FitInv
  <2> QED
    BY <1>8, <2>1 DEF FitInv
<1>13. SdkInv(v)'
  BY <1>1, <1>2, <1>3, SdkKept
<1>14. ~LeftOf(JsKinds)'
  BY <1>3, <1>6, TakenFirst
<1>15. \A p \in JsFiles : Copy(p, v) \notin Left
  <2> SUFFICES ASSUME NEW p \in JsFiles, Copy(p, v) \in Left PROVE FALSE
    OBVIOUS
  <2>1. Copy(p, v).do = "copy"
    BY StepParts
  <2>2. Copy(p, v) \in Left'
    BY <1>1, <1>8, <2>1
  <2> QED
    BY <1>14, <2>1, <2>2 DEF LeftOf, JsKinds
<1>16. \/ js = before.js /\ v = before.properties.framework
       \/ js = [p \in JsFiles |-> v]
  <2>1. CASE v = properties.framework
    BY <1>2, <1>8, <2>1 DEF JsInv
  <2>2. CASE v # properties.framework
    <3>1. \A p \in JsFiles : js[p] = v
      BY <1>2, <1>8, <1>15, <2>2 DEF JsInv
    <3>2. js \in [JsFiles -> FrameworkVersions \cup {Torn}]
      BY DEF StateInv, TypeOK
    <3> QED
      BY <3>1, <3>2
  <2> QED
    BY <2>1, <2>2
<1>17. JsInv(v)'
  BY <1>1, <1>7, <1>8, <1>14, <1>16 DEF JsInv
<1> QED
  BY <1>7, <1>10, <1>11, <1>12, <1>13, <1>17 DEF RunOf

LEMMA BackUpStep ==
  ASSUME StateInv, NEW v \in FrameworkVersions, RunOf(v), BackUpJs
  PROVE  RunOf(v)' /\ backup' \in [JsFiles -> FrameworkVersions \cup {NoBackup, Torn}]
<1> DEFINE h == Head(todo)
<1>1. /\ pc = "task" /\ pc' = "task" /\ todo' = Tail(todo) /\ h.do = "backup"
      /\ backup' = [backup EXCEPT ![h.value] = js[h.value]]
      /\ UNCHANGED <<js, properties, before>>
  BY DEF BackUpJs, At, Value, Continue
<1>2. PlanInv(v) /\ FitInv(v) /\ SdkInv(v) /\ JsInv(v) /\ todo # <<>>
  BY <1>1 DEF RunOf, PlanInv
<1>3. Taken(h, v) /\ PlanInv(v)'
  BY <1>1, <1>2, HeadIsTaken, PlanKept
<1> HIDE DEF h
<1>4. FitInv(v)' /\ SdkInv(v)'
  BY <1>1, <1>2, <1>3, FitKept, SdkKept
<1>5. h = Backup(h.value) /\ h.value \in JsFiles
  BY <1>1, <1>3, StepKinds DEF Taken, Early
<1> DEFINE q == h.value
<1> HIDE DEF q
<1>6. h = Backup(q) /\ q \in JsFiles /\ backup' = [backup EXCEPT ![q] = js[q]]
  BY <1>1, <1>5 DEF q
<1>7. /\ js \in [JsFiles -> FrameworkVersions \cup {Torn}]
      /\ backup \in [JsFiles -> FrameworkVersions \cup {NoBackup, Torn}]
  BY DEF StateInv, TypeOK
<1>8. h \in Left /\ Left' = Left \ {h} /\ PlanOf(v, Left) /\ LeftOf(JsKinds)
      /\ LeftOf(Early \cup JsKinds \cup {"deleteBackups"})
  BY <1>1, <1>2, <1>3 DEF Taken, PlanInv, LeftOf, JsKinds
<1>9. Step("framework", v) \in Left /\ Step("framework", v) \in Left' /\ v # properties.framework
  <2>1. Step("framework", v) \in Left /\ v # properties.framework
    BY <1>2, <1>8 DEF PlanOf, PlanInv, LeftOf
  <2>2. h # Step("framework", v)
    BY <1>1, StepParts
  <2> QED
    BY <1>8, <2>1, <2>2
<1>10. \A p \in JsFiles : js[p] = IF Copy(p, v) \in Left THEN before.js[p] ELSE v
  BY <1>2, <1>9 DEF JsInv
<1>11. js[q] = before.js[q]
  BY <1>6, <1>8, <1>10 DEF PlanOf
<1>12. \A p \in JsFiles : Copy(p, v) \in Left' <=> Copy(p, v) \in Left
  BY <1>1, <1>8, StepParts
<1>13. ASSUME NEW p \in JsFiles
       PROVE  Backup(p) \in Left' \/ backup'[p] = before.js[p]
  <2>1. CASE p = q
    BY <1>6, <1>7, <1>11, <2>1
  <2>2. CASE p # q
    <3>1. Backup(p) # h
      BY <1>6, <2>2, StepParts
    <3>2. Backup(p) \in Left \/ backup[p] = before.js[p]
      BY <1>2, <1>8 DEF JsInv
    <3> QED
      BY <1>6, <1>7, <1>8, <2>2, <3>1, <3>2
  <2> QED
    BY <2>1, <2>2
<1>14. JsInv(v)'
  <2>1. properties'.framework = before'.properties.framework /\ v # properties'.framework
    BY <1>1, <1>2, <1>9 DEF JsInv
  <2>2. \A p \in JsFiles : js'[p] = IF Copy(p, v) \in Left' THEN before'.js[p] ELSE v
    BY <1>1, <1>10, <1>12
  <2>3. \A p \in JsFiles : Backup(p) \in Left' \/ backup'[p] = before'.js[p]
    BY <1>1, <1>13
  <2> QED
    BY <1>9, <2>1, <2>2, <2>3 DEF JsInv
<1> QED
  BY <1>3, <1>4, <1>6, <1>7, <1>14 DEF RunOf

LEMMA CopyStep ==
  ASSUME StateInv, NEW v \in FrameworkVersions, RunOf(v), CopyJs
  PROVE  RunOf(v)' /\ js' \in [JsFiles -> FrameworkVersions \cup {Torn}]
<1> DEFINE h == Head(todo)
<1>1. /\ pc = "task" /\ pc' = "task" /\ todo' = Tail(todo) /\ h.do = "copy"
      /\ js' = [js EXCEPT ![h.value[1]] = h.value[2]]
      /\ UNCHANGED <<backup, properties, before>>
  BY DEF CopyJs, At, Value, Continue
<1>2. PlanInv(v) /\ FitInv(v) /\ SdkInv(v) /\ JsInv(v) /\ todo # <<>>
  BY <1>1 DEF RunOf, PlanInv
<1>3. Taken(h, v) /\ PlanInv(v)'
  BY <1>1, <1>2, HeadIsTaken, PlanKept
<1> HIDE DEF h
<1>4. FitInv(v)' /\ SdkInv(v)'
  BY <1>1, <1>2, <1>3, FitKept, SdkKept
<1>5. PICK q \in JsFiles : h = Copy(q, v) /\ h.value = <<q, v>>
  BY <1>1, <1>3, StepKinds DEF Taken, Early
<1>6. js' = [js EXCEPT ![q] = v]
  BY <1>1, <1>5
<1>7. js \in [JsFiles -> FrameworkVersions \cup {Torn}]
  BY DEF StateInv, TypeOK
<1>8. h \in Left /\ Left' = Left \ {h} /\ PlanOf(v, Left) /\ LeftOf(JsKinds)
      /\ LeftOf(Early \cup JsKinds \cup {"deleteBackups"})
  BY <1>1, <1>2, <1>3 DEF Taken, PlanInv, LeftOf, JsKinds
<1>9. Step("framework", v) \in Left /\ Step("framework", v) \in Left' /\ v # properties.framework
  <2>1. Step("framework", v) \in Left /\ v # properties.framework
    BY <1>2, <1>8 DEF PlanOf, PlanInv, LeftOf
  <2>2. h # Step("framework", v)
    BY <1>1, StepParts
  <2> QED
    BY <1>8, <2>1, <2>2
<1>10. \A p \in JsFiles : js[p] = IF Copy(p, v) \in Left THEN before.js[p] ELSE v
  BY <1>2, <1>9 DEF JsInv
<1>11. \A p \in JsFiles : Backup(p) \in Left' <=> Backup(p) \in Left
  BY <1>1, <1>8, StepParts
<1>12. \A p \in JsFiles : Backup(p) \in Left \/ backup[p] = before.js[p]
  BY <1>2, <1>8 DEF JsInv
<1>13. ASSUME NEW p \in JsFiles
       PROVE  js'[p] = IF Copy(p, v) \in Left' THEN before.js[p] ELSE v
  <2>1. CASE p = q
    BY <1>5, <1>6, <1>7, <1>8, <2>1
  <2>2. CASE p # q
    <3>1. Copy(p, v) # h
      BY <1>5, <2>2, StepParts
    <3>2. js[p] = IF Copy(p, v) \in Left THEN before.js[p] ELSE v
      BY <1>10
    <3> QED
      BY <1>6, <1>7, <1>8, <2>2, <3>1, <3>2
  <2> QED
    BY <2>1, <2>2
<1>14. JsInv(v)'
  <2>1. properties'.framework = before'.properties.framework /\ v # properties'.framework
    BY <1>1, <1>2, <1>9 DEF JsInv
  <2>2. \A p \in JsFiles : js'[p] = IF Copy(p, v) \in Left' THEN before'.js[p] ELSE v
    BY <1>1, <1>13
  <2>3. \A p \in JsFiles : Backup(p) \in Left' \/ backup'[p] = before'.js[p]
    BY <1>1, <1>11, <1>12
  <2> QED
    BY <1>9, <2>1, <2>2, <2>3 DEF JsInv
<1> QED
  BY <1>3, <1>4, <1>6, <1>7, <1>14 DEF RunOf

LEMMA SaveAllStep ==
  ASSUME NEW v \in FrameworkVersions, RunOf(v), SaveAll
  PROVE  RunOf(v)' /\ todo' = <<>> /\ Left' = {}
<1> DEFINE h == Head(todo)
<1>1. /\ pc = "task" /\ pc' = "save" /\ todo' = Tail(todo) /\ h.do = "save"
      /\ UNCHANGED <<js, backup, properties, before>>
  BY DEF SaveAll, At, migrationVars
<1>2. PlanInv(v) /\ FitInv(v) /\ SdkInv(v) /\ JsInv(v) /\ todo # <<>>
  BY <1>1 DEF RunOf, PlanInv
<1>3. Taken(h, v)
  BY <1>1, <1>2, HeadIsTaken
<1> HIDE DEF h
<1>4. todo' = <<>> /\ Left' = {} /\ PlanOf(v, Left') /\ todo' \in Seq(Steps(v)) /\ Sorted(todo')
  BY <1>1, <1>3 DEF Taken
<1>5. ~LeftOf(Early \cup JsKinds \cup {"deleteBackups"})'
  BY <1>4 DEF LeftOf
<1>6. PlanInv(v)'
  BY <1>1, <1>4, <1>5 DEF PlanInv, PlanOf, Sorted
<1>7. h.do \notin {"sdk", "framework"} /\ h.do \notin JsKinds \cup {"framework"}
  BY <1>1 DEF JsKinds
<1> QED
  BY <1>1, <1>2, <1>3, <1>4, <1>6, <1>7, FitKept, SdkKept, JsKept DEF RunOf

(* ... as do those of a save, which are the same for each part but the plan. *)
LEMMA SavingSteps ==
  ASSUME NEW v \in FrameworkVersions, RunOf(v), pc \in {"save", "saveConfigurations"},
         UNCHANGED <<todo, properties, js, backup, before>>,
         pc' \in {"save", "saveConfigurations"} \/ (pc' = "task" /\ todo # <<>>)
  PROVE  RunOf(v)' /\ Left' = Left
<1>1. PlanInv(v) /\ FitInv(v) /\ SdkInv(v) /\ JsInv(v) /\ Left' = Left
  BY DEF RunOf, Left
<1>2. PlanInv(v)'
  BY <1>1 DEF PlanInv, PlanOf, LeftOf, Sorted
<1>3. FitInv(v)' /\ SdkInv(v)' /\ JsInv(v)'
  BY <1>1 DEF FitInv, SdkInv, JsInv, LeftOf
<1> QED
  BY <1>1, <1>2, <1>3 DEF RunOf

--------------------------------------------------------------------------
(* A command starts: with the steps that change the version, if it is       *)
(* another one, and others after them.                                      *)
LEMMA PlanOfChanges ==
  ASSUME NEW v \in FrameworkVersions, NEW E, E \subseteq Steps(v),
         Changes(v) \subseteq Steps(v),
         \A s \in E : s.do \in {"framework", "wpsdk", "save"},
         \E s \in E : s.do = "save",
         Step("framework", v) \in E \/ v = properties.framework
  PROVE  LET L == Changes(v) \cup E
         IN /\ PlanOf(v, L)
            /\ (\E s \in L : s.do \in Early \cup JsKinds \cup {"deleteBackups"}) => v # properties.framework
            /\ (\E s \in L : s.do \in JsKinds) => \A p \in JsFiles : Backup(p) \in L
            /\ v # properties.framework =>
                 Step("sdk", v) \in L /\ Step("framework", v) \in E /\ \A p \in JsFiles : Copy(p, v) \in L
            /\ Step("framework", v) \in L => Step("framework", v) \in E
<1> DEFINE L == Changes(v) \cup E
<1>1. \A s \in E : s.do \notin Early \cup JsKinds \cup {"deleteBackups"}
  BY DEF Early, JsKinds
<1>2. CASE v = properties.framework
  <2>1. L = E
    BY <1>2 DEF Changes
  <2> HIDE DEF L
  <2>2. \A p \in JsFiles : Backup(p) \notin L
    BY <1>1, <2>1, StepParts DEF JsKinds
  <2>3. ~\E s \in L : s.do \in Early \cup JsKinds \cup {"deleteBackups"}
    BY <1>1, <2>1
  <2>4. (~\E s \in L : s.do \in Early) /\ ~\E s \in L : s.do \in JsKinds
    BY <2>3
  <2>5. Step("accelerate", v) \notin L
    BY <2>4, StepParts DEF Early
  <2>6. PlanOf(v, L)
    BY <2>1, <2>2, <2>3, <2>4, <2>5 DEF PlanOf
  <2> QED
    BY <1>2, <2>1, <2>3, <2>4, <2>6 DEF L
<1>3. CASE v # properties.framework
  <2>1. Changes(v) = EarlySteps(v) \cup FileSteps(v) \cup {Step("deleteBackups", v)} /\ Step("framework", v) \in E
    BY <1>3 DEF Changes
  <2>2. \A p \in JsFiles : Backup(p) \in L /\ Copy(p, v) \in L
    BY <2>1 DEF FileSteps
  <2>3. Step("lists", v) \in L /\ Step("sdk", v) \in L
    BY <2>1 DEF EarlySteps, Early
  <2>4. Step("framework", v) \in L /\ L \subseteq Steps(v) /\ \E s \in L : s.do = "save"
    BY <2>1
  <2> HIDE DEF L
  <2>5. PlanOf(v, L)
    BY <2>2, <2>3, <2>4 DEF PlanOf
  <2> QED
    BY <1>3, <2>1, <2>2, <2>3, <2>5 DEF L
<1> QED
  BY <1>2, <1>3

LEMMA StartFits ==
  ASSUME StateInv, pc = "idle", pc' = "task", NEW v \in FrameworkVersions,
         NEW e \in Seq(Steps(v)), Sorted(e), todo' = FrameworkVersionChanging(v) \o e,
         \A s \in Range(e) : s.do \in {"framework", "wpsdk", "save"},
         \E s \in Range(e) : s.do = "save",
         Step("framework", v) \in Range(e) \/ v = properties.framework,
         \A s \in Range(e) : s.do = "wpsdk" /\ s.value > 80 =>
           IF Step("framework", v) \in Range(e) THEN v >= CordovaForSdk81 ELSE properties.framework >= CordovaForSdk81,
         before' = [properties |-> saved, js |-> js], UNCHANGED <<properties, js, backup>>
  PROVE  RunOf(v)' /\ Goes(v)' /\ todo' # <<>> /\ Range(e) \subseteq Left'
<1> DEFINE E == Range(e)
           L == Changes(v) \cup E
<1>1. todo' \in Seq(Steps(v)) /\ Sorted(todo') /\ Left' = L
  BY ChangingThenEnd DEF Left
<1>2. FrameworkVersionChanging(v) \in Seq(Steps(v)) /\ Range(FrameworkVersionChanging(v)) = Changes(v)
  BY ChangingFits
<1>3. E \subseteq Steps(v) /\ Changes(v) \subseteq Steps(v)
  <2>1. \A t \in Seq(Steps(v)) : Range(t) \subseteq Steps(v)
    BY DEF Range
  <2> QED
    BY <1>2, <2>1
<1> HIDE DEF E
<1>4. /\ \A s \in E : s.do \in {"framework", "wpsdk", "save"}
      /\ \E s \in E : s.do = "save"
      /\ Step("framework", v) \in E \/ v = properties.framework
      /\ \A s \in E : s.do = "wpsdk" /\ s.value > 80 =>
           IF Step("framework", v) \in E THEN v >= CordovaForSdk81 ELSE properties.framework >= CordovaForSdk81
  BY DEF E
<1>5. /\ PlanOf(v, L)
      /\ (\E s \in L : s.do \in Early \cup JsKinds \cup {"deleteBackups"}) => v # properties.framework
      /\ (\E s \in L : s.do \in JsKinds) => \A p \in JsFiles : Backup(p) \in L
      /\ v # properties.framework =>
           Step("sdk", v) \in L /\ Step("framework", v) \in E /\ \A p \in JsFiles : Copy(p, v) \in L
      /\ Step("framework", v) \in L => Step("framework", v) \in E
  BY <1>3, <1>4, PlanOfChanges
<1>6. \A s \in L : s.do = "wpsdk" => s \in E
  <2>1. \A s \in Changes(v) : s.do # "wpsdk"
    <3> SUFFICES ASSUME NEW s \in Changes(v) PROVE s.do # "wpsdk"
      OBVIOUS
    <3>1. \/ \E do \in Early : s = Step(do, v)
          \/ \E p \in JsFiles : s = Backup(p) \/ s = Copy(p, v)
          \/ s = Step("deleteBackups", v)
      BY Zenon DEF Changes, EarlySteps, FileSteps
    <3> QED
      BY <3>1, StepParts DEF Early
  <2> QED
    BY <2>1
<1>7. Step("framework", v) \in E => Step("framework", v) \in L
  OBVIOUS
<1> HIDE DEF L
<1>8. todo' # <<>>
  <2>1. L # {}
    BY <1>5 DEF PlanOf, E, L
  <2>2. todo' = <<>> <=> Range(todo') = {}
    BY <1>1, EmptyIfNone
  <2> QED
    BY <1>1, <2>1, <2>2 DEF Left
<1>9. PlanInv(v)'
  <2>1. Sorted(todo)' /\ PlanOf(v, Left)'
    BY <1>1, <1>5 DEF Sorted, PlanOf
  <2>2. LeftOf(Early \cup JsKinds \cup {"deleteBackups"})' => v # properties'.framework
    BY <1>1, <1>5 DEF LeftOf
  <2> QED
    BY <1>1, <1>8, <2>1, <2>2 DEF PlanInv
<1>10. properties = saved /\ Fits(properties) /\ properties.sdk \in Nat
  BY SdksAssumption DEF StateInv, TypeOK, Properties
<1>11. FitInv(v)'
  <2>1. v >= CordovaForSdk81 \/ properties.sdk <= 80 \/ Step("sdk", v) \in L
    BY <1>5, <1>10 DEF Fits
  <2>2. \A s \in L : s.do = "wpsdk" /\ s.value > 80 =>
          IF Step("framework", v) \in L THEN v >= CordovaForSdk81 ELSE properties.framework >= CordovaForSdk81
    BY <1>4, <1>5, <1>6, <1>7
  <2> QED
    BY <1>1, <2>1, <2>2 DEF FitInv
<1>12. before'.properties = properties /\ before'.js = js
  BY <1>10
<1>13. SdkInv(v)'
  BY <1>12 DEF SdkInv
<1>14. JsInv(v)'
  BY <1>1, <1>5, <1>12 DEF JsInv, LeftOf
<1>15. Goes(v)'
  <2>1. CASE v # properties.framework
    <3>1. Step("lists", v) \in L
      BY <2>1 DEF L, Changes, EarlySteps, Early
    <3> QED
      BY <1>1, <3>1, StepParts DEF Goes, LeftOf
  <2>2. CASE v = properties.framework
    <3>1. L = E
      BY <2>2 DEF L, Changes
    <3>2. \A s \in E : s.do = "framework" => s = Step("framework", v)
      BY <1>3, StepKinds DEF Early
    <3> QED
      BY <1>1, <2>2, <3>1, <3>2, StepParts DEF Goes, NewVersion, LeftOf
  <2> QED
    BY <2>1, <2>2
<1>16. Range(e) \subseteq Left'
  BY <1>1 DEF L, E
<1> QED
  BY <1>8, <1>9, <1>11, <1>13, <1>14, <1>15, <1>16 DEF RunOf

LEMMA FrameworkStartFits ==
  ASSUME StateInv, NEW v \in FrameworkVersions, NEW opts, SetFrameworkStart(v, opts)
  PROVE  RunOf(v)' /\ Goes(v)' /\ todo' # <<>> /\ Step("framework", v) \in Left'
<1> DEFINE e == <<Step("framework", v), Step("save", v)>>
<1>1. e \in Seq(Steps(v)) /\ Sorted(e) /\ Range(e) = {Step("framework", v), Step("save", v)}
  BY EndsFit, SdksAssumption
<1>2. /\ pc = "idle" /\ pc' = "task" /\ todo' = FrameworkVersionChanging(v) \o e
      /\ before' = [properties |-> saved, js |-> js] /\ UNCHANGED <<properties, js, backup>>
  BY DEF SetFrameworkStart
<1> HIDE DEF e
<1>3. /\ \A s \in Range(e) : s.do \in {"framework", "wpsdk", "save"} /\ s.do # "wpsdk"
      /\ \E s \in Range(e) : s.do = "save"
      /\ Step("framework", v) \in Range(e)
  BY <1>1, StepParts
<1> QED
  BY <1>1, <1>2, <1>3, StartFits

LEMMA SdkStartFits ==
  ASSUME StateInv, NEW sdk \in Sdks, NEW opts, SetSdkStart(sdk, opts)
  PROVE  (\E v \in FrameworkVersions : RunOf(v)' /\ Goes(v)') /\ todo' # <<>> /\ Step("wpsdk", sdk) \in Left'
<1> DEFINE e == <<Step("wpsdk", sdk), Step("save", sdk)>>
<1>1. /\ pc = "idle" /\ pc' = "task" /\ todo' = SdkChanging(sdk) \o e
      /\ before' = [properties |-> saved, js |-> js] /\ UNCHANGED <<properties, js, backup>>
  BY DEF SetSdkStart
<1>2. /\ properties \in Properties /\ Fits(properties) /\ properties.framework \in FrameworkVersions
      /\ properties.framework \in Nat /\ sdk \in Nat
  BY SdksAssumption, VersionsAssumption DEF StateInv, TypeOK, Properties
<1>3. CASE sdk = properties.sdk \/ sdk <= 80 \/ properties.framework >= CordovaForSdk81
  <2>1. PICK v \in FrameworkVersions : v = properties.framework
    BY <1>2
  <2>2. SdkChanging(sdk) = <<>> /\ FrameworkVersionChanging(v) = <<>>
    BY <1>3, <2>1 DEF SdkChanging, FrameworkVersionChanging
  <2>3. sdk > 80 => properties.framework >= CordovaForSdk81
    BY <1>2, <1>3 DEF Fits
  <2>4. e \in Seq(Steps(v)) /\ Sorted(e) /\ Range(e) = {Step("wpsdk", sdk), Step("save", sdk)}
    BY <2>1, EndsFit
  <2> HIDE DEF e
  <2>5. /\ \A s \in Range(e) : s.do \in {"framework", "wpsdk", "save"} /\ (s.do = "wpsdk" => s.value = sdk)
        /\ \E s \in Range(e) : s.do = "save"
        /\ Step("framework", v) \notin Range(e)
    BY <2>4, StepParts
  <2>6. todo' = FrameworkVersionChanging(v) \o e
    BY <1>1, <2>2
  <2>7. RunOf(v)' /\ Goes(v)' /\ todo' # <<>> /\ Range(e) \subseteq Left'
    BY <1>1, <2>1, <2>3, <2>4, <2>5, <2>6, StartFits
  <2> QED
    BY <2>1, <2>4, <2>7
<1>4. CASE ~(sdk = properties.sdk \/ sdk <= 80 \/ properties.framework >= CordovaForSdk81)
  <2> DEFINE v == VersionForSdk81
             f == <<Step("framework", v)>>
  <2>1. v \in FrameworkVersions /\ v >= CordovaForSdk81
    BY VersionBuildsWithSdk81
  <2>2. SdkChanging(sdk) = FrameworkVersionChanging(v) \o f
    BY <1>4 DEF SdkChanging
  <2> HIDE DEF v
  <2>3. /\ e \in Seq(Steps(v)) /\ Sorted(e) /\ Range(e) = {Step("wpsdk", sdk), Step("save", sdk)}
        /\ Step("framework", v) \in Steps(v)
        /\ Follows(Step("framework", v), Step("wpsdk", sdk)) /\ Follows(Step("framework", v), Step("save", sdk))
    BY <2>1, EndsFit
  <2>4. f \in Seq(Steps(v)) /\ Sorted(f) /\ Range(f) = {Step("framework", v)}
    BY <2>3, ShortSequences
  <2>5. FrameworkVersionChanging(v) \in Seq(Steps(v))
    BY <2>1, ChangingFits
  <2> HIDE DEF e, f
  <2> DEFINE g == f \o e
  <2>6. \A s \in Range(f), r \in Range(e) : Follows(s, r)
    BY <2>3, <2>4
  <2>7. g \in Seq(Steps(v)) /\ Sorted(g) /\ Range(g) = {Step("framework", v), Step("wpsdk", sdk), Step("save", sdk)}
    <3>1. g \in Seq(Steps(v)) /\ Sorted(g) /\ Range(g) = Range(f) \cup Range(e)
      BY <2>3, <2>4, <2>6, SortedCat
    <3> QED
      BY <2>3, <2>4, <3>1
  <2>8. todo' = FrameworkVersionChanging(v) \o g
    <3>1. todo' = (FrameworkVersionChanging(v) \o f) \o e
      BY <1>1, <2>2
    <3> QED
      BY <2>3, <2>4, <2>5, <3>1, ConcatAssociative
  <2> HIDE DEF g
  <2>9. /\ \A s \in Range(g) : s.do \in {"framework", "wpsdk", "save"}
        /\ \E s \in Range(g) : s.do = "save"
        /\ Step("framework", v) \in Range(g)
    BY <2>7, StepParts
  <2>10. RunOf(v)' /\ Goes(v)' /\ todo' # <<>> /\ Range(g) \subseteq Left'
    BY <1>1, <2>1, <2>7, <2>8, <2>9, StartFits
  <2> QED
    BY <2>1, <2>7, <2>10
<1> QED
  BY <1>3, <1>4

--------------------------------------------------------------------------
(* The files, read and changed. *)
LEMMA DataTypes ==
  /\ Undefined \notin SUBSET Records /\ Undefined \notin SUBSET Ids
  /\ Missing \notin Data
  /\ EmptyData \in Data
BY UndefinedAssumption, MissingAssumption DEF EmptyData, Data

(* A file that is created says nothing: what is enabled does not change. *)
LEMMA ReadsFiles ==
  ASSUME disk \in Files, NEW opts, ReadProject(opts)
  PROVE  /\ disk' \in Files /\ mem' = disk' /\ started' \in Files /\ options' = opts
         /\ EnabledKept'
<1> DEFINE config == [c \in Configurations |->
                        IF c \in opts /\ disk.config[c] = Missing THEN EmptyData ELSE disk.config[c]]
<1>1. disk \in Files /\ disk.config \in [Configurations -> {Missing} \cup Data]
  BY DEF Files
<1>2. config \in [Configurations -> {Missing} \cup Data]
  BY <1>1, DataTypes
<1>3. disk' = [disk EXCEPT !.config = config] /\ mem' = disk' /\ started' = disk /\ options' = opts
  BY DEF ReadProject
<1>4. \A c \in Configurations : config[c] = disk.config[c] \/ (disk.config[c] = Missing /\ config[c] = EmptyData)
  OBVIOUS
<1> HIDE DEF config
<1>5. disk' \in Files /\ disk'.config = config /\ disk'.project = disk.project
  BY <1>1, <1>2, <1>3 DEF Files
<1>6. ASSUME NEW c \in Configurations
      PROVE  GetProperty(disk', "core", c) = GetProperty(disk, "core", c)
  <2>1. CASE config[c] = disk.config[c]
    BY <1>5, <2>1 DEF GetProperty
  <2>2. CASE disk.config[c] = Missing /\ config[c] = EmptyData
    <3>1. EmptyData["core"] = Undefined
      BY DEF EmptyData
    <3> QED
      BY <1>5, <2>2, <3>1 DEF GetProperty
  <2> QED
    BY <1>4, <2>1, <2>2
<1> QED
  BY <1>1, <1>3, <1>5, <1>6 DEF EnabledKept, Enabled

LEMMA SetListType ==
  ASSUME NEW d \in Files, NEW c, NEW value \in SUBSET Records
  PROVE  SetProperty(d, "core", value, c) \in Files
<1> DEFINE old == d.config[c]
           new == [(IF old = Missing THEN EmptyData ELSE old) EXCEPT !["core"] = value]
<1>1. c \in Configurations => new \in Data
  BY DataTypes DEF Files, Data
<1>2. CASE HasBuildConfigurations(d)
  <2>1. SetProperty(d, "core", value, c) = [d EXCEPT !.config[c] = new]
    BY <1>2 DEF SetProperty
  <2> QED
    BY <1>1, <2>1, DataTypes DEF Files
<1>3. CASE ~ HasBuildConfigurations(d)
  <2>1. SetProperty(d, "core", value, c) = [d EXCEPT !.project["core"] = value]
    BY <1>3 DEF SetProperty
  <2> QED
    BY <2>1 DEF Files, Data
<1> QED
  BY <1>2, <1>3

LEMMA MigrateInType ==
  ASSUME NEW d \in Files, NEW c, NEW version \in FrameworkVersions
  PROVE  MigrateIn(d, c, version) \in Files
<1>1. \A plugins, from : MigratePlugins(plugins, from, version) \in SUBSET Records
  BY PluginsAssumption DEF MigratePlugins
<1> QED
  BY <1>1, SetListType DEF MigrateIn

--------------------------------------------------------------------------
(* Every step of a command that stays in it keeps the invariant, given what *)
(* it does to the plan and to the types.                                    *)
LEMMA TaskKeepsInv ==
  ASSUME Inv, pc = "task", todo # <<>>, pc' \in {"task", "save"},
         UNCHANGED <<disk, options, outcome, started, before, saved>>,
         mem' \in Files, toSave' \subseteq Configurations,
         properties' \in Properties, Fits(properties'),
         js' \in [JsFiles -> FrameworkVersions \cup {Torn}],
         backup' \in [JsFiles -> FrameworkVersions \cup {NoBackup, Torn}],
         \E v \in FrameworkVersions : RunOf(v)',
         LeftOf(Early)' => mem' = mem /\ LeftOf(Early)
  PROVE  Inv'
<1>1. StateInv'
  <2>1. StateInv
    BY DEF Inv
  <2>2. TypeOK'
    BY <2>1 DEF StateInv, TypeOK
  <2> QED
    BY <2>1, <2>2 DEF StateInv, Fits
<1>2. RunInv'
  BY DEF RunInv
<1>3. MemoryInv'
  BY DEF Inv, MemoryInv, Running
<1>4. RevertInv'
  BY DEF RevertInv
<1>5. UnsavedInv'
  <2>1. Unsaved
    BY DEF Unsaved, Running
  <2> QED
    BY <2>1 DEF Inv, UnsavedInv, EnabledKept
<1>6. JsAllOrNone'
  BY DEF JsAllOrNone
<1> QED
  BY <1>1, <1>2, <1>3, <1>4, <1>5, <1>6 DEF Inv

(* The plan of the command that is running, and its next step. *)
LEMMA AtTask ==
  ASSUME Inv, NEW do, At(do)
  PROVE  /\ pc = "task" /\ Head(todo).do = do
         /\ \E v \in FrameworkVersions : RunOf(v)
         /\ todo # <<>>
         /\ StateInv
<1>1. pc = "task" /\ Head(todo).do = do /\ StateInv
  BY DEF At, Inv
<1>2. PICK v \in FrameworkVersions : RunOf(v)
  BY <1>1 DEF Inv, RunInv, Running
<1> QED
  BY <1>1, <1>2 DEF RunOf, PlanInv

LEMMA EarlyLeft ==
  ASSUME NEW v \in FrameworkVersions, RunOf(v), todo # <<>>, todo' = Tail(todo)
  PROVE  LeftOf(Early)' => LeftOf(Early) /\ Head(todo).do \in {"sdk", "ask", "accelerate"}
BY HeadIsTaken, TakenFirst DEF RunOf

LEMMA PropertyStepsKeepInv ==
  ASSUME Inv, ChangeSdk \/ SetFramework \/ SetSdk
  PROVE  Inv'
<1>1. StateInv /\ todo # <<>> /\ pc = "task" /\ \E v \in FrameworkVersions : RunOf(v)
  BY AtTask DEF ChangeSdk, SetFramework, SetSdk
<1>2. PICK v \in FrameworkVersions : RunOf(v)
  BY <1>1
<1>3. /\ todo' = Tail(todo)
      /\ UNCHANGED <<disk, pc, options, toSave, outcome, started, before, mem, saved, js, backup>>
  BY DEF ChangeSdk, SetFramework, SetSdk, Continue
<1>4. RunOf(v)' /\ Fits(properties') /\ properties' \in Properties
  BY <1>1, <1>2, ChangeSdkStep, SetFrameworkStep, SetSdkStep
<1>5. /\ mem' \in Files /\ toSave' \subseteq Configurations
      /\ js' \in [JsFiles -> FrameworkVersions \cup {Torn}]
      /\ backup' \in [JsFiles -> FrameworkVersions \cup {NoBackup, Torn}]
  BY <1>1, <1>3 DEF StateInv, TypeOK
<1>6. LeftOf(Early)' => LeftOf(Early)
  BY <1>1, <1>2, <1>3, EarlyLeft
<1> QED
  BY <1>1, <1>3, <1>4, <1>5, <1>6, TaskKeepsInv

LEMMA ListStepsKeepInv ==
  ASSUME Inv, AskAboutPlugins \/ MigrateLists \/ DeleteBackups
  PROVE  Inv'
<1>1. /\ StateInv /\ todo # <<>> /\ pc = "task" /\ \E v \in FrameworkVersions : RunOf(v)
      /\ MigrateLists => Head(todo).do = "lists"
  BY AtTask DEF AskAboutPlugins, MigrateLists, DeleteBackups
<1>2. PICK v \in FrameworkVersions : RunOf(v)
  BY <1>1
<1>3. /\ todo' = Tail(todo)
      /\ UNCHANGED <<disk, pc, options, toSave, outcome, started, before, properties, saved, js>>
      /\ mem' = mem \/ MigrateLists
      /\ backup' = backup \/ backup' = WithoutBackup(JsFiles)
  BY DEF AskAboutPlugins, MigrateLists, DeleteBackups, Continue
<1>4. RunOf(v)'
  BY <1>2, QuietStep
<1>5. /\ properties' \in Properties /\ Fits(properties') /\ toSave' \subseteq Configurations
      /\ js' \in [JsFiles -> FrameworkVersions \cup {Torn}]
      /\ backup' \in [JsFiles -> FrameworkVersions \cup {NoBackup, Torn}]
  BY <1>1, <1>3 DEF StateInv, TypeOK, WithoutBackup
<1>6. LeftOf(Early)' => LeftOf(Early) /\ Head(todo).do \in {"sdk", "ask", "accelerate"}
  BY <1>1, <1>2, <1>3, EarlyLeft
<1>7. LeftOf(Early)' => LeftOf(Early) /\ mem' = mem
  BY <1>1, <1>3, <1>6
<1>8. mem' \in Files
  <2>1. mem \in Files
    BY <1>1 DEF StateInv, TypeOK
  <2>2. ASSUME MigrateLists
        PROVE  mem' \in Files
    <3>1. Taken(Head(todo), v) /\ Head(todo).do = "lists"
      BY <1>1, <1>2, <1>3, <2>2, HeadIsTaken DEF RunOf
    <3>2. Value \in FrameworkVersions
      BY <3>1, StepKinds DEF Taken, Value
    <3>3. mem' = MigrateIn(MigrateIn(mem, Debug, Value), Release, Value)
      BY <2>2 DEF MigrateLists
    <3>4. MigrateIn(mem, Debug, Value) \in Files
      BY <2>1, <3>2, MigrateInType
    <3> QED
      BY <3>2, <3>3, <3>4, MigrateInType
  <2> QED
    BY <1>3, <2>1, <2>2
<1> QED
  BY <1>1, <1>3, <1>4, <1>5, <1>7, <1>8, TaskKeepsInv

LEMMA AccelerateKeepsInv ==
  ASSUME Inv, Accelerate
  PROVE  Inv'
<1>1. StateInv /\ todo # <<>> /\ pc = "task" /\ \E v \in FrameworkVersions : RunOf(v)
  BY AtTask DEF Accelerate
<1>2. PICK v \in FrameworkVersions : RunOf(v)
  BY <1>1
<1>3. /\ todo' = Tail(todo) /\ pc' \in {"task", "save"}
      /\ UNCHANGED <<disk, options, outcome, started, before, mem, saved, js, backup>>
      /\ toSave' \in {toSave, SelectedConfigurations}
      /\ properties' \in {properties, [properties EXCEPT !.accelerated = TRUE]}
  BY <1>1 DEF Accelerate
<1>4. RunOf(v)'
  BY <1>1, <1>2, AccelerateStep
<1>5. /\ mem' \in Files /\ toSave' \subseteq Configurations
      /\ js' \in [JsFiles -> FrameworkVersions \cup {Torn}]
      /\ backup' \in [JsFiles -> FrameworkVersions \cup {NoBackup, Torn}]
  BY <1>1, <1>3, ConfigurationsAssumption DEF StateInv, TypeOK, SelectedConfigurations
<1>6. properties' \in Properties /\ Fits(properties')
  BY <1>1, <1>3 DEF StateInv, TypeOK, Properties, Fits
<1>7. LeftOf(Early)' => LeftOf(Early)
  BY <1>1, <1>2, <1>3, EarlyLeft
<1> QED
  BY <1>1, <1>3, <1>4, <1>5, <1>6, <1>7, TaskKeepsInv

LEMMA FileStepsKeepInv ==
  ASSUME Inv, BackUpJs \/ CopyJs
  PROVE  Inv'
<1>1. StateInv /\ todo # <<>> /\ pc = "task" /\ \E v \in FrameworkVersions : RunOf(v)
  BY AtTask DEF BackUpJs, CopyJs
<1>2. PICK v \in FrameworkVersions : RunOf(v)
  BY <1>1
<1>3. /\ todo' = Tail(todo)
      /\ UNCHANGED <<disk, pc, options, toSave, outcome, started, before, mem, properties, saved>>
      /\ CopyJs \/ js' = js
      /\ BackUpJs \/ backup' = backup
  BY DEF BackUpJs, CopyJs, Continue
<1>4. /\ mem' \in Files /\ toSave' \subseteq Configurations
      /\ properties' \in Properties /\ Fits(properties')
      /\ js \in [JsFiles -> FrameworkVersions \cup {Torn}]
      /\ backup \in [JsFiles -> FrameworkVersions \cup {NoBackup, Torn}]
  BY <1>1, <1>3 DEF StateInv, TypeOK
<1>5. /\ RunOf(v)'
      /\ js' \in [JsFiles -> FrameworkVersions \cup {Torn}]
      /\ backup' \in [JsFiles -> FrameworkVersions \cup {NoBackup, Torn}]
  <2>1. CASE BackUpJs
    <3>1. js' = js
      BY <2>1 DEF BackUpJs
    <3> QED
      BY <1>1, <1>2, <1>4, <2>1, <3>1, BackUpStep
  <2>2. CASE CopyJs
    <3>1. backup' = backup
      BY <2>2 DEF CopyJs
    <3> QED
      BY <1>1, <1>2, <1>4, <2>2, <3>1, CopyStep
  <2> QED
    BY <2>1, <2>2
<1>6. LeftOf(Early)' => LeftOf(Early)
  BY <1>1, <1>2, <1>3, EarlyLeft
<1> QED
  BY <1>1, <1>3, <1>4, <1>5, <1>6, TaskKeepsInv

LEMMA SaveAllKeepsInv ==
  ASSUME Inv, SaveAll
  PROVE  Inv'
<1>1. StateInv /\ todo # <<>> /\ pc = "task" /\ \E v \in FrameworkVersions : RunOf(v)
  BY AtTask DEF SaveAll
<1>2. PICK v \in FrameworkVersions : RunOf(v)
  BY <1>1
<1>3. /\ UNCHANGED <<disk, mem, options, outcome, started, before, properties, saved, js, backup>>
      /\ pc' = "save"
      /\ toSave' \subseteq Configurations \cup SelectedConfigurations
  BY DEF SaveAll, migrationVars
<1>4. RunOf(v)' /\ Left' = {}
  BY <1>2, SaveAllStep
<1>5. /\ mem' \in Files /\ toSave' \subseteq Configurations
      /\ properties' \in Properties /\ Fits(properties')
      /\ js' \in [JsFiles -> FrameworkVersions \cup {Torn}]
      /\ backup' \in [JsFiles -> FrameworkVersions \cup {NoBackup, Torn}]
  BY <1>1, <1>3, ConfigurationsAssumption DEF StateInv, TypeOK, SelectedConfigurations
<1>6. ~LeftOf(Early)'
  BY <1>4 DEF LeftOf
<1> QED
  BY <1>1, <1>3, <1>4, <1>5, <1>6, TaskKeepsInv

--------------------------------------------------------------------------
(* A save: on the way it saves what the files say already. *)
LEMMA SaveKeepsInv ==
  ASSUME Inv, Save, ~SaveFails
  PROVE  Inv'
<1>1. /\ UNCHANGED <<mem, options, todo, started, command, properties, js, backup, before>>
      /\ \/ SaveProjectFile /\ saved' = properties
         \/ (\E c \in toSave : SaveConfigurationFile(c)) /\ saved' = saved
         \/ Saved /\ saved' = saved
  BY DEF Save, migrationVars, SaveProjectFile, SaveConfigurationFile, Saved
<1>2. pc \in {"save", "saveConfigurations"}
  BY <1>1 DEF SaveProjectFile, SaveConfigurationFile, Saved
<1>3. StateInv /\ MemoryInv /\ UnsavedInv /\ RevertInv
  BY DEF Inv
<1>4. PICK v \in FrameworkVersions : RunOf(v)
  BY <1>2 DEF Inv, RunInv, Running
<1>5. /\ disk \in Files /\ mem \in Files /\ properties \in Properties /\ saved \in Properties
      /\ outcome = "none" /\ toSave \subseteq Configurations /\ Left' = Left
  BY <1>1, <1>2, <1>3 DEF StateInv, TypeOK, Left
<1>6. todo # <<>> => Step("lists", v) \in Left /\ AcceleratedFrom <= v /\ LeftOf(Early)
  <2>1. todo # <<>> => Step("lists", v) \in Left /\ AcceleratedFrom <= v
    BY <1>2, <1>4 DEF RunOf, PlanInv
  <2>2. Step("lists", v) \in Left => LeftOf(Early)
    BY StepParts DEF LeftOf, Early
  <2> QED
    BY <2>1, <2>2
<1>7. ASSUME todo # <<>>
      PROVE  /\ mem = disk
             /\ properties.framework = before.properties.framework
             /\ AcceleratesLate => properties.sdk = before.properties.sdk
  <2>1. Step("lists", v) \in Left /\ AcceleratedFrom <= v /\ LeftOf(Early)
    BY <1>6, <1>7
  <2>2. mem = disk
    BY <1>2, <1>3, <2>1 DEF MemoryInv, Running
  <2>3. Step("framework", v) \in Left
    BY <1>4, <2>1 DEF RunOf, PlanInv, PlanOf, LeftOf
  <2>4. properties.framework = before.properties.framework
    BY <1>4, <2>3 DEF RunOf, JsInv
  <2>5. ASSUME AcceleratesLate
        PROVE  v >= CordovaForSdk81
    <3>1. AcceleratedFrom \in Nat /\ v \in Nat /\ CordovaForSdk81 \in Nat
      BY VersionsAssumption DEF CordovaForSdk81
    <3> QED
      BY <2>1, <2>5, <3>1 DEF AcceleratesLate
  <2> QED
    BY <1>4, <2>1, <2>2, <2>4, <2>5 DEF RunOf, SdkInv
<1>8. ASSUME NEW d, d \in Files, d = mem
      PROVE  /\ [d EXCEPT !.project = mem.project] = d
             /\ \A c \in Configurations : [d EXCEPT !.config[c] = mem.config[c]] = d
  BY <1>8 DEF Files
<1>9. todo # <<>> => disk' = disk
  <2> SUFFICES ASSUME todo # <<>> PROVE disk' = disk
    OBVIOUS
  <2>1. mem = disk
    BY <1>7
  <2>2. CASE SaveProjectFile
    BY <1>5, <1>8, <2>1, <2>2 DEF SaveProjectFile
  <2>3. CASE \E c \in toSave : SaveConfigurationFile(c)
    <3>1. PICK c \in toSave : SaveConfigurationFile(c)
      BY <2>3
    <3> QED
      BY <1>5, <1>8, <2>1, <3>1 DEF SaveConfigurationFile
  <2>4. CASE Saved
    BY <2>4 DEF Saved
  <2> QED
    BY <1>1, <2>2, <2>3, <2>4
<1>10. /\ disk' \in Files /\ toSave' \subseteq Configurations
       /\ pc' \in {"saveConfigurations", "task", "done"} /\ outcome' \in {"none", "ok"}
       /\ (pc' = "done") = (outcome' # "none")
       /\ pc' = "done" => pc = "saveConfigurations" /\ todo = <<>> /\ saved' = saved
       /\ pc' = "task" => todo # <<>>
       /\ pc' = "saveConfigurations" => properties = saved'
       /\ saved' \in {properties, saved}
  <2>1. CASE SaveProjectFile /\ saved' = properties
    BY <1>5, <2>1 DEF SaveProjectFile, Files
  <2>2. CASE (\E c \in toSave : SaveConfigurationFile(c)) /\ saved' = saved
    <3>1. PICK c \in toSave : SaveConfigurationFile(c)
      BY <2>2
    <3>2. disk' \in Files
      BY <1>5, <3>1 DEF SaveConfigurationFile, Files
    <3>3. properties = saved
      BY <1>3, <3>1 DEF SaveConfigurationFile, StateInv
    <3> QED
      BY <1>5, <2>2, <3>1, <3>2, <3>3 DEF SaveConfigurationFile
  <2>3. CASE Saved /\ saved' = saved
    BY <1>5, <2>3 DEF Saved
  <2> QED
    BY <1>1, <2>1, <2>2, <2>3
<1>11. StateInv'
  <2>1. TypeOK'
    BY <1>1, <1>3, <1>10 DEF StateInv, TypeOK
  <2>2. Fits(properties') /\ Fits(saved')
    BY <1>1, <1>3, <1>10 DEF StateInv
  <2> QED
    BY <1>1, <1>3, <1>10, <2>1, <2>2 DEF StateInv, Fits
<1>12. RunInv'
  <2> SUFFICES ASSUME Running' PROVE RunOf(v)'
    BY DEF RunInv
  <2>1. pc' \in {"save", "saveConfigurations"} \/ (pc' = "task" /\ todo # <<>>)
    BY <1>10 DEF Running
  <2> QED
    BY <1>1, <1>2, <1>4, <2>1, SavingSteps
<1>13. MemoryInv'
  <2> SUFFICES ASSUME LeftOf(Early)' PROVE mem' = disk'
    BY DEF MemoryInv
  <2>1. LeftOf(Early)
    BY <1>5 DEF LeftOf
  <2>2. todo # <<>>
    BY <2>1 DEF LeftOf, Left, Range
  <2> QED
    BY <1>1, <1>7, <1>9, <2>2
<1>14. RevertInv'
  BY <1>10 DEF RevertInv
<1>15. ASSUME Unsaved'
       PROVE  /\ saved'.framework = before.properties.framework
              /\ EnabledKept'
              /\ AcceleratesLate => saved'.sdk = before.properties.sdk
  <2>1. todo # <<>>
    BY <1>1, <1>10, <1>15 DEF Unsaved
  <2>2. Unsaved
    BY <1>2, <2>1 DEF Unsaved, Running
  <2>3. /\ saved.framework = before.properties.framework /\ EnabledKept
        /\ AcceleratesLate => saved.sdk = before.properties.sdk
    BY <1>3, <2>2 DEF UnsavedInv
  <2>4. EnabledKept'
    BY <1>1, <1>9, <2>1, <2>3 DEF EnabledKept
  <2> QED
    BY <1>7, <1>10, <2>1, <2>3, <2>4
<1>17. before' = before
  BY <1>1
<1>18. UnsavedInv'
  BY <1>15, <1>17 DEF UnsavedInv, AcceleratesLate
<1>16. JsAllOrNone'
  <2> SUFFICES ASSUME pc' = "done"
               PROVE  \/ js' = before'.js /\ (outcome' = "ok" => ~Changed')
                      \/ \E version \in FrameworkVersions :
                           js' = [p \in JsFiles |-> version] /\ (outcome' = "ok" => version = saved'.framework)
    BY DEF JsAllOrNone
  <2>1. todo = <<>> /\ properties = saved /\ saved' = saved
    BY <1>3, <1>10 DEF StateInv
  <2>2. Step("framework", v) \notin Left
    BY <2>1 DEF Left, Range
  <2>3. \/ js = before.js /\ properties.framework = before.properties.framework
        \/ js = [p \in JsFiles |-> properties.framework]
    BY <1>4, <2>2 DEF RunOf, JsInv
  <2>4. properties.framework \in FrameworkVersions
    BY <1>5 DEF Properties
  <2> QED
    BY <1>1, <2>1, <2>3, <2>4 DEF Changed
<1> QED
  BY <1>11, <1>12, <1>13, <1>14, <1>16, <1>18 DEF Inv

(* A write fails: the files of the platforms are as they were, or replaced. *)
LEMMA SaveFailsKeepsInv ==
  ASSUME Inv, Save, SaveFails
  PROVE  Inv'
<1>1. /\ pc \in {"save", "saveConfigurations"}
      /\ pc' = "done" /\ outcome' = "notSaved" /\ toSave' = {}
      /\ UNCHANGED <<disk, mem, options, started, properties, js, backup, before>>
  BY DEF SaveFails, FailAs, Save, migrationVars
<1>2. StateInv
  BY DEF Inv
<1>3. saved' = saved
  BY <1>1 DEF Save, SaveProjectFile, migrationVars
<1>4. PICK v \in FrameworkVersions : RunOf(v)
  BY <1>1 DEF Inv, RunInv, Running
<1>5. PlanInv(v) /\ JsInv(v)
  BY <1>4 DEF RunOf
<1>6. StateInv'
  <2>1. TypeOK'
    BY <1>1, <1>2, <1>3 DEF StateInv, TypeOK
  <2> QED
    BY <1>1, <1>2, <1>3, <2>1 DEF StateInv, Fits
<1>7. RunInv' /\ MemoryInv' /\ RevertInv' /\ UnsavedInv'
  BY <1>1 DEF RunInv, MemoryInv, RevertInv, UnsavedInv, Unsaved, Running
<1>8. JsAllOrNone'
  <2> SUFFICES js = before.js \/ \E version \in FrameworkVersions : js = [p \in JsFiles |-> version]
    BY <1>1 DEF JsAllOrNone
  <2>1. /\ js \in [JsFiles -> FrameworkVersions \cup {Torn}] /\ before.js \in [JsFiles -> FrameworkVersions \cup {Torn}]
        /\ properties.framework \in FrameworkVersions
    BY <1>2 DEF StateInv, TypeOK, Properties
  <2>2. CASE todo = <<>>
    <3>1. Step("framework", v) \notin Left
      BY <2>2 DEF Left, Range
    <3> QED
      BY <1>5, <2>1, <3>1 DEF JsInv
  <2>3. CASE todo # <<>>
    <3>1. Step("lists", v) \in Left
      BY <1>1, <1>5, <2>3 DEF PlanInv
    <3>2. LeftOf(Early)
      BY <3>1, StepParts DEF LeftOf, Early
    <3>3. Step("framework", v) \in Left /\ v # properties.framework /\ \A p \in JsFiles : Copy(p, v) \in Left
      BY <1>5, <3>2 DEF PlanInv, PlanOf, LeftOf
    <3>4. \A p \in JsFiles : js[p] = before.js[p]
      BY <1>5, <3>3 DEF JsInv
    <3> QED
      BY <2>1, <3>4
  <2> QED
    BY <2>2, <2>3
<1> QED
  BY <1>6, <1>7, <1>8 DEF Inv

--------------------------------------------------------------------------
(* A command starts. *)
LEMMA StartKeepsInv ==
  ASSUME Inv,
         \/ \E version \in FrameworkVersions, opts \in SUBSET {Debug, Release} : SetFrameworkStart(version, opts)
         \/ \E sdk \in Sdks, opts \in SUBSET {Debug, Release} : SetSdkStart(sdk, opts)
  PROVE  Inv'
<1>1. StateInv
  BY DEF Inv
<1>2. PICK opts \in SUBSET {Debug, Release} :
        \/ \E version \in FrameworkVersions : SetFrameworkStart(version, opts)
        \/ \E sdk \in Sdks : SetSdkStart(sdk, opts)
  OBVIOUS
<1>3. /\ pc = "idle" /\ pc' = "task" /\ ReadProject(opts)
      /\ before' = [properties |-> saved, js |-> js]
      /\ UNCHANGED <<toSave, outcome, properties, saved, js, backup>>
  BY <1>2 DEF SetFrameworkStart, SetSdkStart
<1>4. disk' \in Files /\ mem' = disk' /\ started' \in Files /\ options' = opts /\ EnabledKept'
  BY <1>1, <1>3, ReadsFiles DEF StateInv, TypeOK
<1>5. \E v \in FrameworkVersions : RunOf(v)'
  BY <1>1, <1>2, FrameworkStartFits, SdkStartFits
<1>6. StateInv'
  <2>1. TypeOK'
    BY <1>1, <1>3, <1>4 DEF StateInv, TypeOK
  <2> QED
    BY <1>1, <1>3, <1>4, <2>1 DEF StateInv, TypeOK, Fits
<1>7. RunInv' /\ MemoryInv' /\ RevertInv' /\ JsAllOrNone'
  BY <1>3, <1>4, <1>5 DEF RunInv, MemoryInv, RevertInv, JsAllOrNone
<1>8. UnsavedInv'
  BY <1>3, <1>4 DEF UnsavedInv
<1> QED
  BY <1>6, <1>7, <1>8 DEF Inv

(* The command is over, or killed: nothing is left to do. *)
LEMMA EndKeepsInv ==
  ASSUME Inv, End \/ RestoreJs
  PROVE  Inv'
<1>1. StateInv
  BY DEF Inv
<1>2. pc' = "idle" /\ outcome' = "none"
  BY <1>1 DEF End, Exit, Kill, Quit, RestoreJs, vars, StateInv
<1>3. /\ disk' \in Files /\ mem' \in Files /\ started' \in Files /\ options' \subseteq {Debug, Release}
      /\ toSave' \subseteq Configurations
      /\ UNCHANGED <<saved, before>>
      /\ properties' = saved
      /\ js' \in [JsFiles -> FrameworkVersions \cup {Torn}]
      /\ backup' \in [JsFiles -> FrameworkVersions \cup {NoBackup, Torn}]
  <2>1. CASE End
    BY <1>1, <2>1 DEF End, Exit, Kill, Quit, StateInv, TypeOK
  <2>2. CASE RestoreJs
    BY <1>1, <2>2 DEF RestoreJs, vars, StateInv, TypeOK, Properties, WithoutBackup
  <2> QED
    BY <2>1, <2>2
<1>4. StateInv'
  <2>1. TypeOK'
    BY <1>1, <1>2, <1>3 DEF StateInv, TypeOK
  <2> QED
    BY <1>1, <1>2, <1>3, <2>1 DEF StateInv, Fits
<1>5. RunInv' /\ MemoryInv' /\ RevertInv' /\ UnsavedInv' /\ JsAllOrNone'
  BY <1>2 DEF RunInv, MemoryInv, RevertInv, UnsavedInv, Unsaved, JsAllOrNone, Running
<1> QED
  BY <1>4, <1>5 DEF Inv

(* An error is thrown, not while the files are replaced: they are as they   *)
(* were, or all replaced.                                                   *)
LEMMA StepFailsKeepsInv ==
  ASSUME Inv, StepFails
  PROVE  Inv'
<1>1. /\ pc = "task" /\ Head(todo).do \notin JsKinds
      /\ pc' = "done" /\ outcome' = "failed" /\ toSave' = {}
      /\ UNCHANGED <<disk, mem, options, started, properties, saved, js, backup, before>>
  BY DEF StepFails, At, Fail, FailAs, migrationVars, JsKinds
<1>2. StateInv /\ UnsavedInv
  BY DEF Inv
<1>3. PICK v \in FrameworkVersions : RunOf(v)
  BY <1>1 DEF Inv, RunInv, Running
<1>4. PlanInv(v) /\ JsInv(v) /\ todo # <<>>
  BY <1>1, <1>3 DEF RunOf, PlanInv
<1>5. StateInv'
  <2>1. TypeOK'
    BY <1>1, <1>2 DEF StateInv, TypeOK
  <2> QED
    BY <1>1, <1>2, <2>1 DEF StateInv, Fits
<1>6. RunInv' /\ MemoryInv' /\ RevertInv'
  BY <1>1 DEF RunInv, MemoryInv, RevertInv, Running
<1>7. UnsavedInv'
  <2>1. Unsaved
    BY <1>1, <1>4 DEF Unsaved, Running
  <2> QED
    BY <1>1, <1>2, <2>1 DEF UnsavedInv, EnabledKept
<1>8. JsAllOrNone'
  <2> SUFFICES js = before.js \/ \E version \in FrameworkVersions : js = [p \in JsFiles |-> version]
    BY <1>1 DEF JsAllOrNone
  <2>1. /\ js \in [JsFiles -> FrameworkVersions \cup {Torn}] /\ before.js \in [JsFiles -> FrameworkVersions \cup {Torn}]
        /\ properties.framework \in FrameworkVersions
    BY <1>2 DEF StateInv, TypeOK, Properties
  <2>2. CASE Step("framework", v) \notin Left
    BY <1>4, <2>1, <2>2 DEF JsInv
  <2>3. CASE Step("framework", v) \in Left /\ v = properties.framework
    BY <1>4, <2>3 DEF JsInv
  <2>4. CASE Step("framework", v) \in Left /\ v # properties.framework
    <3>1. \A p \in JsFiles : js[p] = IF Copy(p, v) \in Left THEN before.js[p] ELSE v
      BY <1>4, <2>4 DEF JsInv
    <3>2. CASE LeftOf(Early)
      <4>1. \A p \in JsFiles : Copy(p, v) \in Left
        BY <1>4, <3>2 DEF PlanInv, PlanOf, LeftOf
      <4> QED
        BY <2>1, <3>1, <4>1
    <3>3. CASE ~LeftOf(Early)
      <4>1. /\ todo \in Seq(Steps(v)) /\ Sorted(todo)
        BY <1>4 DEF PlanInv
      <4>2. /\ Head(todo) \in Left /\ Head(todo) \in Steps(v)
            /\ Left = {Head(todo)} \cup Range(Tail(todo))
            /\ \A s \in Range(Tail(todo)) : Follows(Head(todo), s)
        <5>1. /\ Head(todo) \in Range(todo) /\ Head(todo) \in Steps(v)
              /\ Range(Tail(todo)) = Range(todo) \ {Head(todo)}
              /\ \A s \in Range(Tail(todo)) : Follows(Head(todo), s)
          BY <1>4, <4>1, SortedTail
        <5> QED
          BY <5>1 DEF Left
      <4>3. Head(todo).do \notin Early \cup JsKinds
        BY <1>1, <3>3, <4>2 DEF LeftOf
      <4>4. ASSUME NEW p \in JsFiles, Copy(p, v) \in Left
            PROVE  FALSE
        <5>1. Copy(p, v).do \in JsKinds
          BY StepParts DEF JsKinds
        <5>2. Copy(p, v) \in Range(Tail(todo)) /\ Copy(p, v) \in Steps(v)
          <6>1. Left \subseteq Steps(v)
            BY <1>4 DEF PlanInv, PlanOf
          <6> QED
            BY <4>2, <4>3, <4>4, <5>1, <6>1
        <5>3. Follows(Head(todo), Copy(p, v))
          BY <4>2, <5>2
        <5> QED
          BY <4>2, <4>3, <5>1, <5>2, <5>3, AfterStep
      <4>5. \A p \in JsFiles : js[p] = v
        BY <3>1, <4>4
      <4> QED
        BY <2>1, <4>5
    <3> QED
      BY <3>2, <3>3
  <2> QED
    BY <2>2, <2>3, <2>4
<1> QED
  BY <1>5, <1>6, <1>7, <1>8 DEF Inv

--------------------------------------------------------------------------
(* A copy fails, and what was replaced is copied back. *)
LEMMA SetToSeqOf ==
  ASSUME NEW S, IsFiniteSet(S)
  PROVE  SetToSeq(S) \in Seq(S) /\ Range(SetToSeq(S)) = S
<1> DEFINE n == Cardinality(S)
           f == SetToSeq(S)
<1>1. n \in Nat /\ ExistsBijection(1..n, S)
  BY FS_CardinalityType
<1>2. \E g \in [1..n -> S] : IsInjective(g)
  BY <1>1 DEF ExistsBijection, Bijection, Injection
<1>3. f \in [1..n -> S] /\ IsInjective(f)
  BY <1>2 DEF SetToSeq
<1> HIDE DEF f
<1>4. f \in Injection(1..n, S)
  BY <1>3 DEF Injection
<1>5. IsFiniteSet(1..n) /\ Cardinality(1..n) = n
  BY <1>1, FS_Interval
<1>6. f \in Surjection(1..n, S)
  BY <1>4, <1>5, FS_Injection
<1>7. Range(f) = S
  BY <1>3, <1>6 DEF Surjection, Range
<1>8. f \in Seq(S)
  BY <1>1, <1>3
<1> QED
  BY <1>7, <1>8 DEF f

LEMMA RevertStepsFinite == IsFiniteSet({Step("revert", p) : p \in BackedUp})
<1>1. Platforms \in Surjection(1..Len(Platforms), JsFiles) /\ Len(Platforms) \in Nat
  <2>1. Platforms \in [1..Len(Platforms) -> JsFiles]
    BY PlatformFiles, PlatformsAssumption DEF JsFiles
  <2> QED
    BY <2>1, PlatformFiles DEF Surjection
<1>2. IsFiniteSet(1..Len(Platforms))
  BY <1>1, FS_Interval
<1>3. IsFiniteSet(JsFiles)
  BY <1>1, <1>2, FS_Surjection
<1>4. BackedUp \in SUBSET JsFiles
  BY DEF BackedUp
<1>5. IsFiniteSet(BackedUp)
  BY <1>3, <1>4, FS_Subset
<1> DEFINE B == BackedUp
           R == {Step("revert", p) : p \in B}
           f == [p \in B |-> Step("revert", p)]
<1>6. IsFiniteSet(B)
  BY <1>5
<1> HIDE DEF B
<1>7. f \in Surjection(B, R)
  BY DEF Surjection
<1> HIDE DEF f, R
<1>8. IsFiniteSet(R)
  BY <1>6, <1>7, FS_Surjection
<1> QED
  BY <1>8 DEF R, B

(* The steps to copy back all files that were backed up. *)
LEMMA RevertPlan ==
  ASSUME NEW B \in SUBSET JsFiles, IsFiniteSet({Step("revert", p) : p \in B}),
         NEW t, t = SetToSeq({Step("revert", p) : p \in B}) \o <<Step("delete", B)>>
  PROVE  /\ t \in Seq(RevertSteps \cup [do : {"delete"}, value : SUBSET JsFiles])
         /\ t # <<>> /\ Last(t).do = "delete"
         /\ \A i \in 1..(Len(t) - 1) : t[i] \in RevertSteps
         /\ \A p \in JsFiles : Step("revert", p) \in Range(t) <=> p \in B
<1> DEFINE R == {Step("revert", p) : p \in B}
           r == SetToSeq(R)
           d == Step("delete", B)
           S == RevertSteps \cup [do : {"delete"}, value : SUBSET JsFiles]
<1>1. r \in Seq(R) /\ Range(r) = R
  BY SetToSeqOf
<1>2. R \subseteq RevertSteps /\ d \in S /\ d.do = "delete"
  BY DEF RevertSteps, Step
<1>3. \A p \in JsFiles : (Step("revert", p) \in R <=> p \in B) /\ Step("revert", p) # d
  BY DEF Step
<1>4. t = r \o <<d>>
  OBVIOUS
<1> HIDE DEF R, r, d
<1>5. r \in Seq(S) /\ <<d>> \in Seq(S) /\ \A i \in 1..Len(r) : r[i] \in RevertSteps
  BY <1>1, <1>2
<1>6. t \in Seq(S) /\ Len(t) = Len(r) + 1 /\ Len(r) \in Nat
      /\ \A i \in 1..(Len(r) + 1) : t[i] = IF i <= Len(r) THEN r[i] ELSE d
  <2> DEFINE e == <<d>>
  <2>4. Len(e) = 1 /\ e[1] = d
    OBVIOUS
  <2>5. t = r \o e /\ r \in Seq(S) /\ e \in Seq(S)
    BY <1>4, <1>5
  <2> HIDE DEF e, S
  <2>2. Len(e) = 1 /\ e[1] = d /\ Len(r) \in Nat
    BY <2>4, <2>5
  <2> DEFINE u == r \o e
  <2>6. /\ u \in Seq(S) /\ Len(u) = Len(r) + Len(e)
        /\ \A i \in 1 .. Len(r) + Len(e) : u[i] = IF i <= Len(r) THEN r[i] ELSE e[i - Len(r)]
    BY <2>5, ConcatProperties
  <2>1. /\ t \in Seq(S) /\ Len(t) = Len(r) + Len(e)
        /\ \A i \in 1 .. Len(r) + Len(e) : t[i] = IF i <= Len(r) THEN r[i] ELSE e[i - Len(r)]
    <3> HIDE DEF u
    <3>1. t = u
      BY <2>5 DEF u
    <3> QED
      BY <2>6, <3>1
  <2>3. \A i \in 1..(Len(r) + 1) : i <= Len(r) \/ i - Len(r) = 1
    BY <2>2
  <2> QED
    BY <2>1, <2>2, <2>3
<1>7. DOMAIN t = 1..(Len(r) + 1) /\ DOMAIN r = 1..Len(r)
  BY <1>5, <1>6
<1>8. t # <<>> /\ Last(t).do = "delete"
  <2>1. Len(r) + 1 \in 1..(Len(r) + 1) /\ ~(Len(r) + 1 <= Len(r))
    BY <1>6
  <2>2. t[Len(t)] = d
    BY <1>6, <2>1
  <2>3. t # <<>>
    BY <1>6
  <2> QED
    BY <1>2, <2>2, <2>3 DEF Last
<1>9. \A i \in 1..(Len(t) - 1) : t[i] \in RevertSteps
  <2> SUFFICES ASSUME NEW i \in 1..(Len(t) - 1) PROVE t[i] \in RevertSteps
    OBVIOUS
  <2>1. i \in 1..Len(r) /\ i \in 1..(Len(r) + 1) /\ i <= Len(r)
    BY <1>6
  <2> QED
    BY <1>5, <1>6, <2>1
<1>10. Range(t) = R \cup {d}
  <2>1. ASSUME NEW x \in Range(t)
        PROVE  x \in R \cup {d}
    <3>1. PICK i \in 1..(Len(r) + 1) : x = t[i]
      BY <1>7 DEF Range
    <3>2. CASE i <= Len(r)
      <4>1. i \in DOMAIN r /\ x = r[i]
        BY <1>6, <1>7, <3>1, <3>2
      <4> QED
        BY <1>1, <4>1 DEF Range
    <3>3. CASE ~(i <= Len(r))
      BY <1>6, <3>1, <3>3
    <3> QED
      BY <3>2, <3>3
  <2>2. ASSUME NEW x \in R
        PROVE  x \in Range(t)
    <3>1. PICK i \in 1..Len(r) : x = r[i]
      BY <1>1, <1>7 DEF Range
    <3>2. i \in 1..(Len(r) + 1) /\ i <= Len(r)
      BY <1>6
    <3>3. t[i] = x
      BY <1>6, <3>1, <3>2
    <3> QED
      BY <1>7, <3>2, <3>3 DEF Range
  <2>3. d \in Range(t)
    <3>1. Len(r) + 1 \in 1..(Len(r) + 1) /\ ~(Len(r) + 1 <= Len(r))
      BY <1>6
    <3>2. t[Len(r) + 1] = d
      BY <1>6, <3>1
    <3> QED
      BY <1>7, <3>1, <3>2 DEF Range
  <2> QED
    BY <2>1, <2>2, <2>3
<1> QED
  BY <1>3, <1>6, <1>8, <1>9, <1>10

LEMMA JsFailsKeepsInv ==
  ASSUME Inv, JsFails
  PROVE  Inv'
<1> DEFINE h == Head(todo)
           B == BackedUp
<1>1. /\ pc = "task" /\ pc' = "revert" /\ h.do \in {"backup", "copy"}
      /\ todo' = SetToSeq({Step("revert", p) : p \in B}) \o <<Step("delete", B)>>
      /\ UNCHANGED <<disk, mem, options, toSave, outcome, started, properties, saved, before>>
      /\ \/ UNCHANGED <<js, backup>>
         \/ h.do = "backup" /\ backup' = [backup EXCEPT ![h.value] = Torn] /\ js' = js
         \/ h.do = "copy" /\ js' = [js EXCEPT ![h.value[1]] = Torn] /\ backup' = backup
  BY DEF JsFails, At, Value
<1>2. PICK v \in FrameworkVersions : RunOf(v)
  BY <1>1 DEF Inv, RunInv, Running
<1>3. PlanInv(v) /\ JsInv(v) /\ todo # <<>> /\ todo \in Seq(Steps(v)) /\ Sorted(todo) /\ PlanOf(v, Left)
  BY <1>1, <1>2 DEF RunOf, PlanInv
<1>4. StateInv /\ UnsavedInv
  BY DEF Inv
<1>5. B \in SUBSET JsFiles /\ \A p \in JsFiles : p \in B <=> Backup(p) \notin Left
  BY DEF BackedUp, Backup, Left
<1>6. IsFiniteSet({Step("revert", p) : p \in B})
  BY RevertStepsFinite
<1>7. /\ h \in Left /\ h \in Steps(v) /\ Left \subseteq Steps(v)
      /\ \A s \in Left : s = h \/ Follows(h, s)
  <2>1. /\ h \in Range(todo) /\ h \in Steps(v)
        /\ Range(Tail(todo)) = Range(todo) \ {h}
        /\ \A s \in Range(Tail(todo)) : Follows(h, s)
    BY <1>3, SortedTail
  <2>2. Left \subseteq Steps(v)
    BY <1>3 DEF PlanOf
  <2> HIDE DEF h
  <2> QED
    BY <2>1, <2>2 DEF Left
<1> HIDE DEF h, B
<1>8. /\ todo' \in Seq(RevertSteps \cup [do : {"delete"}, value : SUBSET JsFiles])
      /\ todo' # <<>> /\ Last(todo').do = "delete"
      /\ \A i \in 1..(Len(todo') - 1) : todo'[i] \in RevertSteps
      /\ \A p \in JsFiles : Step("revert", p) \in Left' <=> p \in B
  <2>1. Left' = Range(todo')
    BY DEF Left
  <2>2. \A t : t = SetToSeq({Step("revert", p) : p \in B}) \o <<Step("delete", B)>> =>
          /\ t \in Seq(RevertSteps \cup [do : {"delete"}, value : SUBSET JsFiles])
          /\ t # <<>> /\ Last(t).do = "delete"
          /\ \A i \in 1..(Len(t) - 1) : t[i] \in RevertSteps
          /\ \A p \in JsFiles : Step("revert", p) \in Range(t) <=> p \in B
    BY <1>5, <1>6, RevertPlan
  <2> QED
    BY <1>1, <2>1, <2>2
<1>9. LeftOf(JsKinds)
  BY <1>1, <1>7 DEF LeftOf, JsKinds
<1>10. Step("framework", v) \in Left /\ v # properties.framework
  <2>1. \E s \in Left : s.do \in Early \cup JsKinds \cup {"deleteBackups"}
    BY <1>9 DEF LeftOf
  <2>2. LeftOf(Early \cup JsKinds \cup {"deleteBackups"})
    BY <2>1 DEF LeftOf
  <2> QED
    BY <1>3, <2>1, <2>2 DEF PlanOf, PlanInv
<1>11. \A p \in B : backup[p] = before.js[p]
  BY <1>3, <1>5, <1>9 DEF JsInv
<1>12. \A p \in JsFiles \ B : js[p] = before.js[p]
  <2> SUFFICES ASSUME NEW p \in JsFiles, p \notin B PROVE js[p] = before.js[p]
    OBVIOUS
  <2>1. Copy(p, v) \in Left
    BY <1>3, <1>5 DEF PlanOf
  <2> QED
    BY <1>3, <1>10, <2>1 DEF JsInv
<1>13. /\ js \in [JsFiles -> FrameworkVersions \cup {Torn}]
       /\ backup \in [JsFiles -> FrameworkVersions \cup {NoBackup, Torn}]
  BY <1>4 DEF StateInv, TypeOK
<1>14. /\ js' \in [JsFiles -> FrameworkVersions \cup {Torn}]
       /\ backup' \in [JsFiles -> FrameworkVersions \cup {NoBackup, Torn}]
       /\ \A p \in B : backup'[p] = backup[p]
       /\ \A p \in JsFiles \ B : js'[p] = js[p]
  <2>1. CASE UNCHANGED <<js, backup>>
    BY <1>13, <2>1
  <2>2. CASE h.do = "backup" /\ backup' = [backup EXCEPT ![h.value] = Torn] /\ js' = js
    <3>1. h = Backup(h.value) /\ h.value \in JsFiles
      BY <1>7, <2>2, StepKinds DEF Early
    <3>2. h.value \notin B
      BY <1>5, <1>7, <3>1
    <3> QED
      BY <1>5, <1>13, <2>2, <3>1, <3>2
  <2>3. CASE h.do = "copy" /\ js' = [js EXCEPT ![h.value[1]] = Torn] /\ backup' = backup
    <3>1. PICK q \in JsFiles : h = Copy(q, v) /\ h.value = <<q, v>>
      BY <1>7, <2>3, StepKinds DEF Early
    <3>2. q \in B
      <4> SUFFICES ASSUME Backup(q) \in Left PROVE FALSE
        BY <1>5
      <4>1. h # Backup(q)
        BY <2>3, StepParts
      <4>2. Follows(h, Backup(q)) /\ Backup(q) \in Steps(v)
        BY <1>7, <4>1
      <4> QED
        BY <1>7, <3>1, <4>2, AfterStep
    <3>3. js' = [js EXCEPT ![q] = Torn]
      BY <2>3, <3>1
    <3> QED
      BY <1>13, <2>3, <3>2, <3>3
  <2> QED
    BY <1>1, <2>1, <2>2, <2>3
<1>15. RevertInv'
  <2>1. \A p \in JsFiles : Step("revert", p) \in Left' => backup'[p] = before'.js[p]
    BY <1>1, <1>8, <1>11, <1>14
  <2>2. \A p \in JsFiles : js'[p] = before'.js[p] \/ Step("revert", p) \in Left'
    BY <1>1, <1>8, <1>12, <1>14
  <2> QED
    BY <1>8, <2>1, <2>2 DEF RevertInv
<1>16. StateInv'
  <2>1. TypeOK'
    BY <1>1, <1>4, <1>14 DEF StateInv, TypeOK
  <2> QED
    BY <1>1, <1>4, <2>1 DEF StateInv, Fits
<1>17. RunInv' /\ MemoryInv' /\ JsAllOrNone'
  BY <1>1 DEF RunInv, MemoryInv, JsAllOrNone, Running
<1>18. UnsavedInv'
  <2>1. Unsaved
    BY <1>1, <1>3 DEF Unsaved, Running
  <2> QED
    BY <1>1, <1>4, <2>1 DEF UnsavedInv, EnabledKept
<1> QED
  BY <1>15, <1>16, <1>17, <1>18 DEF Inv

LEMMA HeadAndTail ==
  ASSUME NEW S, NEW t \in Seq(S), t # <<>>
  PROVE  /\ Len(t) \in Nat /\ Len(t) > 0 /\ Head(t) = t[1]
         /\ Tail(t) \in Seq(S) /\ Len(Tail(t)) = Len(t) - 1
         /\ \A i \in 1..(Len(t) - 1) : Tail(t)[i] = t[i + 1]
         /\ Len(t) > 1 => Tail(t) # <<>>
<1>1. Len(t) \in Nat /\ Len(t) > 0 /\ Head(t) = t[1]
  OBVIOUS
<1>2. Tail(t) \in Seq(S) /\ Len(Tail(t)) = Len(t) - 1
  OBVIOUS
<1>3. \A i \in 1..(Len(t) - 1) : Tail(t)[i] = t[i + 1]
  OBVIOUS
<1>4. Len(t) > 1 => Len(Tail(t)) > 0
  BY <1>1, <1>2
<1>5. Len(t) > 1 => Tail(t) # <<>>
  <2> DEFINE u == Tail(t)
  <2>1. Len(t) > 1 => Len(u) > 0
    BY <1>4
  <2> HIDE DEF u
  <2>2. u = <<>> => Len(u) = 0
    OBVIOUS
  <2>3. Len(t) > 1 => u # <<>>
    BY <2>1, <2>2
  <2> QED
    BY <2>3 DEF u
<1> QED
  BY <1>1, <1>2, <1>3, <1>5

LEMMA RevertJsKeepsInv ==
  ASSUME Inv, RevertJs
  PROVE  Inv'
<1> DEFINE h == Head(todo)
           S == RevertSteps \cup [do : {"delete"}, value : SUBSET JsFiles]
           n == Len(todo)
<1>1. /\ pc = "revert" /\ pc' = "revert" /\ h.do = "revert"
      /\ js' = [js EXCEPT ![h.value] = backup[h.value]]
      /\ todo' = Tail(todo)
      /\ UNCHANGED <<disk, mem, options, toSave, outcome, started, before, properties, saved, backup>>
  BY DEF RevertJs, Reverting, Value
<1>2. StateInv /\ UnsavedInv /\ RevertInv
  BY DEF Inv
<1>3. /\ todo \in Seq(S) /\ todo # <<>> /\ todo[n].do = "delete"
      /\ \A i \in 1..(n - 1) : todo[i] \in RevertSteps
      /\ \A p \in JsFiles : Step("revert", p) \in Left => backup[p] = before.js[p]
      /\ \A p \in JsFiles : js[p] = before.js[p] \/ Step("revert", p) \in Left
  BY <1>1, <1>2 DEF RevertInv, Last
<1>4. n \in Nat /\ n > 1 /\ h = todo[1]
  <2>1. n \in Nat /\ n > 0 /\ h = todo[1]
    BY <1>3, HeadAndTail
  <2> HIDE DEF n, h
  <2>2. n # 1
    BY <1>1, <1>3, <2>1
  <2> QED
    BY <2>1, <2>2
<1>5. /\ Len(todo') = n - 1 /\ todo' \in Seq(S) /\ todo' # <<>>
      /\ \A i \in 1..(n - 1) : todo'[i] = todo[i + 1]
  BY <1>1, <1>3, <1>4, HeadAndTail
<1> HIDE DEF S, n
<1>6. /\ DOMAIN todo = 1..n /\ DOMAIN todo' = 1..(n - 1)
  BY <1>3, <1>5 DEF n
<1>7. h \in RevertSteps
  BY <1>3, <1>4
<1> HIDE DEF h
<1>8. Left' \subseteq Left /\ Left \subseteq Left' \cup {h}
  <2>1. ASSUME NEW x \in Left'
        PROVE  x \in Left
    <3>1. PICK i \in 1..(n - 1) : x = todo'[i]
      BY <1>6 DEF Left, Range
    <3>2. i + 1 \in 1..n /\ x = todo[i + 1]
      BY <1>4, <1>5, <3>1
    <3> QED
      BY <1>6, <3>2 DEF Left, Range
  <2>2. ASSUME NEW x \in Left, x # h
        PROVE  x \in Left'
    <3>1. PICK i \in 1..n : x = todo[i]
      BY <1>6 DEF Left, Range
    <3>2. i - 1 \in 1..(n - 1) /\ (i - 1) + 1 = i
      BY <1>4, <2>2, <3>1
    <3>3. todo'[i - 1] = x
      BY <1>5, <3>1, <3>2
    <3> QED
      BY <1>6, <3>2, <3>3 DEF Left, Range
  <2> QED
    BY <2>1, <2>2
<1>9. PICK q \in JsFiles : h = Step("revert", q) /\ h.value = q
  BY <1>7 DEF RevertSteps, Step
<1>10. h \in Left
  BY <1>4, <1>6 DEF Left, Range
<1>11. js' = [js EXCEPT ![q] = backup[q]] /\ backup[q] = before.js[q]
  BY <1>1, <1>3, <1>9, <1>10
<1>12. /\ js \in [JsFiles -> FrameworkVersions \cup {Torn}]
       /\ before.js \in [JsFiles -> FrameworkVersions \cup {Torn}]
  BY <1>2 DEF StateInv, TypeOK
<1>13. js' \in [JsFiles -> FrameworkVersions \cup {Torn}]
  BY <1>11, <1>12
<1>14. \A p \in JsFiles : js'[p] = before.js[p] \/ Step("revert", p) \in Left'
  <2> SUFFICES ASSUME NEW p \in JsFiles, Step("revert", p) \notin Left' PROVE js'[p] = before.js[p]
    OBVIOUS
  <2>1. CASE p = q
    BY <1>11, <1>12, <2>1
  <2>2. CASE p # q
    <3>1. Step("revert", p) # h
      BY <1>9, <2>2, StepParts
    <3>2. js[p] = before.js[p]
      BY <1>3, <1>8, <3>1
    <3> QED
      BY <1>11, <1>12, <2>2, <3>2
  <2> QED
    BY <2>1, <2>2
<1>15. RevertInv'
  <2>1. /\ todo' \in Seq(RevertSteps \cup [do : {"delete"}, value : SUBSET JsFiles])
        /\ todo' # <<>>
    BY <1>5 DEF S
  <2>2. Last(todo').do = "delete"
    <3>1. n - 1 \in 1..(n - 1) /\ (n - 1) + 1 = n
      BY <1>4
    <3>2. todo'[n - 1] = todo[n]
      BY <1>5, <3>1
    <3> QED
      BY <1>3, <1>5, <3>2 DEF Last
  <2>3. \A i \in 1..(Len(todo') - 1) : todo'[i] \in RevertSteps
    <3> SUFFICES ASSUME NEW i \in 1..(Len(todo') - 1) PROVE todo'[i] \in RevertSteps
      OBVIOUS
    <3>1. i \in 1..(n - 1) /\ i + 1 \in 1..(n - 1)
      BY <1>4, <1>5
    <3> QED
      BY <1>3, <1>5, <3>1
  <2>4. \A p \in JsFiles : Step("revert", p) \in Left' => backup'[p] = before'.js[p]
    BY <1>1, <1>3, <1>8
  <2>5. \A p \in JsFiles : js'[p] = before'.js[p] \/ Step("revert", p) \in Left'
    BY <1>1, <1>14
  <2> QED
    BY <2>1, <2>2, <2>3, <2>4, <2>5 DEF RevertInv
<1>16. StateInv'
  <2>1. TypeOK'
    BY <1>1, <1>2, <1>13 DEF StateInv, TypeOK
  <2> QED
    BY <1>1, <1>2, <2>1 DEF StateInv, Fits
<1>17. RunInv' /\ MemoryInv' /\ JsAllOrNone'
  BY <1>1 DEF RunInv, MemoryInv, JsAllOrNone, Running
<1>18. UnsavedInv'
  <2>1. Unsaved
    BY <1>1 DEF Unsaved
  <2> QED
    BY <1>1, <1>2, <2>1 DEF UnsavedInv, EnabledKept
<1> QED
  BY <1>15, <1>16, <1>17, <1>18 DEF Inv

LEMMA RevertedKeepsInv ==
  ASSUME Inv, Reverted \/ RevertFails
  PROVE  Inv'
<1>1. /\ pc = "revert" /\ pc' = "done" /\ outcome' \in {"failed", "notReverted"}
      /\ toSave' = {}
      /\ \E files : backup' = WithoutBackup(files)
      /\ \/ Head(todo).do = "delete" /\ js' = js
         \/ outcome' = "notReverted" /\ Head(todo).do = "revert" /\ js' \in {js, [js EXCEPT ![Value] = Torn]}
      /\ UNCHANGED <<disk, mem, options, started, properties, saved, before>>
  BY DEF Reverted, RevertFails, Reverting, Fail, FailAs
<1>2. StateInv /\ UnsavedInv /\ RevertInv
  BY DEF Inv
<1>3. /\ js \in [JsFiles -> FrameworkVersions \cup {Torn}]
      /\ backup \in [JsFiles -> FrameworkVersions \cup {NoBackup, Torn}]
      /\ before.js \in [JsFiles -> FrameworkVersions \cup {Torn}]
  BY <1>2 DEF StateInv, TypeOK
<1>4. /\ js' \in [JsFiles -> FrameworkVersions \cup {Torn}]
      /\ backup' \in [JsFiles -> FrameworkVersions \cup {NoBackup, Torn}]
  BY <1>1, <1>3 DEF WithoutBackup
<1>5. StateInv'
  <2>1. TypeOK'
    BY <1>1, <1>2, <1>4 DEF StateInv, TypeOK
  <2> QED
    BY <1>1, <1>2, <2>1 DEF StateInv, Fits
<1>6. RunInv' /\ MemoryInv' /\ RevertInv'
  BY <1>1 DEF RunInv, MemoryInv, RevertInv, Running
<1>7. UnsavedInv'
  <2>1. Unsaved
    BY <1>1 DEF Unsaved
  <2> QED
    BY <1>1, <1>2, <2>1 DEF UnsavedInv, EnabledKept
<1>8. JsAllOrNone'
  <2> SUFFICES ASSUME outcome' # "notReverted" PROVE js' = before.js
    BY <1>1 DEF JsAllOrNone
  <2> DEFINE n == Len(todo)
  <2>1. Head(todo).do = "delete" /\ js' = js
    BY <1>1
  <2>2. /\ todo \in Seq(RevertSteps \cup [do : {"delete"}, value : SUBSET JsFiles])
        /\ todo # <<>> /\ \A i \in 1..(n - 1) : todo[i] \in RevertSteps
        /\ \A p \in JsFiles : js[p] = before.js[p] \/ Step("revert", p) \in Left
    BY <1>1, <1>2 DEF RevertInv
  <2>3. n \in Nat /\ n > 0 /\ Head(todo) = todo[1] /\ DOMAIN todo = 1..n
    BY <2>2
  <2> HIDE DEF n
  <2>4. n = 1
    <3>1. todo[1] \notin RevertSteps
      BY <2>1, <2>3 DEF RevertSteps
    <3>2. ~(1 \in 1..(n - 1))
      BY <2>2, <3>1
    <3> QED
      BY <2>3, <3>2
  <2>5. \A s \in Left : s.do = "delete"
    BY <2>1, <2>3, <2>4 DEF Left, Range
  <2>6. \A p \in JsFiles : js[p] = before.js[p]
    BY <2>2, <2>5, StepParts
  <2> QED
    BY <1>3, <2>1, <2>6
<1> QED
  BY <1>5, <1>6, <1>7, <1>8 DEF Inv

--------------------------------------------------------------------------
(* The invariant, and what it says of the properties the run checks. *)
LEMMA InvInit == Init => Inv
<1> SUFFICES ASSUME Init PROVE Inv
  OBVIOUS
<1>1. PICK version \in FrameworkVersions, sdk \in Sdks :
        /\ sdk > 80 => version >= CordovaForSdk81
        /\ properties = [framework |-> version, sdk |-> sdk, accelerated |-> FALSE]
        /\ js = [p \in JsFiles |-> version]
        /\ InitFiles(InitialLists[version])
  BY DEF Init
<1>2. /\ saved = properties
      /\ backup = [p \in JsFiles |-> NoBackup]
      /\ before = [properties |-> properties, js |-> js]
  BY DEF Init
<1>3. InitialLists[version] \subseteq SUBSET Records
  <2>1. /\ InitialLists[version] \subseteq SUBSET (IntegratedPlugins[version] \cup Marketplace)
        /\ IntegratedPlugins[version] \subseteq Records /\ Marketplace \subseteq Records
    BY PluginsAssumption
  <2> QED
    BY <2>1
<1>4. disk \in Files
  <2>1. PICK present \in InitialFiles, a \in InitialLists[version], b \in InitialLists[version], moved \in BOOLEAN :
          disk = [project |-> [core |-> IF moved THEN Undefined ELSE a, vars |-> Undefined],
                  config |-> [c \in Configurations |->
                    IF c \notin present THEN Missing
                    ELSE [core |-> CASE ~moved -> Undefined
                                     [] moved /\ c = Debug -> a
                                     [] OTHER -> b,
                          vars |-> Undefined]]]
    BY <1>1, Zenon DEF InitFiles, InitialProject
  <2>2. a \in SUBSET Records /\ b \in SUBSET Records
    BY <1>3
  <2>3. \A c \in Configurations :
          (CASE ~moved -> Undefined [] moved /\ c = Debug -> a [] OTHER -> b) \in {Undefined} \cup SUBSET Records
    BY <2>2
  <2> QED
    BY <2>1, <2>2, <2>3 DEF Files, Data
<1>5. /\ mem = disk /\ pc = "idle" /\ options = {} /\ toSave = {} /\ outcome = "none" /\ started = disk
  BY <1>1 DEF InitFiles
<1>6. properties \in Properties /\ Fits(properties)
  BY <1>1 DEF Properties, Fits
<1>7. StateInv
  <2>1. TypeOK
    BY <1>1, <1>2, <1>4, <1>5, <1>6 DEF TypeOK
  <2> QED
    BY <1>1, <1>2, <1>5, <1>6, <2>1 DEF StateInv
<1>8. RunInv /\ MemoryInv /\ RevertInv /\ UnsavedInv /\ JsAllOrNone
  BY <1>5 DEF RunInv, MemoryInv, RevertInv, UnsavedInv, Unsaved, JsAllOrNone, Running
<1> QED
  BY <1>7, <1>8 DEF Inv

LEMMA InvNext == Inv /\ [Next]_allVars => Inv'
<1> SUFFICES ASSUME Inv, [Next]_allVars PROVE Inv'
  OBVIOUS
<1>1. CASE \/ \E version \in FrameworkVersions, opts \in SUBSET {Debug, Release} : SetFrameworkStart(version, opts)
           \/ \E sdk \in Sdks, opts \in SUBSET {Debug, Release} : SetSdkStart(sdk, opts)
  BY <1>1, StartKeepsInv
<1>2. CASE ChangeSdk \/ SetFramework \/ SetSdk
  BY <1>2, PropertyStepsKeepInv
<1>3. CASE AskAboutPlugins \/ MigrateLists \/ DeleteBackups
  BY <1>3, ListStepsKeepInv
<1>4. CASE Accelerate
  BY <1>4, AccelerateKeepsInv
<1>5. CASE BackUpJs \/ CopyJs
  BY <1>5, FileStepsKeepInv
<1>6. CASE SaveAll
  BY <1>6, SaveAllKeepsInv
<1>7. CASE JsFails
  BY <1>7, JsFailsKeepsInv
<1>8. CASE RevertJs
  BY <1>8, RevertJsKeepsInv
<1>9. CASE Reverted \/ RevertFails
  BY <1>9, RevertedKeepsInv
<1>10. CASE StepFails
  BY <1>10, StepFailsKeepsInv
<1>11. CASE Save
  BY <1>11, SaveKeepsInv, SaveFailsKeepsInv
<1>12. CASE End \/ RestoreJs
  BY <1>12, EndKeepsInv
<1>13. CASE UNCHANGED allVars
  <2>1. /\ disk' = disk /\ mem' = mem /\ pc' = pc /\ options' = options /\ todo' = todo /\ toSave' = toSave
        /\ outcome' = outcome /\ started' = started /\ command' = command
        /\ properties' = properties /\ saved' = saved /\ js' = js /\ backup' = backup /\ before' = before
    BY <1>13 DEF allVars, vars, migrationVars
  <2>2. Left' = Left
    BY <2>1 DEF Left
  <2>3. \A v : RunOf(v) => RunOf(v)'
    BY <2>1, <2>2 DEF RunOf, PlanInv, FitInv, SdkInv, JsInv, PlanOf, Sorted, LeftOf
  <2>4. StateInv'
    BY <2>1 DEF Inv, StateInv, TypeOK, Fits
  <2>5. RunInv' /\ MemoryInv' /\ RevertInv'
    BY <2>1, <2>2, <2>3 DEF Inv, RunInv, MemoryInv, RevertInv, LeftOf, Running
  <2>6. UnsavedInv' /\ JsAllOrNone'
    BY <2>1 DEF Inv, UnsavedInv, Unsaved, EnabledKept, AcceleratesLate, Running, JsAllOrNone, Changed
  <2> QED
    BY <2>4, <2>5, <2>6 DEF Inv
<1> QED
  BY <1>1, <1>2, <1>3, <1>4, <1>5, <1>6, <1>7, <1>8, <1>9, <1>10, <1>11, <1>12, <1>13 DEF Next

LEMMA SpecInv == Spec => []Inv
<1>1. Init => Inv
  BY InvInit
<1>2. Inv /\ [Next]_allVars => Inv'
  BY InvNext
<1> QED
  BY <1>1, <1>2, PTL DEF Spec

(* Whichever of the version and the SDK is changed, and whatever fails or   *)
(* is killed on the way, the two that are saved fit each other.             *)
THEOREM SavedVersionsFit == Spec => []VersionsFit
<1>1. Inv => VersionsFit
  BY DEF Inv, StateInv, VersionsFit, SdkFitsFramework, Fits
<1> QED
  BY <1>1, SpecInv, PTL

(* The files of the platforms are replaced all or not at all, whichever     *)
(* copy fails, unless copying back fails as well.                           *)
THEOREM FilesAllOrNone == Spec => []JsAllOrNone
<1>1. Inv => JsAllOrNone
  BY DEF Inv
<1> QED
  BY <1>1, SpecInv, PTL

--------------------------------------------------------------------------
(* Where a list goes that is set: to the configuration, or for want of one  *)
(* to the project, and then it is everyone's.                              *)
LEMMA ListIsSet ==
  ASSUME NEW d \in Files, NEW c \in Configurations, NEW value \in SUBSET Records
  PROVE  LET set == SetProperty(d, "core", value, c)
         IN IF FilesOf(d) = {}
            THEN FilesOf(set) = {} /\ \A k \in Configurations : Enabled(set, k) = value
            ELSE /\ FilesOf(set) = FilesOf(d) \cup {c} /\ Enabled(set, c) = value
                 /\ \A k \in Configurations : k # c => Enabled(set, k) = Enabled(d, k)
<1> DEFINE set == SetProperty(d, "core", value, c)
           old == d.config[c]
           new == [(IF old = Missing THEN EmptyData ELSE old) EXCEPT !["core"] = value]
<1>1. HasBuildConfigurations(d) <=> FilesOf(d) # {}
  BY DEF HasBuildConfigurations, FilesOf
<1>2. value # Undefined /\ new \in Data /\ new["core"] = value /\ new # Missing
  BY DataTypes DEF Files, Data
<1>3. CASE FilesOf(d) # {}
  <2>1. set = [d EXCEPT !.config[c] = new]
    BY <1>1, <1>3 DEF SetProperty
  <2>2. set.project = d.project /\ set.config[c] = new /\ \A k \in Configurations : k # c => set.config[k] = d.config[k]
    BY <2>1 DEF Files
  <2> HIDE DEF set, new
  <2>3. FilesOf(set) = FilesOf(d) \cup {c}
    BY <1>2, <2>2 DEF FilesOf
  <2>4. Enabled(set, c) = value
    BY <1>2, <2>2 DEF Enabled, GetProperty
  <2>5. \A k \in Configurations : k # c => Enabled(set, k) = Enabled(d, k)
    BY <2>2 DEF Enabled, GetProperty
  <2> QED
    BY <1>3, <2>3, <2>4, <2>5 DEF set
<1>4. CASE FilesOf(d) = {}
  <2>1. set = [d EXCEPT !.project["core"] = value]
    BY <1>1, <1>4 DEF SetProperty
  <2>2. set.project["core"] = value /\ set.config = d.config
    BY <2>1 DEF Files, Data
  <2> HIDE DEF set
  <2>3. FilesOf(set) = {} /\ \A k \in Configurations : set.config[k] = Missing
    BY <1>4, <2>2 DEF FilesOf
  <2>4. \A k \in Configurations : Enabled(set, k) = value
    BY <2>2, <2>3 DEF Enabled, GetProperty
  <2> QED
    BY <1>4, <2>3, <2>4 DEF set
<1> QED
  BY <1>3, <1>4

LEMMA ListIsMigrated ==
  ASSUME NEW d \in Files, NEW c \in {Debug, Release}, NEW version \in FrameworkVersions
  PROVE  LET out == MigrateIn(d, c, version)
             list == MigratePlugins(OrEmpty(Enabled(d, c)), properties.framework, version)
         IN /\ out \in Files /\ OrEmpty(list) = list
            /\ c \notin SelectedConfigurations => out = d
            /\ c \in SelectedConfigurations =>
                 IF FilesOf(d) = {} THEN FilesOf(out) = {} /\ \A k \in Configurations : Enabled(out, k) = list
                 ELSE /\ FilesOf(out) = FilesOf(d) \cup {c} /\ Enabled(out, c) = list
                      /\ \A k \in Configurations : k # c => Enabled(out, k) = Enabled(d, k)
<1> DEFINE out == MigrateIn(d, c, version)
           list == MigratePlugins(OrEmpty(Enabled(d, c)), properties.framework, version)
<1>1. list \in SUBSET Records
  BY PluginsAssumption DEF MigratePlugins
<1> HIDE DEF list
<1>2. out \in Files
  BY MigrateInType
<1>3. OrEmpty(list) = list
  BY <1>1, DataTypes DEF OrEmpty
<1>4. c \in Configurations
  BY ConfigurationsAssumption
<1>5. out = IF c \in SelectedConfigurations THEN SetProperty(d, "core", list, c) ELSE d
  BY DEF MigrateIn, list
<1> HIDE DEF out
<1>6. LET set == SetProperty(d, "core", list, c)
      IN IF FilesOf(d) = {}
         THEN FilesOf(set) = {} /\ \A k \in Configurations : Enabled(set, k) = list
         ELSE /\ FilesOf(set) = FilesOf(d) \cup {c} /\ Enabled(set, c) = list
              /\ \A k \in Configurations : k # c => Enabled(set, k) = Enabled(d, k)
  BY <1>1, <1>4, ListIsSet
<1> QED
  BY <1>2, <1>3, <1>5, <1>6 DEF out, list

(* Both configurations, one after the other: each list there is once, the   *)
(* one list of the project twice.                                          *)
LEMMA ListsAreMigrated ==
  ASSUME NEW d \in Files, NEW version \in FrameworkVersions, options \subseteq {Debug, Release}
  PROVE  LET out == MigrateIn(MigrateIn(d, Debug, version), Release, version)
             Once(plugins) == MigratePlugins(plugins, properties.framework, version)
         IN /\ FilesOf(d) \subseteq FilesOf(out)
            /\ FilesOf(d) = {} => FilesOf(out) = {}
            /\ FilesOf(d) # {} =>
                 \A c \in SelectedConfigurations : OrEmpty(Enabled(out, c)) = Once(OrEmpty(Enabled(d, c)))
            /\ FilesOf(d) = {} /\ options = {} =>
                 \A c \in Configurations : OrEmpty(Enabled(out, c)) = Once(Once(OrEmpty(Enabled(d, c))))
            /\ FilesOf(d) # {} =>
                 \A c \in Configurations \ SelectedConfigurations : Enabled(out, c) = Enabled(d, c)
<1> DEFINE Once(plugins) == MigratePlugins(plugins, properties.framework, version)
           mid == MigrateIn(d, Debug, version)
           out == MigrateIn(mid, Release, version)
<1>1. /\ Debug \in Configurations /\ Release \in Configurations /\ Debug # Release
      /\ SelectedConfigurations \subseteq {Debug, Release} /\ (options = {} => SelectedConfigurations = {Debug, Release})
  BY ConfigurationsAssumption DEF SelectedConfigurations
<1>2. LET list == Once(OrEmpty(Enabled(d, Debug)))
      IN /\ mid \in Files /\ OrEmpty(list) = list
         /\ Debug \notin SelectedConfigurations => mid = d
         /\ Debug \in SelectedConfigurations =>
              IF FilesOf(d) = {} THEN FilesOf(mid) = {} /\ \A k \in Configurations : Enabled(mid, k) = list
              ELSE /\ FilesOf(mid) = FilesOf(d) \cup {Debug} /\ Enabled(mid, Debug) = list
                   /\ \A k \in Configurations : k # Debug => Enabled(mid, k) = Enabled(d, k)
  BY ListIsMigrated
<1> HIDE DEF mid
<1>3. LET list == Once(OrEmpty(Enabled(mid, Release)))
      IN /\ out \in Files /\ OrEmpty(list) = list
         /\ Release \notin SelectedConfigurations => out = mid
         /\ Release \in SelectedConfigurations =>
              IF FilesOf(mid) = {} THEN FilesOf(out) = {} /\ \A k \in Configurations : Enabled(out, k) = list
              ELSE /\ FilesOf(out) = FilesOf(mid) \cup {Release} /\ Enabled(out, Release) = list
                   /\ \A k \in Configurations : k # Release => Enabled(out, k) = Enabled(mid, k)
  BY <1>2, ListIsMigrated
<1> HIDE DEF out, Once
<1>4. FilesOf(d) \subseteq FilesOf(out) /\ (FilesOf(d) = {} => FilesOf(out) = {})
  BY <1>2, <1>3
<1>5. ASSUME FilesOf(d) # {}, NEW c \in SelectedConfigurations
      PROVE  OrEmpty(Enabled(out, c)) = Once(OrEmpty(Enabled(d, c)))
  <2>1. FilesOf(mid) # {}
    BY <1>2, <1>5
  <2>2. CASE c = Debug
    <3>1. Enabled(mid, c) = Once(OrEmpty(Enabled(d, c))) /\ OrEmpty(Enabled(mid, c)) = Enabled(mid, c)
      BY <1>2, <1>5, <2>2
    <3>2. Enabled(out, c) = Enabled(mid, c)
      BY <1>1, <1>3, <2>1, <2>2
    <3> QED
      BY <3>1, <3>2
  <2>3. CASE c = Release
    <3>1. Enabled(mid, c) = Enabled(d, c)
      BY <1>1, <1>2, <1>5, <2>3
    <3>2. Enabled(out, c) = Once(OrEmpty(Enabled(mid, c))) /\ OrEmpty(Enabled(out, c)) = Enabled(out, c)
      BY <1>3, <1>5, <2>1, <2>3
    <3> QED
      BY <3>1, <3>2
  <2> QED
    BY <1>1, <2>2, <2>3
<1>6. ASSUME FilesOf(d) = {}, options = {}, NEW c \in Configurations
      PROVE  OrEmpty(Enabled(out, c)) = Once(Once(OrEmpty(Enabled(d, c))))
  <2>1. \A k \in Configurations : Enabled(d, k) = d.project["core"]
    BY <1>6 DEF FilesOf, Enabled, GetProperty
  <2>2. FilesOf(mid) = {} /\ Enabled(mid, Release) = Once(OrEmpty(Enabled(d, Debug))) /\ OrEmpty(Enabled(mid, Release)) = Enabled(mid, Release)
    BY <1>1, <1>2, <1>6
  <2>3. c \in Configurations
    BY <1>1
  <2>4. Enabled(out, c) = Once(OrEmpty(Enabled(mid, Release))) /\ OrEmpty(Enabled(out, c)) = Enabled(out, c)
    BY <1>1, <1>3, <1>6, <2>2, <2>3
  <2>5. Enabled(d, c) = Enabled(d, Debug)
    BY <1>1, <2>1, <2>3
  <2> QED
    BY <2>2, <2>4, <2>5
<1>7. ASSUME FilesOf(d) # {}, NEW c \in Configurations \ SelectedConfigurations
      PROVE  Enabled(out, c) = Enabled(d, c)
  <2>1. FilesOf(mid) # {} /\ Enabled(mid, c) = Enabled(d, c)
    BY <1>2, <1>7
  <2> QED
    BY <1>3, <1>7, <2>1
<1> QED
  BY <1>4, <1>5, <1>6, <1>7 DEF out, mid, Once

--------------------------------------------------------------------------
(* A command starts. *)
LEMMA StartKeepsLists ==
  ASSUME Inv,
         \/ \E version \in FrameworkVersions, opts \in SUBSET {Debug, Release} : SetFrameworkStart(version, opts)
         \/ \E sdk \in Sdks, opts \in SUBSET {Debug, Release} : SetSdkStart(sdk, opts)
  PROVE  ListsInv'
<1>1. StateInv
  BY DEF Inv
<1>2. PICK opts \in SUBSET {Debug, Release} :
        \/ \E version \in FrameworkVersions : SetFrameworkStart(version, opts)
        \/ \E sdk \in Sdks : SetSdkStart(sdk, opts)
  OBVIOUS
<1>3. /\ pc = "idle" /\ pc' = "task" /\ ReadProject(opts)
      /\ before' = [properties |-> saved, js |-> js]
      /\ UNCHANGED <<outcome, properties>>
  BY <1>2 DEF SetFrameworkStart, SetSdkStart
<1>4. PICK v \in FrameworkVersions : Goes(v)'
  BY <1>1, <1>2, FrameworkStartFits, SdkStartFits
<1>5. MemoryMigrated'
  <2>1. before'.properties.framework = properties'.framework
    BY <1>1, <1>3 DEF StateInv
  <2>2. LeftOf({"lists"})' \/ (v = before'.properties.framework /\ NewVersion(v)')
    BY <1>4, <2>1 DEF Goes
  <2> QED
    BY <2>2 DEF MemoryMigrated
<1>6. FilesReadInv'
  <2>1. disk \in Files /\ opts \subseteq Configurations
    BY <1>1, ConfigurationsAssumption DEF StateInv, TypeOK
  <2> DEFINE config == [c \in Configurations |->
                          IF c \in opts /\ disk.config[c] = Missing THEN EmptyData ELSE disk.config[c]]
  <2>2. /\ disk' = [disk EXCEPT !.config = config] /\ mem' = disk' /\ options' = opts /\ started' = disk
    BY <1>3 DEF ReadProject
  <2>3. disk'.config = config
    BY <2>1, <2>2 DEF Files
  <2>4. \A c \in Configurations : config[c] # Missing <=> c \in opts \/ disk.config[c] # Missing
    BY DataTypes
  <2> HIDE DEF config
  <2>5. FilesOf(disk)' = FilesOf(started)' \cup opts
    BY <2>1, <2>2, <2>3, <2>4 DEF FilesOf
  <2>6. FilesOf(mem)' = FilesOf(disk)'
    BY <2>2 DEF FilesOf
  <2>7. OneList' => opts = {} /\ FilesOf(started)' = {}
    BY <2>2 DEF OneList, FilesOf
  <2> QED
    BY <2>2, <2>5, <2>6, <2>7 DEF FilesReadInv
<1>7. SavingInv' /\ ListsMigrated'
  BY <1>1, <1>3 DEF SavingInv, ListsMigrated, StateInv
<1> QED
  BY <1>5, <1>6, <1>7 DEF ListsInv

(* The version a command goes to stays what it is. *)
LEMMA NewVersionKept ==
  ASSUME NEW v \in FrameworkVersions, RunOf(v), todo # <<>>, todo' = Tail(todo),
         properties'.framework = IF Head(todo).do = "framework" THEN Value ELSE properties.framework,
         NEW w, NewVersion(w)
  PROVE  NewVersion(w)'
<1> DEFINE h == Head(todo)
<1>1. h \in Steps(v) /\ h \in Left /\ Left' = Left \ {h} /\ Left \subseteq Steps(v)
  BY HeadIsTaken DEF RunOf, Taken, PlanInv, PlanOf
<1>2. Value = h.value /\ properties'.framework = IF h.do = "framework" THEN h.value ELSE properties.framework
  BY DEF Value
<1> HIDE DEF h
<1>3. \A s \in Left : s.do = "framework" => s = Step("framework", v) /\ s.value = v
  BY <1>1, StepKinds DEF Early
<1>4. CASE LeftOf({"framework"})
  <2>1. Step("framework", w) \in Left
    BY <1>4 DEF NewVersion
  <2>2. Step("framework", w) = Step("framework", v)
    BY <1>3, <2>1, StepParts
  <2>3. w = v
    BY <2>2, StepParts
  <2>4. CASE h.do = "framework"
    <3>1. ~LeftOf({"framework"})'
      BY <1>1, <1>3, <2>4 DEF LeftOf
    <3>2. properties'.framework = v
      BY <1>1, <1>2, <1>3, <2>4
    <3> QED
      BY <2>3, <3>1, <3>2 DEF NewVersion
  <2>5. CASE h.do # "framework"
    <3>1. Step("framework", w) \in Left'
      BY <1>1, <2>1, <2>5, StepParts
    <3>2. LeftOf({"framework"})'
      BY <3>1, StepParts DEF LeftOf
    <3> QED
      BY <3>1, <3>2 DEF NewVersion
  <2> QED
    BY <2>4, <2>5
<1>5. CASE ~LeftOf({"framework"})
  <2>1. h.do # "framework" /\ ~LeftOf({"framework"})'
    BY <1>1, <1>5 DEF LeftOf
  <2>2. properties'.framework = properties.framework
    BY <1>2, <2>1
  <2> QED
    BY <1>5, <2>1, <2>2 DEF NewVersion
<1> QED
  BY <1>4, <1>5

(* A step that does not touch the lists. *)
LEMMA OtherStepKeepsLists ==
  ASSUME Inv, ListsInv, pc = "task", todo' = Tail(todo), pc' \in {"task", "save"}, Head(todo).do # "lists",
         UNCHANGED <<disk, mem, options, started, before, outcome>>,
         properties'.framework = IF Head(todo).do = "framework" THEN Value ELSE properties.framework,
         SavingInv'
  PROVE  ListsInv'
<1>1. StateInv /\ FilesReadInv /\ MemoryMigrated /\ outcome = "none"
  BY DEF Inv, ListsInv, StateInv
<1>2. PICK v \in FrameworkVersions : RunOf(v)
  BY DEF Inv, RunInv, Running
<1>3. PlanInv(v) /\ todo # <<>>
  BY <1>2 DEF RunOf, PlanInv
<1> DEFINE h == Head(todo)
<1>4. h \in Steps(v) /\ h \in Left /\ Left' = Left \ {h} /\ Left \subseteq Steps(v)
  BY <1>3, HeadIsTaken DEF Taken, PlanInv, PlanOf
<1>5. h.do # "lists" /\ Value = h.value
  BY DEF Value
<1> HIDE DEF h
<1>7. MemoryMigrated'
  <2> SUFFICES ASSUME ~LeftOf({"lists"})'
               PROVE  \E w \in FrameworkVersions : NewVersion(w)' /\ (w # before.properties.framework => MigratedIn(mem, w)')
    BY DEF MemoryMigrated
  <2>1. ~LeftOf({"lists"})
    BY <1>4, <1>5 DEF LeftOf
  <2>2. PICK w \in FrameworkVersions : NewVersion(w) /\ (w # before.properties.framework => MigratedIn(mem, w))
    BY <1>1, <2>1 DEF MemoryMigrated, Running
  <2>3. NewVersion(w)'
    BY <1>2, <1>3, <2>2, NewVersionKept
  <2>4. MigratedIn(mem, w)' <=> MigratedIn(mem, w)
    BY DEF MigratedIn, Migrated, OneList, SelectedConfigurations
  <2> QED
    BY <2>2, <2>3, <2>4
<1>8. FilesReadInv'
  BY <1>1 DEF FilesReadInv, Running, OneList, FilesOf
<1>9. ListsMigrated'
  BY <1>1 DEF ListsMigrated
<1> QED
  BY <1>7, <1>8, <1>9 DEF ListsInv

(* With files, a list goes to one of them. *)
LEMMA ProjectsListKept ==
  ASSUME NEW d \in Files, NEW c \in {Debug, Release}, NEW version \in FrameworkVersions, FilesOf(d) # {}
  PROVE  MigrateIn(d, c, version).project = d.project /\ FilesOf(MigrateIn(d, c, version)) # {}
<1> DEFINE list == MigratePlugins(OrEmpty(Enabled(d, c)), properties.framework, version)
           old == d.config[c]
           new == [(IF old = Missing THEN EmptyData ELSE old) EXCEPT !["core"] = list]
<1>1. HasBuildConfigurations(d)
  BY DEF HasBuildConfigurations, FilesOf
<1>2. SetProperty(d, "core", list, c) = [d EXCEPT !.config[c] = new]
  BY <1>1 DEF SetProperty
<1> HIDE DEF new
<1>3. SetProperty(d, "core", list, c).project = d.project
  BY <1>2 DEF Files
<1>4. MigrateIn(d, c, version).project = d.project
  BY <1>3 DEF MigrateIn
<1>5. FilesOf(MigrateIn(d, c, version)) # {}
  BY ListIsMigrated
<1> QED
  BY <1>4, <1>5

(* The lists are migrated, to the version the command goes to: they were as *)
(* at the start.                                                           *)
LEMMA ListsToMigrate ==
  ASSUME Inv, ListsInv, MigrateLists
  PROVE  /\ pc = "task" /\ pc' = "task" /\ outcome = "none"
         /\ UNCHANGED <<disk, options, started, before, outcome, properties>>
         /\ mem = disk /\ EnabledKept
         /\ FilesOf(mem) \subseteq FilesOf(mem') /\ (FilesOf(mem) = {} => FilesOf(mem') = {})
         /\ FilesOf(mem') # {} => mem'.project = mem.project
         /\ \E v \in FrameworkVersions :
              /\ v # before.properties.framework /\ NewVersion(v)'
              /\ \A c \in SelectedConfigurations : OrEmpty(Enabled(mem', c)) = Migrated(c, v)
              /\ \A c \in Configurations :
                   Enabled(mem', c) = Enabled(started, c) \/ OrEmpty(Enabled(mem', c)) = Migrated(c, v)
<1>1. /\ pc = "task" /\ pc' = "task" /\ todo' = Tail(todo) /\ Head(todo).do = "lists"
      /\ mem' = MigrateIn(MigrateIn(mem, Debug, Value), Release, Value)
      /\ UNCHANGED <<disk, options, started, before, outcome, properties>>
  BY DEF MigrateLists, At, Continue
<1>2. StateInv /\ MemoryInv /\ UnsavedInv /\ FilesReadInv /\ outcome = "none"
  BY <1>1 DEF Inv, ListsInv, StateInv
<1>3. PICK v \in FrameworkVersions : RunOf(v)
  BY <1>1 DEF Inv, RunInv, Running
<1>4. PlanInv(v) /\ JsInv(v) /\ todo # <<>>
  BY <1>1, <1>3 DEF RunOf, PlanInv
<1> DEFINE h == Head(todo)
<1>5. h \in Steps(v) /\ h \in Left /\ Left' = Left \ {h} /\ PlanOf(v, Left)
  BY <1>1, <1>4, HeadIsTaken DEF Taken, PlanInv
<1>6. h.do = "lists" /\ Value = h.value
  BY <1>1 DEF Value
<1> HIDE DEF h
<1>7. Value = v /\ LeftOf(Early)
  BY <1>5, <1>6, StepKinds DEF Early, LeftOf
<1>8. /\ Step("framework", v) \in Left' /\ properties.framework = before.properties.framework
      /\ v # before.properties.framework
  <2>1. Step("framework", v) \in Left
    BY <1>5, <1>7 DEF PlanOf, LeftOf
  <2>2. Step("framework", v) # h
    BY <1>6, StepParts
  <2>3. v # properties.framework
    BY <1>4, <1>7 DEF PlanInv, LeftOf
  <2> QED
    BY <1>4, <1>5, <2>1, <2>2, <2>3 DEF JsInv
<1>9. mem = disk /\ EnabledKept
  BY <1>1, <1>2, <1>4, <1>7 DEF MemoryInv, UnsavedInv, Unsaved, Running
<1>10. mem \in Files /\ options \subseteq {Debug, Release}
  BY <1>2 DEF StateInv, TypeOK
<1> DEFINE Once(plugins) == MigratePlugins(plugins, properties.framework, v)
<1>11. /\ FilesOf(mem) \subseteq FilesOf(mem') /\ (FilesOf(mem) = {} => FilesOf(mem') = {})
       /\ FilesOf(mem) # {} =>
            \A c \in SelectedConfigurations : OrEmpty(Enabled(mem', c)) = Once(OrEmpty(Enabled(mem, c)))
       /\ FilesOf(mem) = {} /\ options = {} =>
            \A c \in Configurations : OrEmpty(Enabled(mem', c)) = Once(Once(OrEmpty(Enabled(mem, c))))
       /\ FilesOf(mem) # {} =>
            \A c \in Configurations \ SelectedConfigurations : Enabled(mem', c) = Enabled(mem, c)
  BY <1>1, <1>7, <1>10, ListsAreMigrated
<1>12. FilesOf(mem) = FilesOf(started) \cup options /\ (OneList <=> options = {} /\ FilesOf(started) = {})
  BY <1>1, <1>2, <1>9 DEF FilesReadInv, Running, OneList, FilesOf
<1>13. /\ \A c \in Configurations : Enabled(mem, c) = Enabled(started, c)
       /\ \A c \in SelectedConfigurations : c \in Configurations /\ Enabled(mem, c) = Enabled(started, c)
  BY <1>9, <1>10, ConfigurationsAssumption DEF EnabledKept, SelectedConfigurations
<1>14. \A c \in SelectedConfigurations : OrEmpty(Enabled(mem', c)) = Migrated(c, v)
  <2>1. CASE OneList
    BY <1>8, <1>11, <1>12, <1>13, <2>1 DEF Migrated
  <2>2. CASE ~OneList
    <3>1. FilesOf(mem) # {}
      BY <1>12, <2>2
    <3> QED
      BY <1>8, <1>11, <1>13, <2>2, <3>1 DEF Migrated
  <2> QED
    BY <2>1, <2>2
<1>15. ASSUME NEW c \in Configurations
       PROVE  Enabled(mem', c) = Enabled(started, c) \/ OrEmpty(Enabled(mem', c)) = Migrated(c, v)
  <2>1. CASE OneList
    BY <1>8, <1>11, <1>12, <1>13, <2>1 DEF Migrated
  <2>2. CASE ~OneList
    <3>1. FilesOf(mem) # {}
      BY <1>12, <2>2
    <3> QED
      BY <1>11, <1>13, <1>14, <3>1
  <2> QED
    BY <2>1, <2>2
<1>16. NewVersion(v)'
  BY <1>8, StepParts DEF NewVersion, LeftOf
<1>17. FilesOf(mem') # {} => mem'.project = mem.project
  <2> SUFFICES ASSUME FilesOf(mem) # {} PROVE mem'.project = mem.project
    BY <1>11
  <2>1. MigrateIn(mem, Debug, v).project = mem.project /\ FilesOf(MigrateIn(mem, Debug, v)) # {}
    BY <1>10, ProjectsListKept
  <2>2. MigrateIn(mem, Debug, v) \in Files
    BY <1>10, MigrateInType
  <2>3. mem' = MigrateIn(MigrateIn(mem, Debug, v), Release, v)
    BY <1>1, <1>7
  <2> QED
    BY <2>1, <2>2, <2>3, ProjectsListKept
<1> QED
  BY <1>1, <1>2, <1>8, <1>9, <1>11, <1>14, <1>15, <1>16, <1>17

LEMMA MigrateListsKeepsLists ==
  ASSUME Inv, ListsInv, MigrateLists
  PROVE  ListsInv'
<1>1. /\ pc = "task" /\ pc' = "task" /\ outcome = "none" /\ mem = disk
      /\ UNCHANGED <<disk, options, started, before, outcome, properties>>
      /\ FilesOf(mem) \subseteq FilesOf(mem') /\ (FilesOf(mem) = {} => FilesOf(mem') = {})
  BY ListsToMigrate
<1>2. PICK v \in FrameworkVersions :
        NewVersion(v)' /\ \A c \in SelectedConfigurations : OrEmpty(Enabled(mem', c)) = Migrated(c, v)
  BY ListsToMigrate
<1>3. MigratedIn(mem, v)'
  BY <1>1, <1>2 DEF MigratedIn, Migrated, OneList, SelectedConfigurations
<1>4. MemoryMigrated'
  BY <1>2, <1>3 DEF MemoryMigrated
<1>5. FilesReadInv'
  <2>1. FilesReadInv
    BY DEF ListsInv
  <2>2. FilesOf(disk)' = FilesOf(disk) /\ FilesOf(started)' = FilesOf(started) /\ FilesOf(mem)' = FilesOf(mem') /\ OneList' = OneList
    BY <1>1 DEF FilesOf, OneList
  <2> QED
    BY <1>1, <2>1, <2>2 DEF FilesReadInv, Running
<1>6. SavingInv' /\ ListsMigrated'
  BY <1>1 DEF SavingInv, ListsMigrated
<1> QED
  BY <1>4, <1>5, <1>6 DEF ListsInv

(* A step of a save that is not the end of the command. *)
LEMMA SaveLeavesLists ==
  ASSUME ListsInv, Running, outcome' # "ok", FilesOf(disk)' = FilesOf(disk), SavingInv',
         UNCHANGED <<mem, options, todo, started, properties, before>>
  PROVE  ListsInv'
<1>1. FilesReadInv /\ MemoryMigrated
  BY DEF ListsInv
<1>2. Left' = Left
  BY DEF Left
<1>3. FilesReadInv'
  BY <1>1 DEF FilesReadInv, OneList, FilesOf
<1>4. \A w : NewVersion(w)' = NewVersion(w)
  BY <1>2 DEF NewVersion, LeftOf
<1>5. \A w : MigratedIn(mem, w)' = MigratedIn(mem, w)
  BY DEF MigratedIn, Migrated, OneList, SelectedConfigurations
<1>6. MemoryMigrated'
  BY <1>1, <1>2, <1>4, <1>5 DEF MemoryMigrated, LeftOf
<1>7. ListsMigrated'
  BY DEF ListsMigrated
<1> QED
  BY <1>3, <1>6, <1>7 DEF ListsInv


(* The other steps of a command. *)
LEMMA OtherSteps ==
  ASSUME Inv,
         \/ ChangeSdk \/ AskAboutPlugins \/ Accelerate \/ BackUpJs \/ CopyJs \/ DeleteBackups
         \/ SetFramework \/ SetSdk \/ SaveAll
  PROVE  /\ pc = "task" /\ todo # <<>> /\ todo' = Tail(todo) /\ Head(todo).do # "lists"
         /\ UNCHANGED <<disk, mem, options, started, command, before, outcome, saved>>
         /\ pc' = "task" \/ (pc' = "save" /\ (Accelerate \/ SaveAll))
         /\ properties'.framework = IF Head(todo).do = "framework" THEN Value ELSE properties.framework
         /\ Head(todo).do = "wpsdk" => properties'.sdk = Value
         /\ Head(todo).do = "save" => properties' = properties
<1>1. PICK do \in {"sdk", "ask", "accelerate", "backup", "copy", "deleteBackups", "framework", "wpsdk", "save"} : At(do)
  BY DEF ChangeSdk, AskAboutPlugins, Accelerate, BackUpJs, CopyJs, DeleteBackups, SetFramework, SetSdk, SaveAll
<1>2. pc = "task" /\ Head(todo).do = do /\ StateInv /\ \E v \in FrameworkVersions : RunOf(v)
  BY <1>1, AtTask
<1>4. /\ todo' = Tail(todo) /\ UNCHANGED <<disk, mem, options, started, command, before, outcome, saved>>
      /\ pc' = "task" \/ (pc' = "save" /\ (Accelerate \/ SaveAll))
  <2>1. CASE ChangeSdk \/ AskAboutPlugins \/ BackUpJs \/ CopyJs \/ DeleteBackups \/ SetFramework \/ SetSdk
    BY <1>2, <2>1 DEF ChangeSdk, AskAboutPlugins, BackUpJs, CopyJs, DeleteBackups, SetFramework, SetSdk, Continue
  <2>2. CASE Accelerate \/ SaveAll
    BY <1>2, <2>2 DEF Accelerate, SaveAll, migrationVars
  <2> QED
    BY <2>1, <2>2
<1>5. properties'.framework = IF Head(todo).do = "framework" THEN Value ELSE properties.framework
  <2>1. properties \in Properties
    BY <1>2 DEF StateInv, TypeOK
  <2>2. CASE SetFramework
    <3>1. properties' = [properties EXCEPT !.framework = Value] /\ Head(todo).do = "framework"
      BY <2>2 DEF SetFramework, At
    <3> HIDE DEF Value
    <3> QED
      BY <2>1, <3>1 DEF Properties
  <2>3. CASE ChangeSdk \/ SetSdk
    <3>1. /\ Head(todo).do # "framework"
          /\ \/ properties' = properties
             \/ properties' = [properties EXCEPT !.sdk = 80]
             \/ properties' = [properties EXCEPT !.sdk = Value]
      BY <2>3 DEF ChangeSdk, SetSdk, At
    <3> HIDE DEF Value
    <3> QED
      BY <2>1, <3>1 DEF Properties
  <2>4. CASE Accelerate
    <3>1. /\ Head(todo).do # "framework"
          /\ properties' = properties \/ properties' = [properties EXCEPT !.accelerated = TRUE]
      BY <2>4 DEF Accelerate, At
    <3> QED
      BY <2>1, <3>1 DEF Properties
  <2>5. CASE AskAboutPlugins \/ BackUpJs \/ CopyJs \/ DeleteBackups \/ SaveAll
    BY <2>5 DEF AskAboutPlugins, BackUpJs, CopyJs, DeleteBackups, SaveAll, At, migrationVars
  <2> QED
    BY <2>2, <2>3, <2>4, <2>5
<1>6. Head(todo).do = "wpsdk" => properties'.sdk = Value
  <2> SUFFICES ASSUME Head(todo).do = "wpsdk" PROVE properties'.sdk = Value
    OBVIOUS
  <2>1. properties \in Properties /\ properties' = [properties EXCEPT !.sdk = Value]
    BY <1>2 DEF ChangeSdk, AskAboutPlugins, Accelerate, BackUpJs, CopyJs, DeleteBackups, SetFramework, SetSdk, SaveAll,
                At, StateInv, TypeOK
  <2> HIDE DEF Value
  <2> QED
    BY <2>1 DEF Properties
<1>7. Head(todo).do = "save" => properties' = properties
  BY DEF ChangeSdk, AskAboutPlugins, Accelerate, BackUpJs, CopyJs, DeleteBackups, SetFramework, SetSdk, SaveAll,
         At, migrationVars
<1>8. todo # <<>> /\ Head(todo).do # "lists"
  BY <1>1, <1>2, AtTask
<1> QED
  BY <1>2, <1>4, <1>5, <1>6, <1>7, <1>8

LEMMA StepKeepsLists ==
  ASSUME Inv, ListsInv,
         \/ ChangeSdk \/ AskAboutPlugins \/ Accelerate \/ BackUpJs \/ CopyJs \/ DeleteBackups
         \/ SetFramework \/ SetSdk \/ SaveAll
  PROVE  ListsInv'
<1>1. /\ pc = "task" /\ todo # <<>> /\ todo' = Tail(todo) /\ Head(todo).do # "lists"
      /\ UNCHANGED <<disk, mem, options, started, command, before, outcome, saved>>
      /\ pc' = "task" \/ (pc' = "save" /\ (Accelerate \/ SaveAll))
      /\ properties'.framework = IF Head(todo).do = "framework" THEN Value ELSE properties.framework
  BY OtherSteps
<1>2. StateInv
  BY DEF Inv
<1>3. PICK v \in FrameworkVersions : RunOf(v)
  BY <1>1 DEF Inv, RunInv, Running
<1>4. SavingInv'
  <2>1. CASE pc' = "task"
    BY <2>1 DEF SavingInv
  <2>2. CASE Accelerate
    <3>1. todo' # <<>>
      BY <1>2, <1>3, <2>2, AccelerateStep
    <3> QED
      BY <3>1 DEF SavingInv
  <2>3. CASE SaveAll
    <3>1. FilesOf(disk) = {c \in Configurations : disk.config[c] # Missing} /\ FilesOf(disk)' = FilesOf(disk)
      BY <1>1 DEF FilesOf
    <3>2. toSave' = (IF FilesOf(disk) = {} THEN SelectedConfigurations ELSE FilesOf(disk)) /\ pc' = "save"
      BY <2>3, <3>1 DEF SaveAll
    <3>3. FilesOf(disk)' \ toSave' = {}
      BY <3>1, <3>2
    <3> QED
      BY <3>2, <3>3 DEF SavingInv
  <2> QED
    BY <1>1, <2>1, <2>2, <2>3
<1> QED
  BY <1>1, <1>4, OtherStepKeepsLists

(* A save writes each list that has a file, and the last step of the save   *)
(* is the end of the command.                                              *)
LEMMA SavedAsInMemory ==
  ASSUME Inv, ListsInv, Saved, todo = <<>>, ListsAreSaved, NEW c \in SelectedConfigurations
  PROVE  Enabled(disk, c) = Enabled(mem, c)
<1>1. /\ pc = "saveConfigurations" /\ toSave = {}
      /\ FilesReadInv /\ SavingInv /\ StateInv
  BY DEF Saved, ListsInv, Inv
<1>2. /\ FilesOf(disk) = FilesOf(started) \cup options /\ FilesOf(disk) \subseteq FilesOf(mem)
      /\ OneList => FilesOf(mem) = {}
  BY <1>1 DEF FilesReadInv, Running
<1>3. disk.project = mem.project /\ \A k \in FilesOf(disk) : disk.config[k] = mem.config[k]
  BY <1>1 DEF SavingInv
<1>4. c \in Configurations /\ (options # {} => c \in options)
  BY <1>1, ConfigurationsAssumption DEF SelectedConfigurations, StateInv
<1>5. CASE c \in FilesOf(disk)
  <2>1. disk.config[c] = mem.config[c]
    BY <1>3, <1>5
  <2> QED
    BY <1>3, <2>1 DEF Enabled, GetProperty
<1>6. CASE c \notin FilesOf(disk)
  <2>1. options = {} /\ c \notin FilesOf(started)
    BY <1>2, <1>4, <1>6
  <2>2. \A k \in Configurations : started.config[k] = Missing
    BY <1>4, <2>1 DEF ListsAreSaved, FilesOf
  <2>3. FilesOf(mem) = {}
    BY <1>2, <2>1, <2>2 DEF OneList
  <2>4. disk.config[c] = Missing /\ mem.config[c] = Missing
    BY <1>4, <1>6, <2>3 DEF FilesOf
  <2> QED
    BY <1>3, <2>4 DEF Enabled, GetProperty
<1> QED
  BY <1>5, <1>6

LEMMA SaveKeepsLists ==
  ASSUME Inv, ListsInv, Save, ~SaveFails
  PROVE  ListsInv'
<1>1. /\ UNCHANGED <<mem, options, todo, started, properties, before>>
      /\ \/ SaveProjectFile
         \/ \E c \in toSave : SaveConfigurationFile(c)
         \/ Saved /\ saved' = saved
  BY DEF Save, migrationVars, SaveProjectFile, SaveConfigurationFile, Saved
<1>2. /\ pc \in {"save", "saveConfigurations"} /\ StateInv /\ outcome = "none"
      /\ FilesReadInv /\ MemoryMigrated /\ SavingInv
      /\ disk \in Files /\ mem \in Files
  BY <1>1 DEF SaveProjectFile, SaveConfigurationFile, Saved, Inv, ListsInv, StateInv, TypeOK
<1>3. /\ FilesOf(disk) = FilesOf(started) \cup options /\ FilesOf(disk) \subseteq FilesOf(mem)
      /\ OneList => FilesOf(mem) = {}
  BY <1>2 DEF FilesReadInv, Running
<1>4. CASE SaveProjectFile
  <2>1. pc = "save" /\ pc' = "saveConfigurations" /\ disk' = [disk EXCEPT !.project = mem.project] /\ toSave' = toSave /\ outcome' = outcome
    BY <1>4 DEF SaveProjectFile
  <2>2. disk'.config = disk.config /\ disk'.project = mem.project
    BY <1>2, <2>1 DEF Files
  <2>3. FilesOf(disk)' = FilesOf(disk)
    BY <2>2 DEF FilesOf
  <2>4. SavingInv'
    <3>1. todo = <<>> => FilesOf(disk) \ toSave = {}
      BY <1>2, <2>1 DEF SavingInv
    <3> QED
      BY <1>1, <2>1, <2>2, <2>3, <3>1 DEF SavingInv
  <2>8. Running /\ outcome' # "ok"
    BY <1>2, <2>1 DEF Running
  <2> QED
    BY <1>1, <2>8, <2>1, <2>3, <2>4, SaveLeavesLists
<1>5. CASE \E c \in toSave : SaveConfigurationFile(c)
  <2>1. PICK c \in toSave : SaveConfigurationFile(c)
    BY <1>5
  <2>2. /\ pc = "saveConfigurations" /\ pc' = "saveConfigurations" /\ toSave' = toSave \ {c} /\ outcome' = outcome
        /\ disk' = IF disk.config[c] # Missing /\ mem.config[c] # Missing
                   THEN [disk EXCEPT !.config[c] = mem.config[c]]
                   ELSE disk
    BY <2>1 DEF SaveConfigurationFile
  <2>3. c \in Configurations
    BY <1>2 DEF StateInv, TypeOK
  <2>4. /\ disk'.project = disk.project
        /\ \A k \in Configurations : k # c => disk'.config[k] = disk.config[k]
        /\ disk'.config[c] = IF disk.config[c] # Missing /\ mem.config[c] # Missing THEN mem.config[c] ELSE disk.config[c]
    BY <1>2, <2>2, <2>3 DEF Files
  <2>5. FilesOf(disk)' = FilesOf(disk)
    BY <2>3, <2>4 DEF FilesOf
  <2>6. c \in FilesOf(disk) => disk'.config[c] = mem.config[c]
    BY <1>3, <2>4 DEF FilesOf
  <2>7. SavingInv'
    <3> SUFFICES ASSUME todo = <<>>
                 PROVE  disk'.project = mem.project /\ \A k \in FilesOf(disk) \ toSave' : disk'.config[k] = mem.config[k]
      BY <1>1, <2>2, <2>5 DEF SavingInv
    <3>1. disk.project = mem.project /\ \A k \in FilesOf(disk) \ toSave : disk.config[k] = mem.config[k]
      BY <1>2, <2>2 DEF SavingInv
    <3>2. ASSUME NEW k \in FilesOf(disk) \ toSave'
          PROVE  disk'.config[k] = mem.config[k]
      <4>1. CASE k = c
        BY <2>6, <4>1
      <4>2. CASE k # c
        <5>1. k \in FilesOf(disk) \ toSave /\ k \in Configurations
          BY <2>2, <4>2 DEF FilesOf
        <5> QED
          BY <2>4, <3>1, <4>2, <5>1
      <4> QED
        BY <4>1, <4>2
    <3> QED
      BY <2>4, <3>1, <3>2
  <2>8. Running /\ outcome' # "ok"
    BY <1>2, <2>2 DEF Running
  <2> QED
    BY <1>1, <2>8, <2>2, <2>5, <2>7, SaveLeavesLists
<1>6. CASE Saved /\ saved' = saved
  <2>1. /\ pc = "saveConfigurations" /\ disk' = disk
        /\ IF todo = <<>> THEN pc' = "done" /\ outcome' = "ok" ELSE pc' = "task" /\ outcome' = outcome
    BY <1>6 DEF Saved
  <2>2. FilesOf(disk)' = FilesOf(disk)
    BY <2>1 DEF FilesOf
  <2>3. SavingInv'
    BY <2>1 DEF SavingInv
  <2>4. CASE todo # <<>>
    <3>1. Running /\ outcome' # "ok"
      BY <1>2, <2>1, <2>4 DEF Running
    <3> QED
      BY <1>1, <2>2, <2>3, <3>1, SaveLeavesLists
  <2>5. CASE todo = <<>>
    <3>1. ASSUME Changed', ListsAreSaved'
          PROVE  MigratedIn(disk, saved.framework)'
      <4>1. Changed /\ ListsAreSaved
        BY <1>1, <1>6, <3>1 DEF Changed, ListsAreSaved, SelectedConfigurations
      <4>2. Left = {}
        BY <2>5 DEF Left, Range
      <4>3. properties = saved
        BY <1>2, <2>1 DEF StateInv
      <4>4. MigratedIn(mem, saved.framework)
        <5>1. ~LeftOf({"lists"}) /\ ~LeftOf({"framework"})
          BY <4>2 DEF LeftOf
        <5>2. PICK w \in FrameworkVersions : NewVersion(w) /\ (w # before.properties.framework => MigratedIn(mem, w))
          BY <1>2, <2>1, <5>1 DEF MemoryMigrated, Running
        <5>3. w = saved.framework
          BY <4>3, <5>1, <5>2 DEF NewVersion
        <5> QED
          BY <4>1, <5>2, <5>3 DEF Changed
      <4>5. \A c \in SelectedConfigurations : Enabled(disk, c) = Enabled(mem, c)
        BY <1>6, <2>5, <4>1, SavedAsInMemory
      <4>6. MigratedIn(disk, saved.framework)
        BY <4>4, <4>5 DEF MigratedIn
      <4> QED
        BY <1>1, <1>6, <2>1, <4>6 DEF MigratedIn, Migrated, OneList, SelectedConfigurations
    <3>2. ListsMigrated'
      BY <3>1 DEF ListsMigrated
    <3>3. FilesReadInv' /\ MemoryMigrated'
      BY <2>1, <2>5 DEF FilesReadInv, MemoryMigrated, Running
    <3> QED
      BY <2>3, <3>2, <3>3 DEF ListsInv
  <2> QED
    BY <2>4, <2>5
<1> QED
  BY <1>1, <1>4, <1>5, <1>6

(* A command that has ended without success, and a project that is as it was. *)
LEMMA EndKeepsLists ==
  ASSUME ListsInv,
         \/ ~Running' /\ outcome' # "ok"
         \/ UNCHANGED <<vars, properties, saved, before>>
  PROVE  ListsInv'
<1>1. CASE ~Running' /\ outcome' # "ok"
  BY <1>1 DEF ListsInv, FilesReadInv, MemoryMigrated, SavingInv, ListsMigrated, Running
<1>2. CASE UNCHANGED <<vars, properties, saved, before>>
  <2>1. UNCHANGED <<disk, mem, pc, options, todo, toSave, outcome, started, properties, saved, before>>
    BY <1>2 DEF vars
  <2>2. \A w : NewVersion(w)' = NewVersion(w)
    BY <2>1 DEF NewVersion, LeftOf, Left
  <2>3. \A w : MigratedIn(mem, w)' = MigratedIn(mem, w)
    BY <2>1 DEF MigratedIn, Migrated, OneList, SelectedConfigurations
  <2>4. MigratedIn(disk, saved.framework)' = MigratedIn(disk, saved.framework)
    BY <2>1 DEF MigratedIn, Migrated, OneList, SelectedConfigurations
  <2>5. FilesReadInv' = FilesReadInv
    BY <2>1 DEF FilesReadInv, Running, OneList, FilesOf
  <2>6. MemoryMigrated' = MemoryMigrated
    BY <2>1, <2>2, <2>3 DEF MemoryMigrated, Running, LeftOf, Left
  <2>7. SavingInv' = SavingInv
    BY <2>1 DEF SavingInv, FilesOf
  <2>8. ListsMigrated' = ListsMigrated
    BY <2>1, <2>4 DEF ListsMigrated, Changed, ListsAreSaved, SelectedConfigurations
  <2> QED
    BY <2>5, <2>6, <2>7, <2>8 DEF ListsInv
<1> QED
  BY <1>1, <1>2

LEMMA ListsInit == Init => ListsInv
<1> SUFFICES ASSUME Init PROVE ListsInv
  OBVIOUS
<1>1. pc = "idle" /\ outcome = "none"
  BY DEF Init, InitFiles
<1> QED
  BY <1>1 DEF ListsInv, FilesReadInv, MemoryMigrated, SavingInv, ListsMigrated, Running

LEMMA ListsNext == Inv /\ ListsInv /\ [Next]_allVars => ListsInv'
<1> SUFFICES ASSUME Inv, ListsInv, [Next]_allVars PROVE ListsInv'
  OBVIOUS
<1>1. CASE \/ \E version \in FrameworkVersions, opts \in SUBSET {Debug, Release} : SetFrameworkStart(version, opts)
           \/ \E sdk \in Sdks, opts \in SUBSET {Debug, Release} : SetSdkStart(sdk, opts)
  BY <1>1, StartKeepsLists
<1>2. CASE \/ ChangeSdk \/ AskAboutPlugins \/ Accelerate \/ BackUpJs \/ CopyJs \/ DeleteBackups
           \/ SetFramework \/ SetSdk \/ SaveAll
  BY <1>2, StepKeepsLists
<1>3. CASE MigrateLists
  BY <1>3, MigrateListsKeepsLists
<1>4. CASE Save /\ ~SaveFails
  BY <1>4, SaveKeepsLists
<1>5. CASE JsFails \/ Reverted \/ RevertFails \/ StepFails \/ SaveFails \/ End
  <2>1. ~Running' /\ outcome' # "ok"
    <3>1. CASE JsFails
      <4>1. pc = "task"
        BY <3>1 DEF JsFails, At
      <4>2. outcome' = "none" /\ pc' = "revert"
        BY <3>1, <4>1 DEF JsFails, Inv, StateInv
      <4> QED
        BY <4>2 DEF Running
    <3>2. CASE Reverted \/ RevertFails \/ StepFails \/ SaveFails
      BY <3>2 DEF Reverted, RevertFails, StepFails, SaveFails, Fail, FailAs, Running
    <3>3. CASE End
      BY <3>3 DEF End, Exit, Kill, Quit, Running
    <3> QED
      BY <1>5, <3>1, <3>2, <3>3
  <2> QED
    BY <2>1, EndKeepsLists
<1>6. CASE RevertJs
  <2>1. pc = "revert" /\ pc' = "revert" /\ outcome' = outcome
    BY <1>6 DEF RevertJs, Reverting
  <2>2. outcome = "none"
    BY <2>1 DEF Inv, StateInv
  <2> QED
    BY <2>1, <2>2, EndKeepsLists DEF Running
<1>7. CASE RestoreJs \/ UNCHANGED allVars
  <2>1. UNCHANGED <<vars, properties, saved, before>>
    BY <1>7 DEF RestoreJs, allVars, migrationVars
  <2> QED
    BY <2>1, EndKeepsLists
<1> QED
  BY <1>1, <1>2, <1>3, <1>4, <1>5, <1>6, <1>7 DEF Next

LEMMA SpecLists == Spec => []ListsInv
<1>1. Init => ListsInv
  BY ListsInit
<1>2. Inv /\ ListsInv /\ [Next]_allVars => ListsInv'
  BY ListsNext
<1> QED
  BY <1>1, <1>2, SpecInv, PTL DEF Spec


LEMMA SpecBefore == Spec => []StartedInv
<1>1. Init => StartedInv
  BY DEF Init, StartedInv
<1>2. Inv /\ StartedInv /\ [Next]_allVars => StartedInv'
  <2> SUFFICES ASSUME Inv, StartedInv, [Next]_allVars PROVE StartedInv'
    OBVIOUS
  <2>1. saved.framework \in FrameworkVersions
    BY DEF Inv, StateInv, TypeOK, Properties
  <2>2. before' = before \/ before' = [properties |-> saved, js |-> js]
    <3>1. CASE \/ \E version \in FrameworkVersions, opts \in SUBSET {Debug, Release} : SetFrameworkStart(version, opts)
               \/ \E sdk \in Sdks, opts \in SUBSET {Debug, Release} : SetSdkStart(sdk, opts)
      BY <3>1 DEF SetFrameworkStart, SetSdkStart
    <3>2. CASE ChangeSdk \/ AskAboutPlugins \/ Accelerate \/ MigrateLists \/ BackUpJs \/ CopyJs \/ DeleteBackups
      BY <3>2 DEF ChangeSdk, AskAboutPlugins, Accelerate, MigrateLists, BackUpJs, CopyJs, DeleteBackups, Continue
    <3>3. CASE JsFails \/ RevertJs \/ Reverted \/ RevertFails
      BY <3>3 DEF JsFails, RevertJs, Reverted, RevertFails
    <3>4. CASE SetFramework \/ SetSdk \/ SaveAll \/ StepFails
      BY <3>4 DEF SetFramework, SetSdk, SaveAll, StepFails, Continue, migrationVars
    <3>5. CASE Save \/ End \/ RestoreJs
      BY <3>5 DEF Save, End, RestoreJs, migrationVars
    <3>6. CASE UNCHANGED allVars
      BY <3>6 DEF allVars, migrationVars
    <3> QED
      BY <3>1, <3>2, <3>3, <3>4, <3>5, <3>6 DEF Next
  <2> QED
    BY <2>1, <2>2 DEF StartedInv
<1> QED
  BY <1>1, <1>2, SpecInv, PTL DEF Spec

(* A change of the version that succeeds has saved, for each selected       *)
(* configuration, what it had enabled when the command started, migrated -  *)
(* the one list of a project without configuration files twice, whatever    *)
(* else the command saved on the way.                                      *)
THEOREM MigratedListsAreSaved == Spec => []ListsMigrated
<1>1. ListsInv => ListsMigrated
  BY DEF ListsInv
<1> QED
  BY <1>1, SpecLists, PTL

(* Where migrating a list again changes nothing, the project is saved as if *)
(* every list had been migrated once.                                      *)
THEOREM ListsMigratedOnce == MigrationSettles => (Spec => []MigratedOnce)
<1> SUFFICES ASSUME MigrationSettles PROVE Spec => []MigratedOnce
  OBVIOUS
<1>1. ASSUME Inv, ListsMigrated, StartedInv
      PROVE  MigratedOnce
  <2> DEFINE from == before.properties.framework
             to == saved.framework
             Once(plugins) == MigratePlugins(plugins, from, to)
  <2> SUFFICES ASSUME outcome = "ok" /\ Changed /\ ListsAreSaved, NEW c \in SelectedConfigurations
               PROVE  OrEmpty(Enabled(disk, c)) = Once(OrEmpty(Enabled(started, c)))
    BY DEF MigratedOnce
  <2>1. OrEmpty(Enabled(disk, c)) = Migrated(c, to)
    BY <1>1 DEF ListsMigrated, MigratedIn
  <2>2. started \in Files /\ from \in FrameworkVersions /\ to \in FrameworkVersions /\ from # to
    BY <1>1 DEF Inv, StateInv, TypeOK, Properties, StartedInv, Changed
  <2>3. OrEmpty(Enabled(started, c)) \in SUBSET Records
    <3>1. Enabled(started, c) \in {Undefined} \cup SUBSET Records
      BY <2>2 DEF Enabled, GetProperty, Files, Data
    <3> QED
      BY <3>1 DEF OrEmpty
  <2> DEFINE list == OrEmpty(Enabled(started, c))
  <2> HIDE DEF list
  <2>4. Once(Once(list)) = Once(list)
    BY <2>2, <2>3 DEF MigrationSettles, list
  <2>5. Migrated(c, to) = Once(list)
    BY <2>4 DEF Migrated, list
  <2> QED
    BY <2>1, <2>5 DEF list
<1> QED
  BY <1>1, SpecInv, SpecBefore, MigratedListsAreSaved, PTL


(* An upgrade takes no core plugin away that the newer version has: what    *)
(* the command does with the lists on its way to the disk loses none, so    *)
(* it is for the migration data alone to name the plugins right.            *)
THEOREM UpgradesKeepPlugins == MigrationSettles /\ UpgradesFollowNames => (Spec => []UpgradeKeepsPlugins)
<1> SUFFICES ASSUME MigrationSettles, UpgradesFollowNames PROVE Spec => []UpgradeKeepsPlugins
  OBVIOUS
<1>1. ASSUME Inv, MigratedOnce, StartedInv
      PROVE  UpgradeKeepsPlugins
  <2> DEFINE from == before.properties.framework
             to == saved.framework
  <2> SUFFICES ASSUME outcome = "ok", from < to, ListsAreSaved, NEW c \in SelectedConfigurations
               PROVE  KeepsPlugins(c)
    BY DEF UpgradeKeepsPlugins
  <2>1. from \in FrameworkVersions /\ to \in FrameworkVersions
    BY <1>1 DEF Inv, StateInv, TypeOK, Properties, StartedInv
  <2>2. from # to
    <3>1. FrameworkVersions \subseteq Nat
      BY VersionsAssumption
    <3>2. \A n \in Nat : ~(n < n)
      OBVIOUS
    <3> HIDE DEF from, to
    <3> QED
      BY <2>1, <3>1, <3>2
  <2> DEFINE list == OrEmpty(Enabled(started, c))
  <2>3. OrEmpty(Enabled(disk, c)) = MigratePlugins(list, from, to)
    BY <1>1, <2>2 DEF MigratedOnce, Changed
  <2> HIDE DEF list
  <2> SUFFICES ASSUME NEW plugin \in list, plugin \in IntegratedPlugins[from],
                      NEW name \in Lineage(plugin), name \in IntegratedPlugins[to]
               PROVE  name \in MigratePlugins(list, from, to)
    BY <2>3 DEF KeepsPlugins, list
  <2>4. name = Renamed(plugin, from, to)
    BY <2>1 DEF UpgradesFollowNames
  <2> QED
    BY <2>4 DEF MigratePlugins
<1>2. Spec => []MigratedOnce
  BY ListsMigratedOnce
<1> QED
  BY <1>1, <1>2, SpecInv, SpecBefore, PTL


--------------------------------------------------------------------------
(* What is saved when a write fails.  First, the goal of the command: a     *)
(* step that is taken sets it, or leaves it to be set.                     *)
LEMMA GoalKept ==
  ASSUME NEW v \in FrameworkVersions, RunOf(v), GoalInv, Running, todo # <<>>, todo' = Tail(todo), command' = command,
         properties'.framework = IF Head(todo).do = "framework" THEN Value ELSE properties.framework,
         Head(todo).do = "wpsdk" => properties'.sdk = Value,
         Head(todo).do = "save" => properties' = properties
  PROVE  GoalInv'
<1> DEFINE h == Head(todo)
<1>1. /\ h \in Steps(v) /\ h \in Left /\ Left' = Left \ {h} /\ Left \subseteq Steps(v)
      /\ \A s \in Left' : Follows(h, s)
  BY HeadIsTaken DEF RunOf, Taken, PlanInv, PlanOf
<1>2. /\ Value = h.value
      /\ properties'.framework = IF h.do = "framework" THEN h.value ELSE properties.framework
      /\ h.do = "wpsdk" => properties'.sdk = h.value
      /\ h.do = "save" => properties' = properties
  BY DEF Value
<1> HIDE DEF h
<1>3. \A s \in Left : s.do = "framework" => s = Step("framework", v)
  BY <1>1, StepKinds DEF Early
<1>4. ASSUME command.property = "FrameworkVersion"
      PROVE  \/ Step("framework", command.value) \in Left'
             \/ ~LeftOf({"framework"})' /\ properties'.framework = command.value
  <2>1. CASE h = Step("framework", command.value)
    <3>1. h.do = "framework" /\ h.value = command.value
      BY <2>1, StepParts
    <3>2. ~LeftOf({"framework"})'
      BY <1>1, <1>3, <3>1 DEF LeftOf
    <3> QED
      BY <1>2, <3>1, <3>2
  <2>2. CASE Step("framework", command.value) \in Left /\ h # Step("framework", command.value)
    BY <1>1, <2>2
  <2>3. CASE ~LeftOf({"framework"}) /\ properties.framework = command.value
    <3>1. h.do # "framework" /\ ~LeftOf({"framework"})'
      BY <1>1, <2>3 DEF LeftOf
    <3> QED
      BY <1>2, <2>3, <3>1
  <2> QED
    BY <1>4, <2>1, <2>2, <2>3 DEF GoalInv
<1>5. ASSUME command.property = "WPSdk"
      PROVE  \/ Step("wpsdk", command.value) \in Left'
             \/ (\A s \in Left' : s.do = "save") /\ properties'.sdk = command.value
  <2>1. CASE h = Step("wpsdk", command.value)
    <3>1. h.do = "wpsdk" /\ h.value = command.value
      BY <2>1, StepParts
    <3>2. ASSUME NEW s \in Left'
          PROVE  s.do = "save"
      <4>1. Follows(h, s) /\ s \in Steps(v)
        BY <1>1
      <4>2. s.do \in {"sdk", "ask", "accelerate", "lists", "backup", "copy", "deleteBackups", "framework", "wpsdk", "save"}
        BY <4>1, StepKinds DEF Early
      <4>3. Rank("wpsdk") < Rank(s.do)
        BY <3>1, <4>1 DEF Follows, JsKinds
      <4>4. Rank("wpsdk") = 8 /\ Rank(s.do) \in 1..9 /\ (s.do = "save" <=> Rank(s.do) = 9)
        BY <4>2, RankOf, RankTells
      <4> DEFINE r == Rank(s.do)
      <4> HIDE DEF r
      <4>5. 8 < r /\ r \in 1..9 => r = 9
        OBVIOUS
      <4> QED
        BY <4>3, <4>4, <4>5 DEF r
    <3> QED
      BY <1>2, <3>1, <3>2
  <2>2. CASE Step("wpsdk", command.value) \in Left /\ h # Step("wpsdk", command.value)
    BY <1>1, <2>2
  <2>3. CASE (\A s \in Left : s.do = "save") /\ properties.sdk = command.value
    BY <1>1, <1>2, <2>3
  <2> QED
    BY <1>5, <2>1, <2>2, <2>3 DEF GoalInv
<1> QED
  BY <1>4, <1>5 DEF GoalInv

(* Where the lists are not touched, they stay what they were.               *)
LEMMA PartKept ==
  ASSUME PartInv, Running, outcome' # "notSaved", GoalInv',
         \A w : NewVersion(w) => NewVersion(w)',
         UNCHANGED <<disk, mem, options, started, before>>
  PROVE  PartInv'
<1>1. \A c, w : ListIn(mem, c, w)' <=> ListIn(mem, c, w)
  BY DEF ListIn, Migrated, OneList
<1>2. MemoryListsInv'
  BY <1>1 DEF PartInv, MemoryListsInv
<1>3. DiskListsInv'
  BY DEF PartInv, DiskListsInv, FilesOf
<1>4. NotSavedInv'
  BY DEF NotSavedInv
<1> QED
  BY <1>2, <1>3, <1>4 DEF PartInv

LEMMA StepKeepsPart ==
  ASSUME Inv, PartInv,
         \/ ChangeSdk \/ AskAboutPlugins \/ Accelerate \/ BackUpJs \/ CopyJs \/ DeleteBackups
         \/ SetFramework \/ SetSdk \/ SaveAll
  PROVE  PartInv'
<1>1. /\ pc = "task" /\ todo # <<>> /\ todo' = Tail(todo)
      /\ UNCHANGED <<disk, mem, options, started, command, before, outcome>>
      /\ properties'.framework = IF Head(todo).do = "framework" THEN Value ELSE properties.framework
      /\ Head(todo).do = "wpsdk" => properties'.sdk = Value
      /\ Head(todo).do = "save" => properties' = properties
  BY OtherSteps
<1>2. Running /\ outcome' # "notSaved"
  BY <1>1 DEF Running, Inv, StateInv
<1>3. PICK v \in FrameworkVersions : RunOf(v)
  BY <1>2 DEF Inv, RunInv
<1>4. GoalInv'
  BY <1>1, <1>2, <1>3, GoalKept DEF PartInv
<1>5. \A w : NewVersion(w) => NewVersion(w)'
  BY <1>1, <1>3, NewVersionKept
<1> QED
  BY <1>1, <1>2, <1>4, <1>5, PartKept

LEMMA MigrateListsKeepsPart ==
  ASSUME Inv, ListsInv, PartInv, MigrateLists
  PROVE  PartInv'
<1>1. /\ pc = "task" /\ pc' = "task" /\ outcome = "none" /\ mem = disk /\ EnabledKept
      /\ UNCHANGED <<disk, options, started, before, outcome, properties>>
      /\ FilesOf(mem') # {} => mem'.project = mem.project
  BY ListsToMigrate
<1>2. PICK v \in FrameworkVersions :
        /\ v # before.properties.framework /\ NewVersion(v)'
        /\ \A c \in Configurations :
             Enabled(mem', c) = Enabled(started, c) \/ OrEmpty(Enabled(mem', c)) = Migrated(c, v)
  BY ListsToMigrate
<1>3. \A c \in Configurations : ListIn(mem, c, v)'
  BY <1>1, <1>2 DEF ListIn, Migrated, OneList
<1>4. MemoryListsInv'
  BY <1>2, <1>3 DEF MemoryListsInv
<1>5. DiskListsInv'
  BY <1>1 DEF DiskListsInv, EnabledKept, FilesOf
<1>6. NotSavedInv'
  BY <1>1 DEF NotSavedInv
<1>7. GoalInv'
  <2>1. todo' = Tail(todo) /\ command' = command /\ properties' = properties /\ Head(todo).do = "lists"
    BY DEF MigrateLists, At, Continue
  <2>2. Running
    BY <1>1 DEF Running
  <2>3. PICK w \in FrameworkVersions : RunOf(w)
    BY <2>2 DEF Inv, RunInv
  <2>4. todo # <<>>
    BY <1>1, <2>3 DEF RunOf, PlanInv
  <2> QED
    BY <2>1, <2>2, <2>3, <2>4, GoalKept DEF PartInv
<1> QED
  BY <1>4, <1>5, <1>6, <1>7 DEF PartInv

(* A file is written: its list is then as it is in memory.                  *)
LEMMA SaveKeepsPart ==
  ASSUME Inv, ListsInv, PartInv, Save, ~SaveFails
  PROVE  PartInv'
<1>1. /\ UNCHANGED <<mem, options, todo, started, command, properties, before>>
      /\ SaveProjectFile \/ (\E c \in toSave : SaveConfigurationFile(c)) \/ Saved
  BY DEF Save, migrationVars, SaveProjectFile, SaveConfigurationFile, Saved
<1>2. /\ pc \in {"save", "saveConfigurations"} /\ outcome = "none" /\ toSave \subseteq Configurations
      /\ disk \in Files /\ mem \in Files
  BY <1>1 DEF SaveProjectFile, SaveConfigurationFile, Saved, Inv, StateInv, TypeOK
<1>3. Running /\ outcome' # "notSaved"
  BY <1>1, <1>2 DEF SaveProjectFile, SaveConfigurationFile, Saved, Running
<1>4. FilesOf(disk) \subseteq FilesOf(mem)
  BY <1>3 DEF ListsInv, FilesReadInv
<1>5. /\ FilesOf(mem) # {} => mem.project = disk.project
      /\ \A c \in Configurations : Enabled(disk, c) \in {Enabled(started, c), Enabled(mem, c)}
  BY <1>3 DEF PartInv, DiskListsInv
<1>6. GoalInv'
  BY <1>1, <1>3 DEF PartInv, GoalInv, LeftOf, Left
<1>7. MemoryListsInv'
  <2>1. \A w : NewVersion(w)' <=> NewVersion(w)
    BY <1>1 DEF NewVersion, LeftOf, Left
  <2>2. \A c, w : ListIn(mem, c, w)' <=> ListIn(mem, c, w)
    BY <1>1 DEF ListIn, Migrated, OneList
  <2> QED
    BY <1>1, <1>3, <2>1, <2>2 DEF PartInv, MemoryListsInv
<1>8. /\ FilesOf(mem) # {} => mem.project = disk'.project
      /\ \A c \in Configurations : Enabled(disk', c) \in {Enabled(started, c), Enabled(mem, c)}
  <2>1. CASE SaveProjectFile
    <3>1. disk'.project = mem.project /\ disk'.config = disk.config
      BY <1>2, <2>1 DEF SaveProjectFile, Files
    <3>2. CASE FilesOf(mem) = {}
      <4>1. \A c \in Configurations : disk'.config[c] = Missing /\ mem.config[c] = Missing
        BY <1>4, <3>1, <3>2 DEF FilesOf
      <4> QED
        BY <3>1, <3>2, <4>1 DEF Enabled, GetProperty
    <3>3. CASE FilesOf(mem) # {}
      <4>1. disk'.project = disk.project
        BY <1>5, <3>1, <3>3
      <4>2. \A c \in Configurations : Enabled(disk', c) = Enabled(disk, c)
        BY <3>1, <4>1 DEF Enabled, GetProperty
      <4> QED
        BY <1>5, <3>1, <4>2
    <3> QED
      BY <3>2, <3>3
  <2>2. CASE \E c \in toSave : SaveConfigurationFile(c)
    <3>1. PICK c \in toSave : SaveConfigurationFile(c)
      BY <2>2
    <3>2. c \in Configurations
      BY <1>2
    <3>3. CASE disk.config[c] # Missing /\ mem.config[c] # Missing
      <4>1. disk' = [disk EXCEPT !.config[c] = mem.config[c]]
        BY <3>1, <3>3 DEF SaveConfigurationFile
      <4>2. /\ disk'.project = disk.project /\ disk'.config[c] = mem.config[c]
            /\ \A k \in Configurations : k # c => disk'.config[k] = disk.config[k]
        BY <1>2, <3>2, <4>1 DEF Files
      <4>3. mem.project = disk.project
        BY <1>5, <3>2, <3>3 DEF FilesOf
      <4>4. Enabled(disk', c) = Enabled(mem, c)
        BY <4>2, <4>3 DEF Enabled, GetProperty
      <4>5. \A k \in Configurations : k # c => Enabled(disk', k) = Enabled(disk, k)
        BY <4>2 DEF Enabled, GetProperty
      <4> QED
        BY <1>5, <4>2, <4>4, <4>5
    <3>4. CASE ~(disk.config[c] # Missing /\ mem.config[c] # Missing)
      <4>1. disk' = disk
        BY <3>1, <3>4 DEF SaveConfigurationFile
      <4> QED
        BY <1>5, <4>1
    <3> QED
      BY <3>3, <3>4
  <2>3. CASE Saved
    <3>1. disk' = disk
      BY <2>3 DEF Saved
    <3> QED
      BY <1>5, <3>1
  <2> QED
    BY <1>1, <2>1, <2>2, <2>3
<1>9. DiskListsInv'
  BY <1>1, <1>8 DEF DiskListsInv, FilesOf
<1>10. NotSavedInv'
  BY <1>3 DEF NotSavedInv
<1> QED
  BY <1>6, <1>7, <1>9, <1>10 DEF PartInv

(* A write fails. *)
LEMMA SaveFailsKeepsPart ==
  ASSUME Inv, PartInv, SaveFails, UNCHANGED migrationVars
  PROVE  PartInv'
<1>1. /\ pc \in {"save", "saveConfigurations"} /\ pc' = "done" /\ outcome' = "notSaved"
      /\ UNCHANGED <<disk, mem, options, started, command, saved, before>>
  BY DEF SaveFails, FailAs, migrationVars
<1>2. Running /\ StateInv /\ UnsavedInv
  BY <1>1 DEF Running, Inv
<1>3. CASE Unsaved
  <2>1. EnabledKept'
    BY <1>1, <1>2, <1>3 DEF UnsavedInv, EnabledKept
  <2>2. saved'.framework = before'.properties.framework /\ (AcceleratesLate => saved'.sdk = before'.properties.sdk)
    BY <1>1, <1>2, <1>3 DEF UnsavedInv
  <2> QED
    BY <1>1, <2>1, <2>2 DEF PartInv, GoalInv, MemoryListsInv, DiskListsInv, NotSavedInv, Running
<1>4. CASE ~Unsaved
  <2>1. pc = "saveConfigurations" /\ todo = <<>>
    BY <1>1, <1>4 DEF Unsaved
  <2>2. Left = {} /\ properties = saved
    BY <1>2, <2>1 DEF Left, Range, StateInv
  <2>3. /\ command.property = "FrameworkVersion" => saved.framework = command.value
        /\ command.property = "WPSdk" => saved.sdk = command.value
    BY <1>2, <2>2 DEF PartInv, GoalInv
  <2>4. ASSUME NEW c \in Configurations
        PROVE  ListIn(disk, c, saved.framework)
    <3>1. Enabled(disk, c) = Enabled(started, c) \/ Enabled(disk, c) = Enabled(mem, c)
      BY <1>2 DEF PartInv, DiskListsInv
    <3>2. CASE Enabled(disk, c) = Enabled(started, c)
      BY <3>2 DEF ListIn
    <3>3. CASE Enabled(disk, c) = Enabled(mem, c)
      <4>1. CASE \A k \in Configurations : Enabled(mem, k) = Enabled(started, k)
        BY <3>3, <4>1 DEF ListIn
      <4>2. CASE \E w \in FrameworkVersions : NewVersion(w) /\ \A k \in Configurations : ListIn(mem, k, w)
        <5>1. PICK w \in FrameworkVersions : NewVersion(w) /\ ListIn(mem, c, w)
          BY <4>2
        <5>2. w = saved.framework
          BY <2>2, <5>1 DEF NewVersion, LeftOf
        <5> QED
          BY <3>3, <5>1, <5>2 DEF ListIn
      <4> QED
        BY <1>2, <4>1, <4>2 DEF PartInv, MemoryListsInv
    <3> QED
      BY <3>1, <3>2, <3>3
  <2>5. \A c \in Configurations : ListIn(disk, c, saved.framework)'
    BY <1>1, <2>4 DEF ListIn, Migrated, OneList
  <2> QED
    BY <1>1, <2>3, <2>5 DEF PartInv, GoalInv, MemoryListsInv, DiskListsInv, NotSavedInv, Running
<1> QED
  BY <1>3, <1>4

(* A command starts: its goal is to be set, and nothing is changed yet. *)
LEMMA StartKeepsPart ==
  ASSUME Inv,
         \/ \E version \in FrameworkVersions, opts \in SUBSET {Debug, Release} : SetFrameworkStart(version, opts)
         \/ \E sdk \in Sdks, opts \in SUBSET {Debug, Release} : SetSdkStart(sdk, opts)
  PROVE  PartInv'
<1>1. StateInv /\ disk \in Files
  BY DEF Inv, StateInv, TypeOK
<1>2. PICK opts \in SUBSET {Debug, Release} :
        \/ \E version \in FrameworkVersions : SetFrameworkStart(version, opts)
        \/ \E sdk \in Sdks : SetSdkStart(sdk, opts)
  OBVIOUS
<1>3. pc = "idle" /\ ReadProject(opts) /\ outcome' = outcome
  BY <1>2 DEF SetFrameworkStart, SetSdkStart
<1>4. mem' = disk' /\ EnabledKept' /\ outcome' # "notSaved"
  BY <1>1, <1>3, ReadsFiles DEF StateInv
<1>5. MemoryListsInv' /\ DiskListsInv' /\ NotSavedInv'
  BY <1>4 DEF MemoryListsInv, DiskListsInv, NotSavedInv, EnabledKept
<1>6. CASE \E version \in FrameworkVersions : SetFrameworkStart(version, opts)
  <2>1. PICK version \in FrameworkVersions : SetFrameworkStart(version, opts)
    BY <1>6
  <2>2. command'.property = "FrameworkVersion" /\ command'.value = version
    BY <2>1 DEF SetFrameworkStart
  <2>3. Step("framework", version) \in Left'
    BY <1>1, <2>1, FrameworkStartFits
  <2> QED
    BY <1>5, <2>2, <2>3 DEF PartInv, GoalInv
<1>7. CASE \E sdk \in Sdks : SetSdkStart(sdk, opts)
  <2>1. PICK sdk \in Sdks : SetSdkStart(sdk, opts)
    BY <1>7
  <2>2. command'.property = "WPSdk" /\ command'.value = sdk
    BY <2>1 DEF SetSdkStart
  <2>3. Step("wpsdk", sdk) \in Left'
    BY <1>1, <2>1, SdkStartFits
  <2> QED
    BY <1>5, <2>2, <2>3 DEF PartInv, GoalInv
<1> QED
  BY <1>2, <1>6, <1>7

LEMMA PartInit == Init => PartInv
<1> SUFFICES ASSUME Init PROVE PartInv
  OBVIOUS
<1>1. pc = "idle" /\ outcome = "none"
  BY DEF Init, InitFiles
<1> QED
  BY <1>1 DEF PartInv, GoalInv, MemoryListsInv, DiskListsInv, NotSavedInv, Running

LEMMA PartNext == Inv /\ ListsInv /\ PartInv /\ [Next]_allVars => PartInv'
<1> SUFFICES ASSUME Inv, ListsInv, PartInv, [Next]_allVars PROVE PartInv'
  OBVIOUS
<1>1. CASE \/ \E version \in FrameworkVersions, opts \in SUBSET {Debug, Release} : SetFrameworkStart(version, opts)
           \/ \E sdk \in Sdks, opts \in SUBSET {Debug, Release} : SetSdkStart(sdk, opts)
  BY <1>1, StartKeepsPart
<1>2. CASE \/ ChangeSdk \/ AskAboutPlugins \/ Accelerate \/ BackUpJs \/ CopyJs \/ DeleteBackups
           \/ SetFramework \/ SetSdk \/ SaveAll
  BY <1>2, StepKeepsPart
<1>3. CASE MigrateLists
  BY <1>3, MigrateListsKeepsPart
<1>4. CASE Save /\ ~SaveFails
  BY <1>4, SaveKeepsPart
<1>5. CASE Save /\ SaveFails
  <2>1. UNCHANGED migrationVars
    BY <1>5 DEF Save, SaveFails, FailAs, SaveProjectFile, SaveConfigurationFile, Saved, migrationVars
  <2> QED
    BY <1>5, <2>1, SaveFailsKeepsPart
<1>6. CASE JsFails \/ RevertJs \/ Reverted \/ RevertFails \/ StepFails \/ End \/ RestoreJs
  <2>1. ~Running' /\ outcome' # "notSaved"
    <3>1. CASE JsFails \/ RevertJs
      <4>1. pc \in {"task", "revert"} /\ pc' = "revert" /\ outcome' = outcome
        BY <3>1 DEF JsFails, RevertJs, Reverting, At
      <4> QED
        BY <4>1 DEF Running, Inv, StateInv
    <3>2. CASE Reverted \/ RevertFails \/ StepFails
      BY <3>2 DEF Reverted, RevertFails, StepFails, Fail, FailAs, Running
    <3>3. CASE End
      BY <3>3 DEF End, Exit, Kill, Quit, Running
    <3>4. CASE RestoreJs
      BY <3>4 DEF RestoreJs, vars, Running, Inv, StateInv
    <3> QED
      BY <1>6, <3>1, <3>2, <3>3, <3>4
  <2> QED
    BY <2>1 DEF PartInv, GoalInv, MemoryListsInv, DiskListsInv, NotSavedInv
<1>7. CASE UNCHANGED allVars
  <2>1. UNCHANGED <<disk, mem, pc, options, todo, outcome, started, command, properties, saved, before>>
    BY <1>7 DEF allVars, vars, migrationVars
  <2>2. \A w : NewVersion(w)' <=> NewVersion(w)
    BY <2>1 DEF NewVersion, LeftOf, Left
  <2>3. \A c, w : (ListIn(mem, c, w)' <=> ListIn(mem, c, w)) /\ (ListIn(disk, c, w)' <=> ListIn(disk, c, w))
    BY <2>1 DEF ListIn, Migrated, OneList
  <2>4. GoalInv' <=> GoalInv
    BY <2>1 DEF GoalInv, Running, LeftOf, Left
  <2>5. MemoryListsInv' <=> MemoryListsInv
    BY <2>1, <2>2, <2>3 DEF MemoryListsInv, Running
  <2>6. DiskListsInv' <=> DiskListsInv
    BY <2>1 DEF DiskListsInv, Running, FilesOf
  <2>7. NotSavedInv' <=> NotSavedInv
    BY <2>1, <2>3 DEF NotSavedInv, EnabledKept
  <2> QED
    BY <2>4, <2>5, <2>6, <2>7 DEF PartInv
<1> QED
  BY <1>1, <1>2, <1>3, <1>4, <1>5, <1>6, <1>7 DEF Next

LEMMA SpecPart == Spec => []PartInv
<1>1. Init => PartInv
  BY PartInit
<1>2. Inv /\ ListsInv /\ PartInv /\ [Next]_allVars => PartInv'
  BY PartNext
<1> QED
  BY <1>1, <1>2, SpecInv, SpecLists, PTL DEF Spec

(* A command that fails leaves the project with the version, the SDK and    *)
(* the plugins it had, whatever it has saved on the way; and one that fails *)
(* while it writes the files, with those or with the change it was to make, *)
(* each list as it was or migrated to the version that is saved.  For       *)
(* migration data that settles and, because the acceleration is saved at    *)
(* once, for versions accelerated from one that the 8.1 SDK builds with:    *)
(* else an SDK that is lowered first would be saved along with it.          *)
THEOREM FailureKeepsProject == AcceleratesLate /\ MigrationSettles => (Spec => []FailedKeepsProject)
<1> SUFFICES ASSUME AcceleratesLate, MigrationSettles PROVE Spec => []FailedKeepsProject
  OBVIOUS
<1>1. ASSUME Inv, StartedInv, PartInv
      PROVE  FailedKeepsProject
  <2> DEFINE from == before.properties.framework
             to == saved.framework
             Once(plugins) == MigratePlugins(plugins, from, to)
  <2>1. outcome \in {"failed", "notReverted"} => Kept
    BY <1>1 DEF Inv, UnsavedInv, Unsaved, EnabledKept, Kept
  <2>2. ASSUME NEW c \in Configurations, to # from
        PROVE  Migrated(c, to) = Once(OrEmpty(Enabled(started, c)))
    <3>1. started \in Files /\ from \in FrameworkVersions /\ to \in FrameworkVersions
      BY <1>1 DEF Inv, StateInv, TypeOK, Properties, StartedInv
    <3>2. OrEmpty(Enabled(started, c)) \in SUBSET Records
      <4>1. Enabled(started, c) \in {Undefined} \cup SUBSET Records
        BY <3>1 DEF Enabled, GetProperty, Files, Data
      <4> QED
        BY <4>1 DEF OrEmpty
    <3> DEFINE list == OrEmpty(Enabled(started, c))
    <3> HIDE DEF list
    <3>3. Once(Once(list)) = Once(list)
      BY <2>2, <3>1, <3>2 DEF MigrationSettles, list
    <3>4. Migrated(c, to) = Once(list)
      BY <3>3 DEF Migrated, list
    <3> QED
      BY <3>4 DEF list
  <2>3. (\A c \in Configurations : ListIn(disk, c, to)) =>
          \A c \in Configurations :
            Enabled(disk, c) = Enabled(started, c) \/ (Changed /\ OrEmpty(Enabled(disk, c)) = Once(OrEmpty(Enabled(started, c))))
    BY <2>2 DEF ListIn, Changed
  <2>4. outcome = "notSaved" => Kept \/ PartlySaved
    BY <1>1, <2>3 DEF PartInv, NotSavedInv, EnabledKept, Kept, PartlySaved
  <2> QED
    BY <2>1, <2>4 DEF FailedKeepsProject
<1> QED
  BY <1>1, SpecInv, SpecBefore, SpecPart, PTL
=============================================================================
