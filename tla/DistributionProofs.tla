------------------------- MODULE DistributionProofs -------------------------
(***************************************************************************)
(* Proofs about Distribution: for any certificates, provisions and         *)
(* commands, what is removed is what was listed, what is built can be      *)
(* installed, and what is handed out fits whoever gets it.                 *)
(***************************************************************************)
EXTENDS Distribution, FiniteSetTheorems, TLAPS

(* The lists and the lookups.  A list holds each item once, as the items    *)
(* differ in how many are before them.                                     *)
LEMMA LeastNatural ==
  ASSUME NEW S \in SUBSET Nat, S # {}
  PROVE  Least(S) \in S
<1> DEFINE less == {ss \in Nat \X Nat : ss[1] < ss[2]}
<1>1. IsWellFoundedOn(less, Nat)
  BY NatLessThanWellFounded, Zenon DEF OpToRel
<1> HIDE DEF less
<1>2. PICK i \in S : \A j \in S : ~ (<<j, i>> \in less)
  BY <1>1, WFMin
<1>3. \A j \in S : ~ (j < i)
  BY <1>2 DEF less
<1>4. \A j \in S : i <= j
  BY <1>3
<1> QED
  BY <1>4 DEF Least

Preceding(x, S) == {y \in S : y < x}

LEMMA FewerPrecede ==
  ASSUME NEW S \in SUBSET Nat, IsFiniteSet(S), NEW x \in S
  PROVE  /\ Cardinality(Preceding(x, S)) + 1 \in 1..Cardinality(S)
         /\ \A w \in S : w < x => Cardinality(Preceding(w, S)) < Cardinality(Preceding(x, S))
<1>1. IsFiniteSet(Preceding(x, S)) /\ Cardinality(Preceding(x, S)) \in Nat /\ Cardinality(S) \in Nat
  BY FS_Subset, FS_CardinalityType DEF Preceding
<1>2. Preceding(x, S) \in SUBSET S /\ Preceding(x, S) # S
  BY DEF Preceding
<1>3. Cardinality(Preceding(x, S)) <= Cardinality(S) /\ Cardinality(Preceding(x, S)) # Cardinality(S)
  BY <1>2, FS_Subset
<1>4. ASSUME NEW w \in S, w < x
      PROVE  Cardinality(Preceding(w, S)) < Cardinality(Preceding(x, S))
  <2>1. Preceding(w, S) \in SUBSET Preceding(x, S) /\ Preceding(w, S) # Preceding(x, S)
    <3>1. w \in Preceding(x, S) /\ w \notin Preceding(w, S)
      BY <1>4 DEF Preceding
    <3>2. \A y \in Preceding(w, S) : y \in Preceding(x, S)
      BY <1>4 DEF Preceding
    <3> QED
      BY <3>1, <3>2
  <2>2. IsFiniteSet(Preceding(w, S)) /\ Cardinality(Preceding(w, S)) \in Nat
    BY <1>1, <2>1, FS_Subset, FS_CardinalityType
  <2>3. /\ Cardinality(Preceding(w, S)) <= Cardinality(Preceding(x, S))
        /\ Cardinality(Preceding(w, S)) # Cardinality(Preceding(x, S))
    BY <1>1, <2>1, FS_Subset
  <2> QED
    BY <1>1, <2>2, <2>3
<1> QED
  BY <1>1, <1>3, <1>4

LEMMA ListedItems ==
  ASSUME NEW S \in SUBSET Nat, IsFiniteSet(S)
  PROVE  Listed(S) \in [1..Cardinality(S) -> S] /\ ToSet(Listed(S)) = S
<1> DEFINE n == Cardinality(S)
           rank == [x \in S |-> Cardinality(Preceding(x, S)) + 1]
<1>1. n \in Nat /\ IsFiniteSet(1..n) /\ Cardinality(1..n) = n
  BY FS_CardinalityType, FS_Interval
<1>2. rank \in [S -> 1..n]
  BY FewerPrecede
<1>3. ASSUME NEW x \in S, NEW w \in S, rank[x] = rank[w]
      PROVE  x = w
  <2>1. x < w \/ w < x \/ x = w
    OBVIOUS
  <2>2. \A y \in S : Cardinality(Preceding(y, S)) \in Nat
    BY FS_Subset, FS_CardinalityType DEF Preceding
  <2> QED
    BY <1>3, <2>1, <2>2, FewerPrecede
<1>4. rank \in Injection(S, 1..n)
  BY <1>2, <1>3 DEF Injection, IsInjective
<1>5. rank \in Surjection(S, 1..n)
  BY <1>1, <1>4, FS_Injection
<1>6. \A i \in 1..n : \E x \in S : rank[x] = i
  BY <1>5 DEF Surjection
<1>7. \A i \in 1..n : \E x \in S : Cardinality(Preceding(x, S)) = i - 1
  <2>1. \A y \in S : Cardinality(Preceding(y, S)) \in Nat
    BY FS_Subset, FS_CardinalityType DEF Preceding
  <2> QED
    BY <1>1, <1>6, <2>1
<1>8. Listed(S) = [i \in 1..n |-> CHOOSE x \in S : Cardinality(Preceding(x, S)) = i - 1]
  BY DEF Listed, Preceding
<1>9. ASSUME NEW i \in 1..n
      PROVE  Listed(S)[i] \in S /\ Cardinality(Preceding(Listed(S)[i], S)) = i - 1
  BY <1>7, <1>8
<1>10. ASSUME NEW x \in S
       PROVE  \E i \in 1..n : Listed(S)[i] = x
  <2>1. rank[x] \in 1..n
    BY <1>2
  <2>2. rank[Listed(S)[rank[x]]] = rank[x] /\ Listed(S)[rank[x]] \in S
    <3>1. Cardinality(Preceding(x, S)) \in Nat
      BY FS_Subset, FS_CardinalityType DEF Preceding
    <3> QED
      BY <1>9, <2>1, <3>1
  <2> QED
    BY <1>3, <2>1, <2>2
<1> QED
  BY <1>8, <1>9, <1>10 DEF ToSet

(* findByNameOrIndex finds at most one item, of those there are; the name   *)
(* of an item finds it; and a number that no name begins with, the item     *)
(* that the list shows at that number.                                     *)
LEMMA FoundIsOne ==
  ASSUME NEW names \in SUBSET Nat, IsFiniteSet(names), NEW typed, NEW x \in FindByNameOrIndex(typed, names)
  PROVE  /\ x \in names /\ FindByNameOrIndex(typed, names) = {x}
         /\ names \cap typed.beginning = {} => x = Listed(names)[typed.index]
<1>1. names \cap typed.beginning # {} => Least(names \cap typed.beginning) \in names \cap typed.beginning
  BY LeastNatural
<1>2. \A i \in 1..Cardinality(names) : Listed(names)[i] \in names
  BY ListedItems
<1> QED
  BY <1>1, <1>2 DEF FindByNameOrIndex

LEMMA FoundByName ==
  ASSUME NEW names \in SUBSET Nat, NEW x \in names
  PROVE  FindByNameOrIndex(Exactly(x), names) = {x}
<1>1. names \cap {x} = {x} /\ Least({x}) = x
  BY DEF Least
<1> QED
  BY <1>1 DEF FindByNameOrIndex, Exactly


--------------------------------------------------------------------------
(* Types, of the store and the files ... *)
StoreInv ==
  /\ identities \subseteq Aliases /\ provisions \subseteq Names
  /\ IsFiniteSet(identities) /\ IsFiniteSet(provisions) /\ IsFiniteSet(DOMAIN requests)
  /\ requests \in [DOMAIN requests -> SUBSET Arguments] /\ DOMAIN requests \subseteq RequestNames
  /\ changes \in 0..MaxChanges /\ stale \in BOOLEAN
  /\ files \subseteq LocalFiles

LEMMA FoundInStore ==
  ASSUME StoreInv, NEW typed
  PROVE  /\ \A c \in FindCertificate(typed) : c \in identities /\ FindCertificate(typed) = {c}
         /\ \A p \in FindProvision(typed) : p \in provisions /\ FindProvision(typed) = {p}
         /\ \A n \in ParseCertificateIndex(typed.index) : n \in DOMAIN requests
<1>1. identities \in SUBSET Nat /\ provisions \in SUBSET Nat /\ DOMAIN requests \in SUBSET Nat
  BY StoreAssumption, IdentityCommandsAssumption DEF StoreInv
<1>2. IsFiniteSet(identities) /\ IsFiniteSet(provisions) /\ IsFiniteSet(DOMAIN requests)
  BY DEF StoreInv
<1>3. \A n \in ParseCertificateIndex(typed.index) : n \in DOMAIN requests
  <2>1. \A i \in 1..Cardinality(DOMAIN requests) : Listed(DOMAIN requests)[i] \in DOMAIN requests
    <3> HIDE DEF Listed
    <3> DEFINE S == DOMAIN requests
    <3>1. Listed(S) \in [1..Cardinality(S) -> S]
      BY <1>1, <1>2, ListedItems
    <3> QED
      BY <3>1
  <2> QED
    BY <2>1 DEF ParseCertificateIndex
<1> QED
  BY <1>1, <1>2, <1>3, FoundIsOne DEF FindCertificate, FindProvision

LEMMA StoreInit == Init => StoreInv
<1> SUFFICES ASSUME Init
             PROVE  StoreInv
  OBVIOUS
<1>1. PICK s \in Stores : identities = s.identities /\ provisions = s.provisions
  BY DEF Init
<1>2. requests = [n \in InitialRequests |-> Subject] /\ changes = 0 /\ stale = FALSE /\ files = InitialFiles
  BY DEF Init
<1>3. /\ identities \subseteq Aliases /\ provisions \subseteq Names
      /\ IsFiniteSet(identities) /\ IsFiniteSet(provisions)
  BY <1>1, StoreAssumption
<1>4. /\ DOMAIN requests = InitialRequests /\ IsFiniteSet(InitialRequests) /\ InitialRequests \subseteq RequestNames
      /\ requests \in [DOMAIN requests -> SUBSET Arguments]
  BY <1>2, DistributionAssumption DEF Arguments
<1>5. stale \in BOOLEAN /\ files \subseteq LocalFiles
  BY <1>2, IdentityCommandsAssumption
<1>6. changes \in 0..MaxChanges
  BY <1>2, MaxChangesAssumption
<1> QED
  BY <1>3, <1>4, <1>5, <1>6 DEF StoreInv

LEMMA StoreAdds ==
  ASSUME StoreInv
  PROVE  /\ \A c \in Aliases : identities \cup {c} \subseteq Aliases /\ IsFiniteSet(identities \cup {c})
         /\ \A c : identities \ {c} \subseteq Aliases /\ IsFiniteSet(identities \ {c})
         /\ \A p \in Names : provisions \cup {p} \subseteq Names /\ IsFiniteSet(provisions \cup {p})
         /\ \A p : provisions \ {p} \subseteq Names /\ IsFiniteSet(provisions \ {p})
<1>1. IsFiniteSet(identities) /\ IsFiniteSet(provisions)
  BY DEF StoreInv
<1> QED
  BY <1>1, FS_AddElement, FS_RemoveElement DEF StoreInv

LEMMA StoreCounts == ASSUME StoreInv, Change PROVE changes' \in 0..MaxChanges
BY MaxChangesAssumption DEF StoreInv, Change

LEMMA StoreStep ==
  ASSUME StoreInv, IdentityStep
  PROVE  StoreInv'
<1>1. /\ UNCHANGED <<identities, provisions, requests, files>> /\ stale' = FALSE
      /\ changes' = changes \/ Change
  <2>1. ASSUME NEW kind \in {"certificate", "provision", "certificate-request"},
               List(kind) \/ \E t \in Typed, force \in BOOLEAN : StartRemove(kind, t, force)
        PROVE  /\ UNCHANGED <<identities, provisions, requests, files>> /\ stale' = FALSE
               /\ changes' = changes \/ Change
    BY <2>1 DEF List, StartRemove, Start, local
  <2>2. ASSUME NEW t \in Typed, ListProvision(t) \/ StartExport(t) \/ StartDownload(t.index)
        PROVE  /\ UNCHANGED <<identities, provisions, requests, files>> /\ stale' = FALSE
               /\ changes' = changes \/ Change
    BY <2>2 DEF ListProvision, StartExport, StartDownload, Start, local
  <2>3. ASSUME NEW extension, StartImport(extension)
        PROVE  /\ UNCHANGED <<identities, provisions, requests, files>> /\ stale' = FALSE
               /\ changes' = changes \/ Change
    BY <2>3 DEF StartImport, Start, local
  <2>4. ASSUME NEW exists, ImportProvision(exists)
        PROVE  /\ UNCHANGED <<identities, provisions, requests, files>> /\ stale' = FALSE
               /\ changes' = changes \/ Change
    BY <2>4 DEF ImportProvision, Start, local
  <2>5. ASSUME NEW given, CreateSelfSigned(given) \/ CreateRequest(given)
        PROVE  /\ UNCHANGED <<identities, provisions, requests, files>> /\ stale' = FALSE
               /\ changes' = changes \/ Change
    BY <2>5 DEF CreateSelfSigned, CreateRequest, Start, local
  <2> QED
    BY <2>1, <2>2, <2>3, <2>4, <2>5 DEF IdentityStep
<1>2. changes' \in 0..MaxChanges
  BY <1>1, StoreCounts DEF StoreInv
<1> QED
  BY <1>1, <1>2 DEF StoreInv

LEMMA StoreProgress ==
  ASSUME StoreInv, IdentityProgress
  PROVE  StoreInv'
<1>1. CASE \/ ValidateProvisionId \/ FindProvisionToRemove \/ FindToRemove \/ Contents
           \/ FindToDownload \/ IdentityCallFails
  BY <1>1 DEF ValidateProvisionId, FindProvisionToRemove, FindToRemove, Contents, FindToDownload,
              IdentityCallFails, store, local, StoreInv
<1>2. CASE RemoveItem
  <2>1. /\ identities' \in {identities, identities \ {cli.item}}
        /\ provisions' \in {provisions, provisions \ {cli.item}}
        /\ requests' \in {requests, Restrict(requests, DOMAIN requests \ {cli.item})}
        /\ UNCHANGED <<changes, stale, files>>
    BY <1>2 DEF RemoveItem
  <2>2. identities' \subseteq Aliases /\ IsFiniteSet(identities') /\ provisions' \subseteq Names /\ IsFiniteSet(provisions')
    BY <2>1, StoreAdds DEF StoreInv
  <2>3. IsFiniteSet(DOMAIN requests \ {cli.item})
    BY FS_RemoveElement DEF StoreInv
  <2>4. /\ IsFiniteSet(DOMAIN requests') /\ requests' \in [DOMAIN requests' -> SUBSET Arguments]
        /\ DOMAIN requests' \subseteq RequestNames
    BY <2>1, <2>3 DEF Restrict, StoreInv
  <2> QED
    BY <2>1, <2>2, <2>4 DEF StoreInv
<1>3. CASE FindToExport \/ DownloadRequest
  <2>1. UNCHANGED store
    BY <1>3 DEF FindToExport, DownloadRequest
  <2>2. files' \subseteq LocalFiles
    <3>1. CASE FindToExport
      <4>1. \A c \in FindCertificate(cli.typed) : c \in Aliases
        BY FoundInStore DEF StoreInv
      <4>2. files' = files \/ \E c \in FindCertificate(cli.typed) : files' = files \cup {<<"export", c>>}
        BY <3>1 DEF FindToExport
      <4> QED
        BY <4>1, <4>2 DEF StoreInv, LocalFiles
    <3>2. CASE DownloadRequest
      <4>1. files' = files \/ \E n \in SaveTo : files' = files \cup {<<"saveTo", n>>}
        BY <3>2 DEF DownloadRequest
      <4> QED
        BY <4>1 DEF StoreInv, LocalFiles
    <3> QED
      BY <1>3, <3>1, <3>2
  <2> QED
    BY <2>1, <2>2 DEF StoreInv, store
<1>4. CASE Import \/ GenerateSelfSigned
  <2>1. /\ UNCHANGED <<provisions, requests, changes, stale, files>>
        /\ identities' = identities \/ \E c \in Aliases : identities' = identities \cup {c}
    BY <1>4 DEF Import, GenerateSelfSigned, local
  <2>2. identities' \subseteq Aliases /\ IsFiniteSet(identities')
    BY <2>1, StoreAdds DEF StoreInv
  <2> QED
    BY <2>1, <2>2 DEF StoreInv
<1>5. CASE ImportedProvision
  <2>1. /\ UNCHANGED <<identities, requests, changes, stale, files>>
        /\ \E p \in Names : provisions' = provisions \cup {p}
    BY <1>5 DEF ImportedProvision
  <2>2. provisions' \subseteq Names /\ IsFiniteSet(provisions')
    BY <2>1, StoreAdds
  <2> QED
    BY <2>1, <2>2 DEF StoreInv
<1>6. CASE GenerateRequest
  <2>1. PICK n \in RequestNames \ DOMAIN requests :
          requests' = [m \in DOMAIN requests \cup {n} |->
                        IF m = n THEN GatherIdentityInformation(cli.given) ELSE requests[m]]
    BY <1>6 DEF GenerateRequest
  <2>2. UNCHANGED <<identities, provisions, changes, stale, files>>
    BY <1>6 DEF GenerateRequest
  <2>3. IsFiniteSet(DOMAIN requests \cup {n})
    BY FS_AddElement DEF StoreInv
  <2>4. GatherIdentityInformation(cli.given) \in SUBSET Arguments
    BY DEF GatherIdentityInformation, Arguments
  <2> QED
    BY <2>1, <2>2, <2>3, <2>4 DEF StoreInv
<1> QED
  BY <1>1, <1>2, <1>3, <1>4, <1>5, <1>6 DEF IdentityProgress

LEMMA BuildCommandStarts ==
  ASSUME BuildCommand
  PROVE  \E command, opts : StartWith(command, opts)
<1>1. PICK opts \in OptionSets, platform \in Platforms :
        \/ \E companion \in BOOLEAN, download \in BOOLEAN, simulator \in BOOLEAN :
             Build(platform, opts, companion, download, simulator)
        \/ Emulate(platform, opts)
        \/ \E devices \in SUBSET Devices \ {{}} : Deploy(platform, opts, devices)
        \/ \E download \in BOOLEAN, group \in BOOLEAN : AppManagerUpload(platform, opts, download, group)
        \/ platform = "iOS" /\ AppStoreUpload(opts)
  BY DEF BuildCommand
<1>2. ASSUME NEW companion, NEW download, NEW simulator, Build(platform, opts, companion, download, simulator)
      PROVE  \E command : StartWith(command, opts)
  BY <1>2, Zenon DEF Build
<1>3. ASSUME Emulate(platform, opts)
      PROVE  \E command : StartWith(command, opts)
  BY <1>3, Zenon DEF Emulate
<1>4. ASSUME NEW devices, Deploy(platform, opts, devices)
      PROVE  \E command : StartWith(command, opts)
  BY <1>4, Zenon DEF Deploy
<1>5. ASSUME NEW download, NEW group, AppManagerUpload(platform, opts, download, group)
      PROVE  \E command : StartWith(command, opts)
  BY <1>5, Zenon DEF AppManagerUpload
<1>6. ASSUME AppStoreUpload(opts)
      PROVE  \E command : StartWith(command, opts)
  BY <1>6, Zenon DEF AppStoreUpload
<1> QED
  BY <1>1, <1>2, <1>3, <1>4, <1>5, <1>6

LEMMA StoreNext ==
  ASSUME StoreInv, [Next]_vars
  PROVE  StoreInv'
<1>1. CASE IdentityStep
  BY <1>1, StoreStep
<1>2. CASE IdentityProgress
  BY <1>2, StoreProgress
<1>3. CASE BuildCommand
  <2>1. UNCHANGED <<identities, provisions, requests, changes, files>> /\ stale' = FALSE
    <3>1. ASSUME NEW command, NEW opts, StartWith(command, opts)
          PROVE  UNCHANGED <<identities, provisions, requests, changes, files>> /\ stale' = FALSE
      BY <3>1 DEF StartWith, Start, local
    <3> QED
      BY <1>3, <3>1, BuildCommandStarts
  <2> QED
    BY <2>1 DEF StoreInv
<1>4. CASE \E debug \in BOOLEAN, enabled \in LivePatchIn : PublishLivePatch(debug, enabled)
  <2>1. UNCHANGED <<identities, provisions, requests, changes, files>> /\ stale' = FALSE
    BY <1>4 DEF PublishLivePatch, Start, local
  <2> QED
    BY <2>1 DEF StoreInv
<1>5. CASE BuildProgress
  <2>1. UNCHANGED store /\ UNCHANGED files
    <3>1. CASE \/ DeployToIon \/ BuildEnds \/ DeployEnds \/ VerifyStoreCreated \/ BuiltForUpload
               \/ FindGroups \/ UploadApplication \/ CheckProvision
               \/ ConfigureLivePatchPlugin \/ UploadPatch
      BY <3>1 DEF DeployToIon, BuildEnds, Built, DeployEnds, VerifyStoreCreated, BuiltForUpload, FindGroups,
                  UploadApplication, CheckProvision, ConfigureLivePatchPlugin, UploadPatch, Others, local
    <3>2. ASSUME NEW f \in Fibers, DeployTo(f) \/ PackageBuilt(f) \/ ReinstallApplication(f)
          PROVE  UNCHANGED store /\ UNCHANGED files
      BY <3>2 DEF DeployTo, PackageBuilt, ReinstallApplication, Others, local
    <3>3. ASSUME NEW f \in Fibers, BuildStep(f), UNCHANGED local
          PROVE  UNCHANGED store /\ UNCHANGED files
      BY <3>3 DEF BuildStep, Request, Android, FindProvisionOption, SelectProvision, FallBackToDevelopment,
                  FindCertificateOption, SelectCertificate, SimulatorCertificate, ThrowIfInvalid, BuildProject,
                  Deliver, BuildFails, Only, local
    <3> QED
      BY <1>5, <3>1, <3>2, <3>3 DEF BuildProgress
  <2> QED
    BY <2>1 DEF StoreInv, store
<1>6. CASE CommandExit
  BY <1>6 DEF CommandExit, StoreInv, store
<1>7. CASE PortalChange /\ UNCHANGED <<local, buildVars>>
  <2>1. UNCHANGED <<requests, files>> /\ stale' = (cli.pc # "idle") /\ Change
    BY <1>7 DEF PortalChange, local
  <2>2. \/ \E c \in Aliases : identities' \in {identities \cup {c}, identities \ {c}} /\ UNCHANGED provisions
        \/ \E p \in Names : provisions' \in {provisions \cup {p}, provisions \ {p}} /\ UNCHANGED identities
    BY <1>7 DEF PortalChange, StoreInv
  <2>3. identities' \subseteq Aliases /\ IsFiniteSet(identities') /\ provisions' \subseteq Names /\ IsFiniteSet(provisions')
    BY <2>2, StoreAdds DEF StoreInv
  <2>4. changes' \in 0..MaxChanges
    BY <2>1, StoreCounts
  <2> QED
    BY <2>1, <2>3, <2>4 DEF StoreInv
<1>8. CASE UNCHANGED vars
  BY <1>8 DEF vars, store, local, StoreInv
<1> QED
  BY <1>1, <1>2, <1>3, <1>4, <1>5, <1>6, <1>7, <1>8 DEF Next, Progress

(* A command that goes on keeps what it was started with. *)
Named == {"name", "pc"} \subseteq DOMAIN cli

LEMMA GotoKeeps ==
  ASSUME NEW v, "pc" \in DOMAIN cli, Goto(v)
  PROVE  DOMAIN cli' = DOMAIN cli /\ cli'.pc = v /\ \A x \in DOMAIN cli : x # "pc" => cli'[x] = cli[x]
BY Zenon DEF Goto

(* The steps of the commands that manage the store, and of those that      *)
(* build, are told apart by where the command is.                          *)
IdentityPcs == ServerCalls \cup {"import"}
BuilderPcs == {"ion", "verifyStore", "checkProvision", "building", "groups", "upload",
               "configureLivePatch", "uploadPatch"}
Ended == {"ok", "failed"}

LEMMA IdentityMoves ==
  ASSUME Named, IdentityProgress
  PROVE  Named' /\ cli'.name = cli.name /\ cli.pc \in IdentityPcs /\ cli'.pc \in IdentityPcs \cup Ended
<1>1. ASSUME NEW v \in Ended, Finish(v)
      PROVE  Named' /\ cli'.name = cli.name /\ cli'.pc \in Ended
  BY <1>1 DEF Finish, Named
<1>2. ASSUME NEW v \in IdentityPcs, Goto(v)
      PROVE  Named' /\ cli'.name = cli.name /\ cli'.pc \in IdentityPcs
  BY <1>2, GotoKeeps, Zenon DEF Named
<1>3. ASSUME NEW i, cli' = Found(i)
      PROVE  Named' /\ cli'.name = cli.name /\ cli'.pc \in IdentityPcs
  <2>1. DOMAIN cli' = DOMAIN cli /\ cli'.pc = "remove" /\ cli'.name = cli.name
    BY <1>3, Zenon DEF Found, Named
  <2> QED
    BY <2>1 DEF Named, IdentityPcs, ServerCalls
<1> USE DEF IdentityPcs, ServerCalls, Ended
<1>4. CASE ValidateProvisionId \/ FindProvisionToRemove \/ FindToRemove
  BY <1>1, <1>2, <1>3, <1>4 DEF ValidateProvisionId, FindProvisionToRemove, FindToRemove, In
<1>5. CASE RemoveItem \/ FindToExport \/ Contents \/ ImportedProvision \/ GenerateSelfSigned \/ DownloadRequest
           \/ IdentityCallFails
  BY <1>1, <1>2, <1>5 DEF RemoveItem, FindToExport, Contents, ImportedProvision, GenerateSelfSigned, In,
                          DownloadRequest, IdentityCallFails
<1>6. CASE Import
  <2>1. ASSUME cli' = [cli EXCEPT !.attempt = @ + 1]
        PROVE  DOMAIN cli' = DOMAIN cli /\ cli'.pc = cli.pc /\ cli'.name = cli.name
    BY <2>1, Zenon DEF Named
  <2> QED
    BY <1>1, <1>6, <2>1 DEF Import, In, Named
<1>7. CASE GenerateRequest
  <2>1. PICK n : cli' = [name |-> "create-request", pc |-> "download", item |-> n]
    BY <1>7, Zenon DEF GenerateRequest
  <2> QED
    BY <1>7, <2>1 DEF GenerateRequest, In, Named
<1>8. CASE FindToDownload
  <2>1. Finish("failed") \/ \E n : cli' = [name |-> "download", pc |-> "download", item |-> n]
    BY <1>8, Zenon DEF FindToDownload
  <2>2. cli.name = "download" /\ cli.pc = "find"
    BY <1>8 DEF FindToDownload, In
  <2> QED
    BY <1>1, <2>1, <2>2 DEF Named
<1> QED
  BY <1>4, <1>5, <1>6, <1>7, <1>8 DEF IdentityProgress

LEMMA IdentityStarts ==
  ASSUME IdentityStep
  PROVE  /\ Named' /\ cli.pc = "idle" /\ cli'.pc \in IdentityPcs \cup Ended
         /\ stale' = FALSE /\ UNCHANGED <<identities, provisions, requests, files, removed>>
<1> USE DEF IdentityPcs, ServerCalls, Ended, Named, Start, local
<1>1. ASSUME NEW kind, List(kind)
      PROVE  /\ Named' /\ cli.pc = "idle" /\ cli'.pc \in IdentityPcs \cup Ended
             /\ stale' = FALSE /\ UNCHANGED <<identities, provisions, requests, files, removed>>
  BY <1>1 DEF List
<1>2. ASSUME NEW kind, NEW t, NEW force, StartRemove(kind, t, force)
      PROVE  /\ Named' /\ cli.pc = "idle" /\ cli'.pc \in IdentityPcs \cup Ended
             /\ stale' = FALSE /\ UNCHANGED <<identities, provisions, requests, files, removed>>
  BY <1>2 DEF StartRemove
<1>3. ASSUME NEW t, ListProvision(t) \/ StartExport(t) \/ StartDownload(t.index)
      PROVE  /\ Named' /\ cli.pc = "idle" /\ cli'.pc \in IdentityPcs \cup Ended
             /\ stale' = FALSE /\ UNCHANGED <<identities, provisions, requests, files, removed>>
  BY <1>3 DEF ListProvision, StartExport, StartDownload
<1>4. ASSUME NEW extension, NEW exists, StartImport(extension) \/ ImportProvision(exists)
      PROVE  /\ Named' /\ cli.pc = "idle" /\ cli'.pc \in IdentityPcs \cup Ended
             /\ stale' = FALSE /\ UNCHANGED <<identities, provisions, requests, files, removed>>
  <2>1. CASE StartImport(extension)
    <3>1. CASE extension \in {"p12", "cer"}
      BY <2>1, <3>1 DEF StartImport
    <3>2. CASE extension \notin {"p12", "cer"}
      BY <2>1, <3>2 DEF StartImport
    <3> QED
      BY <3>1, <3>2
  <2>2. CASE ImportProvision(exists)
    BY <2>2 DEF ImportProvision
  <2> QED
    BY <1>4, <2>1, <2>2
<1>5. ASSUME NEW given, CreateSelfSigned(given) \/ CreateRequest(given)
      PROVE  /\ Named' /\ cli.pc = "idle" /\ cli'.pc \in IdentityPcs \cup Ended
             /\ stale' = FALSE /\ UNCHANGED <<identities, provisions, requests, files, removed>>
  BY <1>5 DEF CreateSelfSigned, CreateRequest
<1> QED
  BY <1>1, <1>2, <1>3, <1>4, <1>5 DEF IdentityStep

LEMMA BuildMoves ==
  ASSUME Named, BuildProgress
  PROVE  /\ \/ UNCHANGED cli
            \/ Named' /\ cli'.name = cli.name /\ cli.pc \in BuilderPcs /\ cli'.pc \in BuilderPcs \cup Ended
         /\ UNCHANGED <<store, local>>
<1>1. ASSUME NEW v \in Ended, Finish(v)
      PROVE  Named' /\ cli'.name = cli.name /\ cli'.pc \in Ended
  BY <1>1 DEF Finish, Named
<1>2. ASSUME NEW v \in BuilderPcs \cup Ended, Goto(v)
      PROVE  Named' /\ cli'.name = cli.name /\ cli'.pc \in BuilderPcs \cup Ended
  BY <1>2, GotoKeeps, Zenon DEF Named
<1>3. CASE \/ DeployToIon \/ BuildEnds \/ DeployEnds \/ VerifyStoreCreated
           \/ FindGroups \/ UploadApplication \/ CheckProvision
           \/ ConfigureLivePatchPlugin \/ UploadPatch
  <2> USE DEF BuilderPcs, Ended, Others
  <2>1. CASE DeployToIon \/ BuildEnds \/ DeployEnds
    BY <1>1, <1>2, <2>1 DEF DeployToIon, BuildEnds, Built, DeployEnds, In
  <2>2. CASE VerifyStoreCreated \/ FindGroups \/ UploadApplication \/ CheckProvision
    BY <1>1, <1>2, <2>2 DEF VerifyStoreCreated, FindGroups, UploadApplication, CheckProvision
  <2>3. CASE ConfigureLivePatchPlugin \/ UploadPatch
    BY <1>1, <1>2, <2>3 DEF ConfigureLivePatchPlugin, UploadPatch
  <2> QED
    BY <1>3, <2>1, <2>2, <2>3
<1>4. CASE BuiltForUpload
  <2>1. cli.pc = "building" /\ UNCHANGED <<store, local>>
    BY <1>4 DEF BuiltForUpload, Others
  <2>2. \/ Finish("failed")
        \/ \E v \in {"groups", "upload"} : \E p : cli' = [cli EXCEPT !.pc = v, !.package = p]
    <3>1. (IF cli.name = "appmanager upload" /\ cli.group THEN "groups" ELSE "upload") \in {"groups", "upload"}
      OBVIOUS
    <3> QED
      BY <1>4, <3>1, Zenon DEF BuiltForUpload
  <2>3. ASSUME NEW v \in {"groups", "upload"}, NEW p, cli' = [cli EXCEPT !.pc = v, !.package = p]
        PROVE  DOMAIN cli' = DOMAIN cli /\ cli'.pc = v /\ cli'.name = cli.name
    BY <2>3, Zenon DEF Named
  <2> QED
    BY <1>1, <2>1, <2>2, <2>3 DEF Named, BuilderPcs, Ended
<1>5. ASSUME NEW f \in Fibers, DeployTo(f) \/ PackageBuilt(f) \/ ReinstallApplication(f)
      PROVE  UNCHANGED cli /\ UNCHANGED <<store, local>>
  BY <1>5 DEF DeployTo, PackageBuilt, ReinstallApplication, Others
<1>6. ASSUME NEW f \in Fibers, BuildStep(f), UNCHANGED local
      PROVE  UNCHANGED cli /\ UNCHANGED <<store, local>>
  BY <1>6 DEF BuildStep, Request, Android, FindProvisionOption, SelectProvision, FallBackToDevelopment,
              FindCertificateOption, SelectCertificate, SimulatorCertificate, ThrowIfInvalid, BuildProject,
              Deliver, BuildFails, Only
<1> QED
  BY <1>3, <1>4, <1>5, <1>6 DEF BuildProgress

Builders == {"build", "emulate", "deploy", "appmanager upload", "appstore upload"}

LEMMA BuildStarts ==
  ASSUME \/ BuildCommand
         \/ \E debug \in BOOLEAN, enabled \in LivePatchIn : PublishLivePatch(debug, enabled)
  PROVE  /\ Named' /\ cli.pc = "idle" /\ cli'.pc \in BuilderPcs \cup Ended
         /\ cli'.name \in Builders \cup {"appmanager livesync"}
         /\ stale' = FALSE /\ UNCHANGED <<identities, provisions, requests, local>>
<1> DEFINE P == /\ Named' /\ cli.pc = "idle" /\ cli'.pc \in BuilderPcs \cup Ended
                /\ cli'.name \in Builders \cup {"appmanager livesync"}
                /\ stale' = FALSE /\ UNCHANGED <<identities, provisions, requests, local>>
<1>1. ASSUME NEW command, NEW opts, StartWith(command, opts),
             {"name", "pc"} \subseteq DOMAIN command, command.name \in Builders, command.pc \in BuilderPcs \cup Ended
      PROVE  P
  BY <1>1 DEF StartWith, Start, Named
<1> SUFFICES P
  OBVIOUS
<1> HIDE DEF P
<1>2. ASSUME NEW opts \in OptionSets, NEW platform \in Platforms,
             NEW companion \in BOOLEAN, NEW download \in BOOLEAN, NEW simulator \in BOOLEAN,
             Build(platform, opts, companion, download, simulator)
      PROVE  P
  <2>1. PICK command, s : /\ StartWith(command, opts)
                       /\ command = [name |-> "build", companion |-> companion,
                     pc |-> IF companion /\ download THEN "failed" ELSE IF companion THEN "ion" ELSE "building",
                     settings |-> s]
    BY <1>2, Zenon DEF Build
  <2>2. /\ {"name", "pc"} \subseteq DOMAIN command /\ command.name \in Builders
        /\ command.pc \in {"failed", "ion", "building"}
    BY <2>1 DEF Builders
  <2> QED
    BY <1>1, <2>1, <2>2 DEF BuilderPcs, Ended
<1>3. ASSUME NEW opts \in OptionSets, NEW platform \in Platforms, Emulate(platform, opts)
      PROVE  P
  <2>1. PICK s : StartWith([name |-> "emulate", pc |-> "building", settings |-> s], opts)
    BY <1>3, Zenon DEF Emulate
  <2> DEFINE command == [name |-> "emulate", pc |-> "building", settings |-> s]
  <2>2. {"name", "pc"} \subseteq DOMAIN command /\ command.name \in Builders /\ command.pc \in BuilderPcs
    BY DEF Builders, BuilderPcs
  <2> QED
    BY <1>1, <2>1, <2>2
<1>4. ASSUME NEW opts \in OptionSets, NEW platform \in Platforms, NEW devices, Deploy(platform, opts, devices)
      PROVE  P
  <2>1. PICK s : StartWith([name |-> "deploy", pc |-> "building", devices |-> devices, settings |-> s], opts)
    BY <1>4, Zenon DEF Deploy
  <2> DEFINE command == [name |-> "deploy", pc |-> "building", devices |-> devices, settings |-> s]
  <2>2. {"name", "pc"} \subseteq DOMAIN command /\ command.name \in Builders /\ command.pc \in BuilderPcs
    BY DEF Builders, BuilderPcs
  <2> QED
    BY <1>1, <2>1, <2>2
<1>5. ASSUME NEW opts \in OptionSets, NEW platform \in Platforms, NEW download, NEW group,
             AppManagerUpload(platform, opts, download, group)
      PROVE  P
  <2>1. PICK s : StartWith([name |-> "appmanager upload", pc |-> "verifyStore", group |-> group,
                            package |-> NoPackage, settings |-> s], opts)
    BY <1>5, Zenon DEF AppManagerUpload
  <2> DEFINE command == [name |-> "appmanager upload", pc |-> "verifyStore", group |-> group,
                            package |-> NoPackage, settings |-> s]
  <2>2. {"name", "pc"} \subseteq DOMAIN command /\ command.name \in Builders /\ command.pc \in BuilderPcs
    BY DEF Builders, BuilderPcs
  <2> QED
    BY <1>1, <2>1, <2>2
<1>6. ASSUME NEW opts \in OptionSets, AppStoreUpload(opts)
      PROVE  P
  <2>1. PICK s : StartWith([name |-> "appstore upload",
                pc |-> IF opts.provision = None THEN "verifyStore" ELSE "checkProvision",
                package |-> NoPackage, settings |-> s], opts)
    BY <1>6, Zenon DEF AppStoreUpload
  <2> DEFINE command == [name |-> "appstore upload",
                pc |-> IF opts.provision = None THEN "verifyStore" ELSE "checkProvision",
                package |-> NoPackage, settings |-> s]
  <2>2. {"name", "pc"} \subseteq DOMAIN command /\ command.name \in Builders /\ command.pc \in BuilderPcs
    BY DEF Builders, BuilderPcs
  <2> QED
    BY <1>1, <2>1, <2>2
<1>7. ASSUME NEW debug, NEW enabled, PublishLivePatch(debug, enabled)
      PROVE  P
  <2>1. PICK s : Start([name |-> "appmanager livesync", pc |-> "configureLivePatch", selected |-> s])
    BY <1>7, Zenon DEF PublishLivePatch
  <2>2. UNCHANGED <<identities, provisions, requests, local>>
    BY <1>7 DEF PublishLivePatch
  <2> QED
    BY <2>1, <2>2 DEF P, Start, Named, BuilderPcs
<1>8. CASE BuildCommand
  BY <1>2, <1>3, <1>4, <1>5, <1>6, <1>8 DEF BuildCommand
<1> QED
  BY <1>7, <1>8

--------------------------------------------------------------------------
(* What is removed is what was listed.  While a remove command runs and the *)
(* store is left alone, the items are those it saw at first; what it found *)
(* by a number is the item listed at that number.                          *)
Kinds == {"certificate", "provision", "certificate-request"}
Removing == [name : {"remove"}, pc : {"find", "findAgain", "remove"}, kind : Kinds, typed : Typed,
             force : BOOLEAN, seen : SUBSET Nat, item : Nat \cup {None}]

ByNumber(kind, typed, seen) == kind = "certificate-request" \/ typed.beginning \cap seen = {}

Shown(items) == \E S \in SUBSET Nat : IsFiniteSet(S) /\ items = Listed(S)

RemoveInv ==
  /\ Named
  /\ listing.kind # "none" => Shown(listing.items)
  /\ cli.name = "remove" =>
       \/ cli.pc \in Ended
       \/ /\ cli \in Removing
          /\ cli.pc = "findAgain" => cli.kind = "provision"
          /\ ~stale => Items(cli.kind) = cli.seen
          /\ cli.pc = "remove" /\ ~stale /\ ByNumber(cli.kind, cli.typed, cli.seen) =>
               cli.item = Listed(cli.seen)[cli.typed.index]
  /\ RemovesTheListedOne

LEMMA ItemsShown ==
  ASSUME StoreInv, NEW kind \in Kinds
  PROVE  Items(kind) \in SUBSET Nat /\ IsFiniteSet(Items(kind)) /\ Shown(Listed(Items(kind)))
<1>1. Items(kind) \in SUBSET Nat /\ IsFiniteSet(Items(kind))
  BY StoreAssumption, IdentityCommandsAssumption DEF StoreInv, Items, Kinds
<1> QED
  BY <1>1, Zenon DEF Shown

LEMMA RemoveInit == Init => RemoveInv
BY DEF Init, RemoveInv, Named, Idle, NoListing, NothingRemoved, RemovesTheListedOne

(* A remove command's find, in a store that is left alone. *)
LEMMA FoundByNumber ==
  ASSUME StoreInv, NEW kind \in Kinds, NEW typed, NEW item,
         item \in (CASE kind = "certificate" -> FindCertificate(typed)
                     [] kind = "provision" -> FindProvision(typed)
                     [] kind = "certificate-request" -> ParseCertificateIndex(typed.index))
  PROVE  /\ item \in Nat
         /\ ByNumber(kind, typed, Items(kind)) => item = Listed(Items(kind))[typed.index]
<1> USE DEF Kinds, Items, ByNumber
<1>1. item \in Items(kind)
  BY FoundInStore
<1>2. Items(kind) \in SUBSET Nat /\ IsFiniteSet(Items(kind))
  BY ItemsShown
<1>3. CASE kind \in {"certificate", "provision"}
  <2>1. item \in FindByNameOrIndex(typed, Items(kind))
    BY <1>3 DEF FindCertificate, FindProvision
  <2>2. Items(kind) \cap typed.beginning = {} => item = Listed(Items(kind))[typed.index]
    BY <1>2, <2>1, FoundIsOne
  <2> QED
    BY <1>1, <1>2, <1>3, <2>2
<1>4. CASE kind = "certificate-request"
  BY <1>1, <1>2, <1>4 DEF ParseCertificateIndex
<1> QED
  BY <1>3, <1>4

LEMMA RemoveStarts ==
  ASSUME StoreInv, RemoveInv, IdentityStep
  PROVE  RemoveInv'
<1>1. Named' /\ RemovesTheListedOne' /\ UNCHANGED <<identities, provisions, requests>>
  BY IdentityStarts DEF RemoveInv, RemovesTheListedOne
<1>2. ASSUME NEW kind \in Kinds, List(kind)
      PROVE  RemoveInv'
  <2>1. listing' = [kind |-> kind, items |-> Listed(Items(kind))] /\ cli'.name = "list"
    BY <1>2 DEF List, Printed, Start
  <2>2. Shown(listing.items)'
    BY <2>1, ItemsShown DEF Shown
  <2> QED
    BY <1>1, <2>1, <2>2 DEF RemoveInv
<1>3. ASSUME NEW kind \in Kinds, NEW t \in Typed, NEW force \in BOOLEAN, StartRemove(kind, t, force)
      PROVE  RemoveInv'
  <2>1. /\ cli' = [name |-> "remove", pc |-> "find", kind |-> kind, typed |-> t, force |-> force,
                   seen |-> Items(kind), item |-> None]
        /\ UNCHANGED listing
    BY <1>3 DEF StartRemove, Start, local
  <2>2. Items(kind) \in SUBSET Nat /\ Items(kind)' = Items(kind)
    BY <1>1, ItemsShown DEF Items
  <2>3. cli' \in Removing
    BY <2>1, <2>2 DEF Removing
  <2>4. cli'.pc = "find" /\ cli'.kind = kind /\ cli'.seen = Items(kind)
    BY <2>1
  <2> QED
    BY <1>1, <2>1, <2>2, <2>3, <2>4 DEF RemoveInv
<1>4. ASSUME UNCHANGED listing, cli'.name # "remove"
      PROVE  RemoveInv'
  BY <1>1, <1>4 DEF RemoveInv
<1>5. ASSUME NEW t \in Typed, ListProvision(t) \/ StartExport(t) \/ StartDownload(t.index)
      PROVE  RemoveInv'
  <2>1. UNCHANGED listing /\ cli'.name # "remove"
    BY <1>5 DEF ListProvision, StartExport, StartDownload, Start, local
  <2> QED
    BY <1>4, <2>1
<1>6. ASSUME NEW extension, StartImport(extension)
      PROVE  RemoveInv'
  <2>1. UNCHANGED listing
    BY <1>6 DEF StartImport, local
  <2>2. \/ cli' = [name |-> "import", pc |-> "import", attempt |-> 1, extension |-> extension]
        \/ cli' = [name |-> "import", pc |-> "failed"]
    BY <1>6, Zenon DEF StartImport, Start
  <2> QED
    BY <1>4, <2>1, <2>2
<1>7. ASSUME NEW exists, ImportProvision(exists)
      PROVE  RemoveInv'
  <2>1. UNCHANGED listing /\ cli'.name # "remove"
    BY <1>7 DEF ImportProvision, Start, local
  <2> QED
    BY <1>4, <2>1
<1>8. ASSUME NEW given, CreateSelfSigned(given) \/ CreateRequest(given)
      PROVE  RemoveInv'
  <2>1. UNCHANGED listing /\ cli'.name # "remove"
    BY <1>8 DEF CreateSelfSigned, CreateRequest, Start, local
  <2> QED
    BY <1>4, <2>1
<1> QED
  BY <1>2, <1>3, <1>5, <1>6, <1>7, <1>8 DEF IdentityStep, Kinds

LEMMA RemoveGoesOn ==
  ASSUME StoreInv, StoreInv', RemoveInv, IdentityProgress
  PROVE  RemoveInv'
<1>1. Named' /\ cli'.name = cli.name
  BY IdentityMoves DEF RemoveInv
<1>2. ASSUME UNCHANGED <<listing, removed>>, cli'.name = "remove" => cli'.pc \in Ended
      PROVE  RemoveInv'
  BY <1>1, <1>2 DEF RemoveInv, RemovesTheListedOne
<1>3. ASSUME NEW v \in Ended, Finish(v)
      PROVE  cli'.pc \in Ended
  BY <1>3 DEF Finish
<1>4. CASE ValidateProvisionId
  <2>1. UNCHANGED <<store, local>> /\ cli.name = "remove" /\ cli.pc = "find" /\ cli.kind = "provision"
    BY <1>4 DEF ValidateProvisionId, In
  <2>2. CASE Finish("failed")
    BY <1>2, <1>3, <2>1, <2>2 DEF local, Ended
  <2>3. CASE Goto("findAgain")
    <3>1. cli \in Removing
      BY <2>1 DEF RemoveInv, Ended
    <3>2. cli' \in Removing /\ cli'.pc = "findAgain" /\ cli'.kind = cli.kind /\ cli'.seen = cli.seen
      BY <2>3, <3>1 DEF Goto, Removing
    <3>3. Items(cli.kind)' = Items(cli.kind)
      BY <2>1, <3>2 DEF Items, store
    <3> QED
      BY <1>1, <2>1, <3>1, <3>2, <3>3 DEF RemoveInv, store, local, Ended, RemovesTheListedOne
  <2> QED
    BY <1>4, <2>2, <2>3 DEF ValidateProvisionId
<1>5. CASE FindProvisionToRemove \/ FindToRemove
  <2>1. UNCHANGED <<store, local>> /\ cli.name = "remove" /\ cli.pc \in {"find", "findAgain"}
    BY <1>5 DEF FindProvisionToRemove, FindToRemove, In
  <2>2. cli \in Removing /\ (~stale => Items(cli.kind) = cli.seen)
    BY <2>1 DEF RemoveInv, Ended
  <2>3. ASSUME NEW item, cli' = Found(item),
               item \in (CASE cli.kind = "certificate" -> FindCertificate(cli.typed)
                           [] cli.kind = "provision" -> FindProvision(cli.typed)
                           [] cli.kind = "certificate-request" -> ParseCertificateIndex(cli.typed.index))
        PROVE  RemoveInv'
    <3>1. /\ item \in Nat
          /\ ByNumber(cli.kind, cli.typed, Items(cli.kind)) => item = Listed(Items(cli.kind))[cli.typed.index]
      <4> DEFINE k == cli.kind
                 t == cli.typed
      <4>1. k \in Kinds
        BY <2>2 DEF Removing
      <4>2. item \in (CASE k = "certificate" -> FindCertificate(t)
                       [] k = "provision" -> FindProvision(t)
                       [] k = "certificate-request" -> ParseCertificateIndex(t.index))
        BY <2>3
      <4> HIDE DEF k, t
      <4>3. item \in Nat /\ (ByNumber(k, t, Items(k)) => item = Listed(Items(k))[t.index])
        BY <4>1, <4>2, FoundByNumber
      <4> QED
        BY <4>3 DEF k, t
    <3>2. /\ cli' \in Removing /\ cli'.pc = "remove" /\ cli'.kind = cli.kind /\ cli'.seen = cli.seen
          /\ cli'.typed = cli.typed /\ cli'.item = item
      BY <2>2, <2>3, <3>1 DEF Found, Removing
    <3>3. Items(cli.kind)' = Items(cli.kind)
      BY <2>1, <3>2 DEF Items, store
    <3> QED
      BY <1>1, <2>1, <2>2, <3>1, <3>2, <3>3 DEF RemoveInv, store, local, RemovesTheListedOne
  <2>4. CASE FindProvisionToRemove
    <3>1. cli.kind = "provision"
      <4>1. cli.pc = "findAgain"
        BY <2>4 DEF FindProvisionToRemove, In
      <4> QED
        BY <2>1, <4>1 DEF RemoveInv, Ended
    <3> QED
      BY <1>2, <1>3, <2>1, <2>3, <2>4, <3>1 DEF FindProvisionToRemove, local, Ended
  <2>5. CASE FindToRemove
    <3>1. cli.kind \in {"certificate", "certificate-request"}
      BY <2>2, <2>5 DEF FindToRemove, Removing, Kinds
    <3>2. \/ Finish("failed") \/ Finish("ok")
          \/ \E i \in IF cli.kind = "certificate" THEN FindCertificate(cli.typed)
                      ELSE ParseCertificateIndex(cli.typed.index) : cli' = Found(i)
      BY <2>5, Zenon DEF FindToRemove
    <3> QED
      BY <1>2, <1>3, <2>1, <2>3, <3>1, <3>2 DEF local, Ended
  <2> QED
    BY <1>5, <2>4, <2>5
<1>6. CASE IdentityCallFails \/ Contents
  <2>1. UNCHANGED <<listing, removed>> /\ cli'.pc \in Ended
    <3>1. UNCHANGED local /\ (Finish("ok") \/ Finish("failed"))
      BY <1>6 DEF IdentityCallFails, Contents
    <3> QED
      BY <1>3, <3>1 DEF local, Ended
  <2> QED
    BY <1>2, <2>1
<1>7. CASE \/ FindToExport \/ Import \/ GenerateSelfSigned \/ GenerateRequest \/ FindToDownload
           \/ DownloadRequest
  <2>1. UNCHANGED <<listing, removed>>
    BY <1>7 DEF FindToExport, Import, GenerateSelfSigned, GenerateRequest, FindToDownload, DownloadRequest, local
  <2>2. cli.name # "remove" \/ cli.pc = "download"
    BY <1>7 DEF FindToExport, Import, GenerateSelfSigned, GenerateRequest, FindToDownload, DownloadRequest, In
  <2>3. cli.pc = "download" => cli.name # "remove"
    BY DEF RemoveInv, Removing, Ended
  <2> QED
    BY <1>1, <1>2, <2>1, <2>2, <2>3
<1>8. CASE ImportedProvision
  <2>1. /\ listing' = [kind |-> "provision", items |-> Listed(provisions')] /\ UNCHANGED removed
        /\ cli.name = "provision import"
    BY <1>8 DEF ImportedProvision, In
  <2>2. Shown(listing'.items)
    BY <2>1, StoreAssumption, Zenon DEF Shown, StoreInv
  <2> QED
    BY <1>1, <2>1, <2>2 DEF RemoveInv, RemovesTheListedOne, Shown
<1>9. CASE RemoveItem
  <2>1. cli.name = "remove" /\ cli.pc = "remove" /\ cli'.pc \in Ended
    BY <1>9 DEF RemoveItem, In, Finish, Ended
  <2>2. /\ removed' = [kind |-> cli.kind, item |-> cli.item, typed |-> cli.typed,
                       seen |-> cli.seen, stale |-> stale, listing |-> listing]
        /\ listing' \in {listing, [kind |-> "provision", items |-> Listed(provisions')]}
    BY <1>9 DEF RemoveItem
  <2>3. listing'.kind # "none" => Shown(listing'.items)
    <3>1. provisions' \in SUBSET Nat /\ IsFiniteSet(provisions')
      BY StoreAssumption DEF StoreInv
    <3>2. Shown(Listed(provisions'))
      BY <3>1, Zenon DEF Shown
    <3> QED
      BY <2>2, <3>2 DEF RemoveInv
  <2>4. RemovesTheListedOne'
    <3> SUFFICES ASSUME cli.kind # "none", ~stale, listing.kind = cli.kind, ToSet(listing.items) = cli.seen,
                        ByNumber(cli.kind, cli.typed, cli.seen)
                 PROVE  cli.item = listing.items[cli.typed.index]
      BY <2>2 DEF RemovesTheListedOne, ByNumber
    <3>1. PICK S \in SUBSET Nat : IsFiniteSet(S) /\ listing.items = Listed(S)
      BY DEF RemoveInv, Shown
    <3>2. ToSet(listing.items) = S
      BY <3>1, ListedItems
    <3>3. cli.item = Listed(cli.seen)[cli.typed.index]
      BY <2>1 DEF RemoveInv, Ended
    <3> QED
      BY <3>1, <3>2, <3>3
  <2> QED
    BY <1>1, <2>1, <2>3, <2>4 DEF RemoveInv, Shown
<1> QED
  BY <1>4, <1>5, <1>6, <1>7, <1>8, <1>9 DEF IdentityProgress

LEMMA RemoveNext ==
  ASSUME StoreInv, RemoveInv, [Next]_vars
  PROVE  RemoveInv'
<1>1. CASE IdentityStep \/ IdentityProgress
  BY <1>1, RemoveStarts, RemoveGoesOn, StoreNext
<1>2. CASE \/ BuildCommand
           \/ \E debug \in BOOLEAN, enabled \in LivePatchIn : PublishLivePatch(debug, enabled)
  <2>1. Named' /\ cli'.name # "remove" /\ UNCHANGED <<listing, removed>>
    BY <1>2, BuildStarts DEF Builders, local
  <2> QED
    BY <2>1 DEF RemoveInv, RemovesTheListedOne
<1>3. CASE BuildProgress
  <2>1. /\ \/ UNCHANGED cli
           \/ Named' /\ cli'.name = cli.name /\ cli.pc \in BuilderPcs
        /\ UNCHANGED <<store, local>>
    BY <1>3, BuildMoves DEF RemoveInv
  <2>2. cli.pc \in BuilderPcs => cli.name # "remove"
    BY DEF RemoveInv, Removing, BuilderPcs, Ended
  <2>3. RemovesTheListedOne'
    BY <2>1 DEF RemoveInv, RemovesTheListedOne, local
  <2>4. CASE UNCHANGED cli
    BY <2>1, <2>3, <2>4 DEF RemoveInv, Named, store, local, Items, Shown
  <2>5. CASE Named' /\ cli'.name # "remove"
    BY <2>1, <2>3, <2>5 DEF RemoveInv, local, Shown
  <2> QED
    BY <2>1, <2>2, <2>4, <2>5
<1>4. CASE CommandExit
  <2>1. cli' = Idle /\ removed' = NothingRemoved /\ listing' \in {listing, NoListing}
    BY <1>4 DEF CommandExit, Exit
  <2> QED
    BY <2>1 DEF RemoveInv, Idle, Named, NothingRemoved, NoListing, RemovesTheListedOne, Shown
<1>5. CASE PortalChange /\ UNCHANGED <<local, buildVars>>
  <2>1. UNCHANGED <<cli, local>> /\ stale' = (cli.pc # "idle")
    BY <1>5 DEF PortalChange
  <2>2. cli.name = "remove" => cli.pc \in Ended \/ stale'
    BY <2>1 DEF RemoveInv, Removing
  <2> QED
    BY <2>1, <2>2 DEF RemoveInv, Named, local, RemovesTheListedOne, Shown
<1>6. CASE UNCHANGED vars
  BY <1>6 DEF vars, store, local, RemoveInv, Named, Items, Shown, RemovesTheListedOne
<1> QED
  BY <1>1, <1>2, <1>3, <1>4, <1>5, <1>6 DEF Next, Progress

(* What a number named in the list just printed is what is removed by that  *)
(* number, unless the store changed in between                              *)
(* (cryptographic-identities.ts, helpers.ts:findByNameOrIndex).             *)
THEOREM NumbersNameTheListed == Spec => []RemovesTheListedOne
<1>1. Init => StoreInv /\ RemoveInv
  BY StoreInit, RemoveInit
<1>2. StoreInv /\ RemoveInv /\ [Next]_vars => (StoreInv /\ RemoveInv)'
  BY StoreNext, RemoveNext
<1>3. RemoveInv => RemovesTheListedOne
  BY DEF RemoveInv
<1> QED
  BY <1>1, <1>2, <1>3, PTL DEF Spec

--------------------------------------------------------------------------
(* What a command that builds asks for. *)
SettingsOf(name, s) ==
  /\ s \in [platform : Platforms, release : BOOLEAN, types : {<<"AdHoc">>, <<"AppStore">>,
            <<"Development", "Enterprise", "AdHoc">>}, qr : BOOLEAN, download : BOOLEAN, tam : BOOLEAN,
            simulator : BOOLEAN]
  /\ s.tam = (name = "appmanager upload")
  /\ s.types = CASE name = "appmanager upload" -> <<"Development", "Enterprise", "AdHoc">>
                 [] name = "appstore upload" -> <<"AppStore">>
                 [] OTHER -> <<"AdHoc">>
  /\ name \in {"build", "emulate", "deploy"} => s.qr = ~s.download
  /\ name = "appstore upload" =>
       s.platform = "iOS" /\ s.qr = FALSE /\ s.download = FALSE /\ s.simulator = FALSE

Uploads == {"appmanager upload", "appstore upload"}

(* What AppManager is given. *)
PackageFits(package) ==
  package.to = "appmanager upload" =>
    /\ package.provision # None => Provisions[package.provision].type # "AppStore"
    /\ package.platform = "Android" /\ package.certificate # None => ~Identities[package.certificate].ios

Building == cli.pc \in {"verifyStore", "checkProvision", "building"}

CommandInv ==
  /\ Named
  /\ Building =>
       /\ cli.name \in Builders /\ "settings" \in DOMAIN cli /\ SettingsOf(cli.name, cli.settings)
       /\ cli.name = "deploy" => "devices" \in DOMAIN cli /\ cli.devices \subseteq Devices
       /\ cli.name \in Uploads => "package" \in DOMAIN cli
       /\ cli.pc # "building" => cli.name \in Uploads
       /\ cli.pc = "checkProvision" => cli.name = "appstore upload"
  /\ cli.pc \in {"groups", "upload"} =>
       /\ cli.name \in Uploads /\ "package" \in DOMAIN cli
       /\ cli.package \in Packages /\ cli.package.to = cli.name /\ PackageFits(cli.package)
  /\ cli.pc \in {"configureLivePatch", "uploadPatch"} =>
       /\ cli.name = "appmanager livesync" /\ "selected" \in DOMAIN cli
       /\ cli.selected \in {{"Release"}, {"Release", "Debug"}}

LEMMA CommandStarts ==
  ASSUME BuildCommand
  PROVE  CommandInv' /\ cli'.name \in Builders
         /\ (UNCHANGED build \/ (cli'.pc = "building" /\ cli'.name # "deploy" /\ StartBuild(Main)))
         /\ UNCHANGED target /\ options' \in OptionSets
         /\ (cli'.name = "appstore upload" /\ cli'.pc \in {"verifyStore", "building"} => options'.provision = None)
<1> DEFINE Q(c) == /\ {"name", "pc"} \subseteq DOMAIN c /\ c.pc \in BuilderPcs \cup Ended
                   /\ c.pc \notin {"groups", "upload", "configureLivePatch", "uploadPatch"}
                   /\ c.name \in Builders /\ "settings" \in DOMAIN c /\ SettingsOf(c.name, c.settings)
                   /\ c.name = "deploy" => "devices" \in DOMAIN c /\ c.devices \subseteq Devices
                   /\ c.name \in Uploads => "package" \in DOMAIN c
                   /\ c.pc \in {"verifyStore", "checkProvision"} => c.name \in Uploads
                   /\ c.pc = "checkProvision" => c.name = "appstore upload"
           P == CommandInv' /\ cli'.name \in Builders
         /\ (UNCHANGED build \/ (cli'.pc = "building" /\ cli'.name # "deploy" /\ StartBuild(Main)))
         /\ UNCHANGED target /\ options' \in OptionSets
         /\ (cli'.name = "appstore upload" /\ cli'.pc \in {"verifyStore", "building"} => options'.provision = None)
<1>1. ASSUME NEW command, NEW opts \in OptionSets, StartWith(command, opts), Q(command),
             UNCHANGED build \/ (command.pc = "building" /\ command.name # "deploy" /\ StartBuild(Main)),
             command.name = "appstore upload" /\ command.pc \in {"verifyStore", "building"} => opts.provision = None
      PROVE  P
  <2>1. cli' = command /\ options' = opts /\ UNCHANGED target
    BY <1>1 DEF StartWith, Start
  <2>2. Q(cli')
    <3> HIDE DEF Q
    <3> QED
      BY <1>1, <2>1
  <2>3. Named' /\ cli'.pc \notin {"groups", "upload", "configureLivePatch", "uploadPatch"}
    BY <2>2 DEF Named
  <2>4. /\ cli'.name \in Builders /\ "settings" \in DOMAIN cli' /\ SettingsOf(cli'.name, cli'.settings)
        /\ cli'.name = "deploy" => "devices" \in DOMAIN cli' /\ cli'.devices \subseteq Devices
        /\ cli'.name \in Uploads => "package" \in DOMAIN cli'
        /\ cli'.pc \in {"verifyStore", "checkProvision"} => cli'.name \in Uploads
        /\ cli'.pc = "checkProvision" => cli'.name = "appstore upload"
    BY <2>2
  <2>5. Building' /\ cli'.pc # "building" => cli'.pc \in {"verifyStore", "checkProvision"}
    BY DEF Building
  <2>6. CommandInv'
    BY <2>3, <2>4, <2>5, Zenon DEF CommandInv
  <2> QED
    BY <1>1, <2>1, <2>6
<1> SUFFICES P
  OBVIOUS
<1> HIDE DEF P
<1>2. ASSUME NEW opts \in OptionSets, NEW platform \in Platforms,
             NEW companion \in BOOLEAN, NEW download \in BOOLEAN, NEW simulator \in BOOLEAN,
             Build(platform, opts, companion, download, simulator)
      PROVE  P
  <2> DEFINE downloads == download \/ platform \notin Wireless
             s == [Settings(platform) EXCEPT !.qr = ~downloads, !.download = downloads, !.simulator = simulator]
             command == [name |-> "build", companion |-> companion,
                     pc |-> IF companion /\ download THEN "failed" ELSE IF companion THEN "ion" ELSE "building",
                     settings |-> s]
  <2>1. StartWith(command, opts) /\ (IF companion THEN UNCHANGED build ELSE StartBuild(Main))
    BY <1>2 DEF Build
  <2>2. SettingsOf("build", s)
    BY DEF SettingsOf, Settings
  <2> HIDE DEF s
  <2>3. Q(command) /\ command.name = "build" /\ (~companion => command.pc = "building")
    BY <2>2 DEF Builders, Uploads, BuilderPcs, Ended
  <2> HIDE DEF command, Q
  <2> QED
    BY <1>1, <2>1, <2>3
<1>3. ASSUME NEW opts \in OptionSets, NEW platform \in Platforms, Emulate(platform, opts)
      PROVE  P
  <2> DEFINE s == [Settings(platform) EXCEPT !.download = TRUE, !.simulator = (platform = "iOS")]
             command == [name |-> "emulate", pc |-> "building", settings |-> s]
  <2>1. StartWith(command, opts) /\ StartBuild(Main)
    BY <1>3 DEF Emulate
  <2>2. SettingsOf("emulate", s)
    BY DEF SettingsOf, Settings
  <2> HIDE DEF s
  <2>3. Q(command) /\ command.name = "emulate" /\ command.pc = "building"
    BY <2>2 DEF Builders, Uploads, BuilderPcs
  <2> HIDE DEF command, Q
  <2> QED
    BY <1>1, <2>1, <2>3
<1>4. ASSUME NEW opts \in OptionSets, NEW platform \in Platforms, NEW devices \in SUBSET Devices,
             Deploy(platform, opts, devices)
      PROVE  P
  <2> DEFINE s == [Settings(platform) EXCEPT !.download = TRUE]
             command == [name |-> "deploy", pc |-> "building", devices |-> devices, settings |-> s]
  <2>1. StartWith(command, opts) /\ UNCHANGED build
    BY <1>4 DEF Deploy
  <2>2. SettingsOf("deploy", s)
    BY DEF SettingsOf, Settings
  <2> HIDE DEF s
  <2>3. Q(command) /\ command.name = "deploy"
    BY <2>2 DEF Builders, Uploads, BuilderPcs
  <2> HIDE DEF command, Q
  <2> QED
    BY <1>1, <2>1, <2>3
<1>5. ASSUME NEW opts \in OptionSets, NEW platform \in Platforms, NEW download \in BOOLEAN, NEW group \in BOOLEAN,
             AppManagerUpload(platform, opts, download, group)
      PROVE  P
  <2> DEFINE s == [Settings(platform) EXCEPT
                  !.release = TRUE, !.tam = TRUE, !.download = download,
                  !.types = <<"Development", "Enterprise", "AdHoc">>]
             command == [name |-> "appmanager upload", pc |-> "verifyStore", group |-> group,
                package |-> NoPackage, settings |-> s]
  <2>1. StartWith(command, opts) /\ UNCHANGED build
    BY <1>5 DEF AppManagerUpload
  <2>2. SettingsOf("appmanager upload", s)
    BY DEF SettingsOf, Settings
  <2> HIDE DEF s
  <2>3. Q(command) /\ command.name = "appmanager upload"
    BY <2>2 DEF Builders, Uploads, BuilderPcs
  <2> HIDE DEF command, Q
  <2> QED
    BY <1>1, <2>1, <2>3
<1>6. ASSUME NEW opts \in OptionSets, AppStoreUpload(opts)
      PROVE  P
  <2> DEFINE s == [Settings("iOS") EXCEPT !.release = TRUE, !.types = <<"AppStore">>]
             command == [name |-> "appstore upload",
                pc |-> IF opts.provision = None THEN "verifyStore" ELSE "checkProvision",
                package |-> NoPackage, settings |-> s]
  <2>1. StartWith(command, opts) /\ UNCHANGED build
    BY <1>6 DEF AppStoreUpload
  <2>2. SettingsOf("appstore upload", s)
    BY DEF SettingsOf, Settings, Platforms
  <2> HIDE DEF s
  <2>3. /\ Q(command) /\ command.name = "appstore upload"
        /\ command.pc \in {"verifyStore", "building"} => opts.provision = None
    BY <2>2 DEF Builders, Uploads, BuilderPcs
  <2> HIDE DEF command, Q
  <2> QED
    BY <1>1, <2>1, <2>3
<1> QED
  BY <1>2, <1>3, <1>4, <1>5, <1>6 DEF BuildCommand

--------------------------------------------------------------------------
(* What a build may be, whether or not the store stayed the same: it is     *)
(* signed as its platform asks, and for AppManager not with an App Store   *)
(* provision.                                                              *)
Selecting == {"findProvision", "autoselectProvision", "fallback", "findCertificate",
              "autoselectCertificate", "certificate", "validate"}
Signing == {"findCertificate", "autoselectCertificate", "validate", "build", "built", "done"}

SelectedFor(b) ==
  /\ cli.settings.platform = "Android" =>
       b.pc \notin Selecting /\ (b.certificate # None => ~Identities[b.certificate].ios)
  /\ DeviceBuild => b.pc \notin {"android", "certificate"} /\ (b.pc \in Signing => b.provision \in Names)
  /\ cli.settings.tam /\ b.provision # None => Provisions[b.provision].type # "AppStore"

(* Who may build: the fibers of the devices when deploying, else the main  *)
(* one. *)
Active(f) == cli.pc = "building" /\ IF cli.name = "deploy" THEN f \in cli.devices ELSE f = Main

BuildInv ==
  /\ options \in Options /\ build \in [Fibers -> Builds]
  /\ \A f \in Fibers : build[f] = NotBuilding \/ (Active(f) /\ SelectedFor(build[f]))

LEMMA OptionsHold ==
  /\ None \notin NameOrIndex /\ NoOptions \in Options
  /\ \A p \in Names, o \in Options : /\ [o EXCEPT !.provision = Exactly(p)] \in Options
                                     /\ Exactly(p) # None
                                     /\ [o EXCEPT !.provision = Exactly(p)].certificate = o.certificate
                                     /\ [o EXCEPT !.provision = Exactly(p)].provision = Exactly(p)
  /\ \A c \in Aliases, o \in Options : /\ [o EXCEPT !.certificate = Exactly(c)] \in Options
                                       /\ Exactly(c) # None
                                       /\ [o EXCEPT !.certificate = Exactly(c)].provision = o.provision
                                       /\ [o EXCEPT !.certificate = Exactly(c)].certificate = Exactly(c)
<1>1. None \notin NameOrIndex
  BY IdentityCommandsAssumption
<1>2. \A x \in Aliases \cup Names : Exactly(x) \in NameOrIndex
  BY DEF Exactly, NameOrIndex
<1>3. \A x \in Aliases \cup Names : Exactly(x) # None
  BY <1>1, <1>2
<1> HIDE DEF Exactly
<1>4. NoOptions \in Options
  BY DEF NoOptions, Options
<1>5. ASSUME NEW p \in Names, NEW o \in Options
      PROVE  /\ [o EXCEPT !.provision = Exactly(p)] \in Options
             /\ [o EXCEPT !.provision = Exactly(p)].certificate = o.certificate
             /\ [o EXCEPT !.provision = Exactly(p)].provision = Exactly(p)
  BY DEF Options
<1>6. ASSUME NEW c \in Aliases, NEW o \in Options
      PROVE  /\ [o EXCEPT !.certificate = Exactly(c)] \in Options
             /\ [o EXCEPT !.certificate = Exactly(c)].provision = o.provision
             /\ [o EXCEPT !.certificate = Exactly(c)].certificate = Exactly(c)
  BY DEF Options
<1> QED
  BY <1>1, <1>3, <1>4, <1>5, <1>6

(* autoselectProvision keeps to the wanted types. *)
LEMMA SelectedOfType ==
  ASSUME StoreInv, NEW device, NEW types, DOMAIN types \in SUBSET Nat, NEW p \in AutoselectProvision(types, device)
  PROVE  /\ p \in provisions /\ ValidProvision(p, device)
         /\ \E i \in DOMAIN types : Provisions[p].type = types[i]
<1> DEFINE Passed(type) == {q \in provisions :
               /\ Provisions[q].type = type
               /\ ValidProvision(q, device)
               /\ \E c \in identities : ValidCertificate(c, q)}
           selected == {i \in DOMAIN types : Passed(types[i]) # {}}
<1>1. selected # {} /\ p \in Passed(types[Least(selected)])
  BY DEF AutoselectProvision
<1>2. selected \in SUBSET Nat /\ selected \subseteq DOMAIN types
  OBVIOUS
<1>3. Least(selected) \in selected
  BY <1>1, <1>2, LeastNatural
<1> QED
  BY <1>1, <1>2, <1>3

LEMMA WantedTypes ==
  ASSUME StoreInv, NEW device, NEW p
  PROVE  /\ p \in AutoselectProvision(<<"AdHoc">>, device) =>
              p \in provisions /\ ValidProvision(p, device) /\ Provisions[p].type = "AdHoc"
         /\ p \in AutoselectProvision(<<"AppStore">>, device) =>
              p \in provisions /\ ValidProvision(p, device) /\ Provisions[p].type = "AppStore"
         /\ p \in AutoselectProvision(<<"Development">>, device) =>
              p \in provisions /\ ValidProvision(p, device) /\ Provisions[p].type = "Development"
         /\ p \in AutoselectProvision(<<"Development", "Enterprise", "AdHoc">>, device) =>
              p \in provisions /\ ValidProvision(p, device)
              /\ Provisions[p].type \in {"Development", "Enterprise", "AdHoc"}
<1>1. ASSUME NEW type, p \in AutoselectProvision(<<type>>, device)
      PROVE  p \in provisions /\ ValidProvision(p, device) /\ Provisions[p].type = type
  <2> DEFINE types == <<type>>
  <2>1. DOMAIN types = {1} /\ types[1] = type
    <3>1. Len(types) = 1 /\ types \in Seq({type}) /\ types[1] = type
      OBVIOUS
    <3>2. DOMAIN types = 1..1
      BY <3>1
    <3> QED
      BY <3>1, <3>2
  <2> HIDE DEF types
  <2>2. p \in AutoselectProvision(types, device)
    BY <1>1 DEF types
  <2>3. /\ p \in provisions /\ ValidProvision(p, device)
        /\ \E i \in DOMAIN types : Provisions[p].type = types[i]
    BY <2>1, <2>2, SelectedOfType
  <2> QED
    BY <2>1, <2>3
<1>2. ASSUME p \in AutoselectProvision(<<"Development", "Enterprise", "AdHoc">>, device)
      PROVE  p \in provisions /\ ValidProvision(p, device)
              /\ Provisions[p].type \in {"Development", "Enterprise", "AdHoc"}
  <2> DEFINE types == <<"Development", "Enterprise", "AdHoc">>
  <2>1. DOMAIN types = {1, 2, 3}
        /\ types[1] = "Development" /\ types[2] = "Enterprise" /\ types[3] = "AdHoc"
    <3>1. /\ Len(types) = 3 /\ types \in Seq({"Development", "Enterprise", "AdHoc"})
          /\ types[1] = "Development" /\ types[2] = "Enterprise" /\ types[3] = "AdHoc"
      OBVIOUS
    <3>2. DOMAIN types = 1..3
      BY <3>1
    <3> QED
      BY <3>1, <3>2
  <2> HIDE DEF types
  <2>2. p \in AutoselectProvision(types, device)
    BY <1>2 DEF types
  <2>3. /\ p \in provisions /\ ValidProvision(p, device)
        /\ \E i \in DOMAIN types : Provisions[p].type = types[i]
    BY <2>1, <2>2, SelectedOfType
  <2> QED
    BY <2>1, <2>3
<1> QED
  BY <1>1, <1>2

(* Every step of a build. *)
StepFits(f) ==
  /\ Active(f) /\ options' \in Options
  /\ \E b \in Builds : Set(f, b) /\ SelectedFor(b) /\ b.pc \notin {"none", "import"}
                      /\ (b.pc = "done" => Deliver(f))

LEMMA StepsOfActive ==
  ASSUME BuildInv, NEW f \in Fibers, build[f].pc # "none"
  PROVE  Active(f) /\ SelectedFor(build[f]) /\ build[f] \in Builds
BY DEF BuildInv, NotBuilding

LEMMA StoppedFits ==
  ASSUME BuildInv, NEW f \in Fibers, Active(f), options' \in Options, Stop(f)
  PROVE  StepFits(f)
<1> DEFINE b == [NotBuilding EXCEPT !.pc = "failed"]
<1>1. NotBuilding \in Builds
  BY OptionsHold DEF NotBuilding, Builds, BuildPcs
<1>2. b \in Builds /\ b.pc = "failed" /\ b.provision = None /\ b.certificate = None
  BY <1>1 DEF Builds, BuildPcs, NotBuilding
<1> HIDE DEF b
<1>3. SelectedFor(b)
  BY <1>2 DEF SelectedFor, Selecting, Signing
<1>4. Set(f, b)
  BY DEF Stop, b
<1> QED
  BY <1>2, <1>3, <1>4 DEF StepFits

LEMMA RequestFits ==
  ASSUME BuildInv, CommandInv, NEW f \in Fibers, Request(f)
  PROVE  StepFits(f)
<1>1. build[f].pc = "import" /\ UNCHANGED options
  BY DEF Request, BuildAt
<1>2. Active(f) /\ SelectedFor(build[f]) /\ build[f] \in Builds
  BY <1>1, StepsOfActive
<1> DEFINE s == cli.settings
           v == CASE s.platform = "Android" -> "android"
                [] s.platform = "WP8" -> "build"
                [] s.platform = "iOS" /\ options.provision # None -> "findProvision"
                [] s.platform = "iOS" /\ options.provision = None /\ s.simulator ->
                     CertificateStep(options.certificate)
                [] OTHER -> "autoselectProvision"
           c == (options.provision = None /\ options.certificate = None)
           b == [build[f] EXCEPT !.complete = c, !.pc = v]
<1>3. Set(f, b)
  BY DEF Request
<1>4. s.platform \in Platforms /\ (s.simulator \in BOOLEAN)
  BY <1>2 DEF CommandInv, Building, Active, SettingsOf
<1>5. /\ v \in {"android", "build", "findProvision", "autoselectProvision", "findCertificate", "certificate",
                "autoselectCertificate"}
      /\ s.platform = "Android" => v = "android"
      /\ DeviceBuild => v \in {"findProvision", "autoselectProvision"}
  BY <1>4 DEF CertificateStep, Platforms, DeviceBuild
<1> HIDE DEF v, s, c
<1>6. b \in Builds /\ b.pc = v /\ b.provision = build[f].provision /\ b.certificate = build[f].certificate
  <2>1. c \in BOOLEAN
    BY DEF c
  <2>2. v \in BuildPcs
    BY <1>5 DEF BuildPcs
  <2> QED
    BY <1>2, <2>1, <2>2 DEF Builds
<1> HIDE DEF b
<1>7. SelectedFor(b)
  BY <1>2, <1>5, <1>6 DEF SelectedFor, s, Selecting, Signing
<1> QED
  BY <1>1, <1>2, <1>3, <1>5, <1>6, <1>7 DEF StepFits, BuildInv

LEMMA AndroidFits ==
  ASSUME StoreInv, BuildInv, CommandInv, NEW f \in Fibers, Android(f)
  PROVE  StepFits(f)
<1>1. build[f].pc = "android" /\ UNCHANGED options
  BY DEF Android, BuildAt
<1>2. Active(f) /\ SelectedFor(build[f]) /\ build[f] \in Builds /\ options' \in Options
  BY <1>1, StepsOfActive DEF BuildInv
<1>3. \A c \in FindCertificate(options.certificate) \cup FindReleaseCertificate : c \in Aliases
  BY FoundInStore DEF FindReleaseCertificate, StoreInv
<1>4. \/ Stop(f) \/ Step(f, "build")
      \/ \E c \in Aliases : ~Identities[c].ios /\ Set(f, [build[f] EXCEPT !.pc = "build", !.certificate = c])
  BY <1>3 DEF Android
<1>5. ~DeviceBuild
  BY <1>1, <1>2 DEF SelectedFor
<1>6. ASSUME NEW b, b \in Builds, Set(f, b), b.pc = "build", b.provision = build[f].provision,
             b.certificate # None => b.certificate = build[f].certificate \/ ~Identities[b.certificate].ios
      PROVE  StepFits(f)
  <2>1. SelectedFor(b)
    BY <1>2, <1>5, <1>6 DEF SelectedFor, Selecting
  <2> QED
    BY <1>2, <1>6, <2>1 DEF StepFits
<1>7. CASE Step(f, "build")
  <2> DEFINE b == [build[f] EXCEPT !.pc = "build"]
  <2>1. b \in Builds /\ Set(f, b) /\ b.pc = "build" /\ b.provision = build[f].provision
        /\ b.certificate = build[f].certificate
    BY <1>2, <1>7 DEF Step, Builds, BuildPcs
  <2> QED
    BY <1>6, <2>1
<1>8. ASSUME NEW c \in Aliases, ~Identities[c].ios, Set(f, [build[f] EXCEPT !.pc = "build", !.certificate = c])
      PROVE  StepFits(f)
  <2> DEFINE b == [build[f] EXCEPT !.pc = "build", !.certificate = c]
  <2>1. b \in Builds /\ Set(f, b) /\ b.pc = "build" /\ b.provision = build[f].provision
        /\ b.certificate = c
    BY <1>2, <1>8 DEF Builds, BuildPcs
  <2> HIDE DEF b
  <2> QED
    BY <1>6, <1>8, <2>1
<1> QED
  BY <1>2, <1>4, <1>7, <1>8, StoppedFits

LEMMA ProvisionFits ==
  ASSUME BuildInv, CommandInv, NEW f \in Fibers, build[f].pc \in {"findProvision", "autoselectProvision", "fallback"},
         NEW p \in Names, WithProvision(f, p), options' \in Options,
         cli.settings.tam => Provisions[p].type # "AppStore"
  PROVE  StepFits(f)
<1>1. Active(f) /\ SelectedFor(build[f]) /\ build[f] \in Builds
  BY StepsOfActive
<1> DEFINE v == CertificateStep(options.certificate)
           b == [build[f] EXCEPT !.provision = p, !.pc = v]
<1>2. v \in {"findCertificate", "certificate", "autoselectCertificate"} /\ (DeviceBuild => v # "certificate")
  BY DEF CertificateStep, DeviceBuild
<1> HIDE DEF v
<1>3. b \in Builds /\ b.pc = v /\ b.provision = p /\ b.certificate = build[f].certificate
  BY <1>1, <1>2 DEF Builds, BuildPcs
<1>4. Set(f, b)
  BY DEF WithProvision, v
<1> HIDE DEF b
<1>5. SelectedFor(b)
  BY <1>1, <1>2, <1>3 DEF SelectedFor, Selecting, Signing
<1> QED
  BY <1>1, <1>2, <1>3, <1>4, <1>5 DEF StepFits

LEMMA ProvisionStepsFit ==
  ASSUME StoreInv, BuildInv, CommandInv, NEW f \in Fibers,
         FindProvisionOption(f) \/ SelectProvision(f) \/ FallBackToDevelopment(f)
  PROVE  StepFits(f)
<1>1. build[f].pc \in {"findProvision", "autoselectProvision", "fallback"}
  BY DEF FindProvisionOption, SelectProvision, FallBackToDevelopment, BuildAt
<1>2. Active(f) /\ SelectedFor(build[f]) /\ build[f] \in Builds /\ options \in Options
  BY <1>1, StepsOfActive DEF BuildInv
<1>3. SettingsOf(cli.name, cli.settings)
  BY <1>2 DEF CommandInv, Building, Active
<1>4. CASE FindProvisionOption(f)
  <2>1. UNCHANGED options
    BY <1>4 DEF FindProvisionOption
  <2>2. \/ Stop(f)
        \/ \E p \in FindProvision(options.provision) :
             WithProvision(f, p) /\ (cli.settings.tam => Provisions[p].type # "AppStore")
    BY <1>4 DEF FindProvisionOption
  <2>3. FindProvision(options.provision) \subseteq Names
    BY FoundInStore DEF StoreInv
  <2> QED
    BY <1>1, <1>2, <2>1, <2>2, <2>3, StoppedFits, ProvisionFits
<1>5. ASSUME NEW p \in Names, cli.settings.tam => Provisions[p].type # "AppStore",
             options' = [options EXCEPT !.provision = Exactly(p)], WithProvision(f, p)
      PROVE  StepFits(f)
  <2>1. options' \in Options
    BY <1>2, <1>5, OptionsHold
  <2> QED
    BY <1>1, <1>5, <2>1, ProvisionFits
<1>6. ASSUME Step(f, "fallback"), UNCHANGED options
      PROVE  StepFits(f)
  <2> DEFINE b == [build[f] EXCEPT !.pc = "fallback"]
  <2>1. b \in Builds /\ Set(f, b) /\ b.pc = "fallback" /\ b.provision = build[f].provision
        /\ b.certificate = build[f].certificate
    BY <1>2, <1>6 DEF Step, Builds, BuildPcs
  <2> HIDE DEF b
  <2>2. SelectedFor(b)
    BY <1>1, <1>2, <2>1 DEF SelectedFor, Selecting, Signing
  <2> QED
    BY <1>2, <1>6, <2>1, <2>2 DEF StepFits
<1>7. ASSUME Stop(f), UNCHANGED options
      PROVE  StepFits(f)
  BY <1>2, <1>7, StoppedFits
<1>8. ASSUME NEW device, NEW types, types = <<"Development">> \/ types = cli.settings.types,
             NEW p \in AutoselectProvision(types, device)
      PROVE  p \in Names /\ (cli.settings.tam => Provisions[p].type # "AppStore")
  <2>1. /\ types \in {<<"AdHoc">>, <<"AppStore">>, <<"Development">>, <<"Development", "Enterprise", "AdHoc">>}
        /\ cli.settings.tam => types \in {<<"Development">>, <<"Development", "Enterprise", "AdHoc">>}
    BY <1>3, <1>8 DEF SettingsOf
  <2> QED
    BY <2>1, WantedTypes DEF StoreInv
<1>9. CASE SelectProvision(f)
  <2> DEFINE found == AutoselectProvision(cli.settings.types, Device(f))
  <2>1. \/ \E p \in found : options' = [options EXCEPT !.provision = Exactly(p)] /\ WithProvision(f, p)
        \/ Step(f, "fallback") /\ UNCHANGED options
    BY <1>9 DEF SelectProvision, Selected
  <2>2. found \in SUBSET Names /\ \A p \in found : cli.settings.tam => Provisions[p].type # "AppStore"
    BY <1>8
  <2> HIDE DEF found
  <2> QED
    BY <1>5, <1>6, <2>1, <2>2
<1>10. CASE FallBackToDevelopment(f)
  <2> DEFINE found == AutoselectProvision(<<"Development">>, Device(f))
  <2>1. \/ \E p \in found : options' = [options EXCEPT !.provision = Exactly(p)] /\ WithProvision(f, p)
        \/ Stop(f) /\ UNCHANGED options
    BY <1>10 DEF FallBackToDevelopment, Selected
  <2>2. found \in SUBSET Names /\ \A p \in found : cli.settings.tam => Provisions[p].type # "AppStore"
    BY <1>8
  <2> HIDE DEF found
  <2> QED
    BY <1>5, <1>7, <2>1, <2>2
<1> QED
  BY <1>4, <1>9, <1>10

LEMMA CertificateFits ==
  ASSUME StoreInv, BuildInv, CommandInv, NEW f \in Fibers,
         FindCertificateOption(f) \/ SelectCertificate(f) \/ SimulatorCertificate(f)
  PROVE  StepFits(f)
<1>1. build[f].pc \in {"findCertificate", "autoselectCertificate", "certificate"}
  BY DEF FindCertificateOption, SelectCertificate, SimulatorCertificate, BuildAt
<1>2. Active(f) /\ SelectedFor(build[f]) /\ build[f] \in Builds /\ options \in Options
  BY <1>1, StepsOfActive DEF BuildInv
<1>3. ASSUME NEW c \in Aliases \cup {None}, NEW o \in Options, AfterCertificate(f, c, o), options' \in Options,
             c = None => ~DeviceBuild
      PROVE  StepFits(f)
  <2> DEFINE v == IF build[f].complete THEN "build" ELSE "validate"
             b == [build[f] EXCEPT !.certificate = c, !.validate = o, !.pc = v]
  <2>1. v \in {"build", "validate"}
    OBVIOUS
  <2>2. Set(f, b)
    BY <1>3 DEF AfterCertificate
  <2> HIDE DEF v
  <2>3. b \in Builds /\ b.pc = v /\ b.provision = build[f].provision
    BY <1>2, <2>1 DEF Builds, BuildPcs
  <2> HIDE DEF b
  <2>4. SelectedFor(b)
    BY <1>1, <1>2, <2>1, <2>3 DEF SelectedFor, Selecting, Signing
  <2> QED
    BY <1>2, <1>3, <2>1, <2>2, <2>3, <2>4 DEF StepFits
<1>4. CASE FindCertificateOption(f)
  <2>1. UNCHANGED options
    BY <1>4 DEF FindCertificateOption
  <2>2. Stop(f) \/ \E c \in Aliases : AfterCertificate(f, c, options)
    BY <1>4, FoundInStore DEF FindCertificateOption, StoreInv
  <2>3. \A c \in Aliases : c # None
    BY StoreAssumption
  <2> QED
    BY <1>2, <1>3, <2>1, <2>2, <2>3, StoppedFits
<1>5. CASE SelectCertificate(f)
  <2>1. AutoselectCertificate(build[f].provision) \subseteq Aliases
    BY DEF AutoselectCertificate, StoreInv
  <2>2. \/ Stop(f) /\ UNCHANGED options
        \/ \E c \in Aliases : options' = [options EXCEPT !.certificate = Exactly(c)] /\ AfterCertificate(f, c, options')
    BY <1>5, <2>1 DEF SelectCertificate
  <2>3. \A c \in Aliases : c # None /\ [options EXCEPT !.certificate = Exactly(c)] \in Options
    BY <1>2, OptionsHold, StoreAssumption
  <2> QED
    BY <1>2, <1>3, <2>2, <2>3, StoppedFits
<1>6. CASE SimulatorCertificate(f)
  <2>1. build[f].pc = "certificate" /\ AfterCertificate(f, None, options) /\ UNCHANGED options
    BY <1>6 DEF SimulatorCertificate, BuildAt
  <2>2. ~DeviceBuild
    BY <1>2, <2>1 DEF SelectedFor
  <2> QED
    BY <1>2, <1>3, <2>1, <2>2
<1> QED
  BY <1>4, <1>5, <1>6

LEMMA BuiltFits ==
  ASSUME StoreInv, BuildInv, CommandInv, NEW f \in Fibers,
         ThrowIfInvalid(f) \/ BuildProject(f) \/ Deliver(f) \/ BuildFails(f)
  PROVE  StepFits(f)
<1>1. build[f].pc \in {"validate", "build", "built", "import"} /\ UNCHANGED options
  BY DEF ThrowIfInvalid, BuildProject, Deliver, BuildFails, BuildAt
<1>2. Active(f) /\ SelectedFor(build[f]) /\ build[f] \in Builds /\ options \in Options
  BY <1>1, StepsOfActive DEF BuildInv
<1>3. ASSUME NEW b \in Builds, Set(f, b), b.pc \in {"build", "built", "done"}, b.provision = build[f].provision,
             b.certificate = build[f].certificate, build[f].pc \in Signing, b.pc = "done" => Deliver(f)
      PROVE  StepFits(f)
  <2>1. SelectedFor(b)
    BY <1>2, <1>3 DEF SelectedFor, Selecting, Signing
  <2> QED
    BY <1>1, <1>2, <1>3, <2>1 DEF StepFits
<1>4. CASE ThrowIfInvalid(f)
  <2> DEFINE b == [build[f] EXCEPT !.pc = "build"]
  <2>1. b \in Builds /\ b.pc = "build" /\ b.provision = build[f].provision /\ b.certificate = build[f].certificate
    BY <1>2 DEF Builds, BuildPcs
  <2>2. (Stop(f) \/ Set(f, b)) /\ build[f].pc \in Signing
    BY <1>4 DEF ThrowIfInvalid, BuildAt, Step, Signing
  <2> HIDE DEF b
  <2> QED
    BY <1>1, <1>2, <1>3, <2>1, <2>2, StoppedFits
<1>5. CASE BuildProject(f)
  <2> DEFINE b == [build[f] EXCEPT !.pc = "built", !.validate = NoOptions]
  <2>1. b \in Builds /\ b.pc = "built" /\ b.provision = build[f].provision /\ b.certificate = build[f].certificate
    BY <1>2, OptionsHold DEF Builds, BuildPcs
  <2>2. Set(f, b) /\ build[f].pc \in Signing
    BY <1>5 DEF BuildProject, BuildAt, Signing
  <2> HIDE DEF b
  <2> QED
    BY <1>1, <1>2, <1>3, <2>1, <2>2
<1>6. CASE Deliver(f)
  <2> DEFINE p == build[f].provision
             qr == IF cli.settings.qr /\ ~Manual(p) THEN {UrlKind(p)} ELSE {}
             saved == IF cli.settings.download \/ Manual(p) THEN {"download"} ELSE {}
             d == qr \cup saved
             b == [build[f] EXCEPT !.delivered = d, !.pc = "done"]
  <2>1. Set(f, b) /\ build[f].pc \in Signing
    BY <1>6 DEF Deliver, BuildAt, Signing
  <2>2. d \in SUBSET {"manifest", "package", "download"}
    BY DEF UrlKind
  <2> HIDE DEF d
  <2>3. b \in Builds /\ b.pc = "done" /\ b.provision = build[f].provision /\ b.certificate = build[f].certificate
    BY <1>2, <2>2 DEF Builds, BuildPcs
  <2> HIDE DEF b
  <2> QED
    BY <1>1, <1>2, <1>3, <1>6, <2>1, <2>3
<1>7. CASE BuildFails(f)
  BY <1>1, <1>2, <1>7, StoppedFits DEF BuildFails
<1> QED
  BY <1>4, <1>5, <1>6, <1>7

LEMMA BuildStepFits ==
  ASSUME StoreInv, BuildInv, CommandInv, NEW f \in Fibers, BuildStep(f)
  PROVE  StepFits(f) /\ Only
<1>1. StepFits(f)
  BY RequestFits, AndroidFits, ProvisionStepsFit, CertificateFits, BuiltFits DEF BuildStep
<1>2. Only
  BY DEF BuildStep, Request, Android, FindProvisionOption, SelectProvision, FallBackToDevelopment,
         FindCertificateOption, SelectCertificate, SimulatorCertificate, ThrowIfInvalid, BuildProject,
         Deliver, BuildFails
<1> QED
  BY <1>1, <1>2

LEMMA CommandGoesTo ==
  ASSUME CommandInv, Building, NEW v \in {"verifyStore", "building"}, Goto(v), cli.pc # "building"
  PROVE  CommandInv'
<1>1. DOMAIN cli' = DOMAIN cli /\ cli'.pc = v /\ \A x \in DOMAIN cli : x # "pc" => cli'[x] = cli[x]
  BY GotoKeeps, Zenon DEF CommandInv, Named
<1>2. cli'.name = cli.name /\ Named'
  BY <1>1, Zenon DEF CommandInv, Named
<1>3. "settings" \in DOMAIN cli' /\ cli'.settings = cli.settings
  BY <1>1, Zenon DEF CommandInv
<1>4. cli.name = "deploy" => "devices" \in DOMAIN cli' /\ cli'.devices = cli.devices
  BY <1>1, Zenon DEF CommandInv
<1>5. Building' /\ cli'.pc \notin {"groups", "upload", "configureLivePatch", "uploadPatch"}
  BY <1>1 DEF Building
<1>6. /\ cli.name \in Builders /\ SettingsOf(cli.name, cli.settings)
      /\ cli.name = "deploy" => cli.devices \subseteq Devices
      /\ cli.name \in Uploads /\ "package" \in DOMAIN cli
  BY DEF CommandInv
<1>7. cli'.pc # "checkProvision"
  BY <1>1
<1> QED
  BY <1>1, <1>2, <1>3, <1>4, <1>5, <1>6, <1>7, Zenon DEF CommandInv

LEMMA CommandElsewhere ==
  ASSUME Named', cli'.pc \in Ended \cup IdentityPcs \cup {"idle", "ion"}
  PROVE  CommandInv'
BY DEF CommandInv, Building, Ended, IdentityPcs, ServerCalls

LEMMA PackageCarried ==
  ASSUME BuildInv, CommandInv, BuiltForUpload
  PROVE  CommandInv'
<1>1. cli.pc = "building" /\ cli.name \in Uploads
  BY DEF BuiltForUpload, Uploads
<1>2. SettingsOf(cli.name, cli.settings) /\ "package" \in DOMAIN cli /\ Named
  BY <1>1 DEF CommandInv, Building
<1>3. CASE Finish("failed")
  <2>1. Named' /\ cli'.pc \in Ended
    BY <1>3 DEF Finish, Named, Ended
  <2> QED
    BY <2>1, CommandElsewhere
<1>4. ASSUME BuildAt(Main, "done"), NEW v \in {"groups", "upload"},
             cli' = [cli EXCEPT !.pc = v, !.package = Package(Main)]
      PROVE  CommandInv'
  <2>1. build[Main].pc = "done" /\ Main \in Fibers
    BY <1>4 DEF BuildAt, Fibers
  <2>2. SelectedFor(build[Main]) /\ build[Main] \in Builds
    BY <2>1, StepsOfActive
  <2> DEFINE k == Package(Main)
  <2>3. k \in Packages /\ k.to = cli.name
    BY <1>1, <1>2, <2>2 DEF Package, Packages, Builds, SettingsOf, Uploads
  <2>4. PackageFits(k)
    <3>1. cli.settings.tam = (cli.name = "appmanager upload")
      BY <1>2 DEF SettingsOf
    <3>2. k.provision = build[Main].provision /\ k.certificate = build[Main].certificate
          /\ k.platform = cli.settings.platform /\ k.to = cli.name
      BY DEF Package
    <3> QED
      BY <2>2, <3>1, <3>2 DEF PackageFits, SelectedFor
  <2> HIDE DEF k
  <2>5. DOMAIN cli' = DOMAIN cli /\ cli'.pc = v /\ cli'.package = k /\ cli'.name = cli.name
    <3>1. cli' = [cli EXCEPT !.pc = v, !.package = k]
      BY <1>4 DEF k
    <3> QED
      BY <1>2, <3>1, Zenon DEF Named
  <2>6. Named' /\ ~Building' /\ cli'.pc \notin {"configureLivePatch", "uploadPatch"}
    BY <1>2, <2>5 DEF Named, Building
  <2> QED
    BY <1>1, <1>2, <2>3, <2>4, <2>5, <2>6 DEF CommandInv
<1>5. (IF cli.name = "appmanager upload" /\ cli.group THEN "groups" ELSE "upload") \in {"groups", "upload"}
  OBVIOUS
<1>6. \/ Finish("failed")
      \/ BuildAt(Main, "done") /\ \E v \in {"groups", "upload"} : cli' = [cli EXCEPT !.pc = v, !.package = Package(Main)]
  BY <1>5, Zenon DEF BuiltForUpload
<1> QED
  BY <1>3, <1>4, <1>6

LEMMA CommandNext ==
  ASSUME BuildInv, CommandInv, [Next]_vars
  PROVE  CommandInv'
<1>0. Named
  BY DEF CommandInv
<1>1. CASE IdentityStep \/ IdentityProgress
  BY <1>0, <1>1, IdentityStarts, IdentityMoves, CommandElsewhere
<1>2. CASE BuildCommand
  BY <1>2, CommandStarts
<1>3. ASSUME NEW debug \in BOOLEAN, NEW enabled \in LivePatchIn, PublishLivePatch(debug, enabled)
      PROVE  CommandInv'
  <2> DEFINE s == {"Release"} \cup (IF debug THEN {"Debug"} ELSE {})
  <2>1. cli' = [name |-> "appmanager livesync", pc |-> "configureLivePatch", selected |-> s]
    BY <1>3 DEF PublishLivePatch, Start
  <2>2. s \in {{"Release"}, {"Release", "Debug"}}
    OBVIOUS
  <2> HIDE DEF s
  <2>3. /\ Named' /\ cli'.pc = "configureLivePatch" /\ cli'.name = "appmanager livesync"
        /\ "selected" \in DOMAIN cli' /\ cli'.selected = s
    BY <2>1 DEF Named
  <2> QED
    BY <2>2, <2>3 DEF CommandInv, Building
<1>4. CASE UNCHANGED cli
  BY <1>4 DEF CommandInv, Named, Building
<1>5. ASSUME NEW v \in Ended, Finish(v)
      PROVE  CommandInv'
  <2>1. Named' /\ cli'.pc = v
    BY <1>5 DEF Finish, Named
  <2> QED
    BY <1>5, <2>1, CommandElsewhere
<1>6. ASSUME NEW v \in Ended, Goto(v)
      PROVE  CommandInv'
  <2>1. Named' /\ cli'.pc = v
    BY <1>0, <1>6, GotoKeeps, Zenon DEF Named
  <2> QED
    BY <1>6, <2>1, CommandElsewhere
<1>7. CASE DeployToIon \/ BuildEnds \/ DeployEnds \/ UploadApplication \/ UploadPatch
  BY <1>5, <1>6, <1>7 DEF DeployToIon, BuildEnds, Built, DeployEnds, UploadApplication, UploadPatch, Ended
<1>8. CASE VerifyStoreCreated \/ CheckProvision
  <2>1. Building /\ cli.pc # "building" /\ (Goto("building") \/ Goto("verifyStore") \/ Finish("failed"))
    BY <1>8 DEF VerifyStoreCreated, CheckProvision, Building
  <2> QED
    BY <1>5, <2>1, CommandGoesTo DEF Ended
<1>9. CASE BuiltForUpload
  BY <1>9, PackageCarried
<1>10. CASE FindGroups
  <2>1. CASE Goto("upload")
    <3>1. cli.pc = "groups"
      BY <1>10 DEF FindGroups
    <3>2. cli.name \in Uploads /\ "package" \in DOMAIN cli
          /\ cli.package \in Packages /\ cli.package.to = cli.name /\ PackageFits(cli.package)
      BY <3>1 DEF CommandInv
    <3>3. DOMAIN cli' = DOMAIN cli /\ cli'.pc = "upload" /\ cli'.name = cli.name /\ cli'.package = cli.package
      BY <1>0, <2>1, <3>2, GotoKeeps, Zenon DEF Named
    <3>4. Named' /\ ~Building' /\ cli'.pc \notin {"configureLivePatch", "uploadPatch"}
      BY <1>0, <3>3 DEF Named, Building
    <3> QED
      BY <3>2, <3>3, <3>4, Zenon DEF CommandInv
  <2> QED
    BY <1>5, <1>10, <2>1 DEF FindGroups, Ended
<1>11. CASE ConfigureLivePatchPlugin
  <2>1. CASE Goto("uploadPatch")
    <3>1. cli.pc = "configureLivePatch"
      BY <1>11 DEF ConfigureLivePatchPlugin
    <3>2. cli.name = "appmanager livesync" /\ "selected" \in DOMAIN cli
          /\ cli.selected \in {{"Release"}, {"Release", "Debug"}}
      BY <3>1 DEF CommandInv
    <3>3. DOMAIN cli' = DOMAIN cli /\ cli'.pc = "uploadPatch" /\ cli'.name = cli.name /\ cli'.selected = cli.selected
      BY <1>0, <2>1, <3>2, GotoKeeps, Zenon DEF Named
    <3>4. Named' /\ ~Building' /\ cli'.pc \notin {"groups", "upload"}
      BY <1>0, <3>3 DEF Named, Building
    <3> QED
      BY <3>2, <3>3, <3>4, Zenon DEF CommandInv
  <2> QED
    BY <1>5, <1>11, <2>1 DEF ConfigureLivePatchPlugin, Ended
<1>12. ASSUME NEW f \in Fibers, DeployTo(f) \/ PackageBuilt(f) \/ ReinstallApplication(f) \/ BuildStep(f)
       PROVE  UNCHANGED cli
  BY <1>12 DEF DeployTo, PackageBuilt, ReinstallApplication, BuildStep, Request, Android, FindProvisionOption,
               SelectProvision, FallBackToDevelopment, FindCertificateOption, SelectCertificate,
               SimulatorCertificate, ThrowIfInvalid, BuildProject, Deliver, BuildFails, Only
<1>13. CASE BuildProgress
  BY <1>4, <1>7, <1>8, <1>9, <1>10, <1>11, <1>12, <1>13 DEF BuildProgress
<1>14. CASE CommandExit
  <2>1. cli' = Idle
    BY <1>14 DEF CommandExit, Exit
  <2> QED
    BY <2>1 DEF CommandInv, Named, Idle, Building
<1>15. CASE PortalChange \/ UNCHANGED vars
  BY <1>4, <1>15 DEF PortalChange, vars
<1> QED
  BY <1>1, <1>2, <1>3, <1>13, <1>14, <1>15 DEF Next, Progress

(* Builds under every step: nothing is built until a command builds, and    *)
(* nothing is left when its builds have ended.                             *)
LEMMA NewBuildFits ==
  /\ NotBuilding \in Builds /\ NewBuild \in Builds /\ NewBuild.pc = "import"
  /\ NewBuild.provision = None /\ NewBuild.certificate = None
  /\ NotBuilding.pc = "none" /\ NotBuilding.provision = None /\ NotBuilding.certificate = None
  /\ SelectedFor(NewBuild) /\ SelectedFor(NewBuild)'
<1>1. NotBuilding \in Builds
  BY OptionsHold DEF NotBuilding, Builds, BuildPcs
<1>2. NewBuild \in Builds /\ NewBuild.pc = "import" /\ NewBuild.provision = None /\ NewBuild.certificate = None
  BY <1>1 DEF NewBuild, Builds, BuildPcs, NotBuilding
<1>3. NotBuilding.pc = "none" /\ NotBuilding.provision = None /\ NotBuilding.certificate = None
  BY DEF NotBuilding
<1>4. SelectedFor(NewBuild)
  BY <1>2 DEF SelectedFor, Selecting, Signing
<1>5. SelectedFor(NewBuild)'
  BY <1>2 DEF SelectedFor, Selecting, Signing, DeviceBuild
<1> QED
  BY <1>1, <1>2, <1>3, <1>4, <1>5

LEMMA NobodyBuilds ==
  ASSUME BuildInv, cli.pc # "building"
  PROVE  build = [f \in Fibers |-> NotBuilding]
BY DEF BuildInv, Active

LEMMA BuildsQuietly ==
  ASSUME BuildInv, cli.pc # "building", UNCHANGED build, options' \in Options
  PROVE  BuildInv'
<1>1. build' = [f \in Fibers |-> NotBuilding]
  BY NobodyBuilds
<1> QED
  BY <1>1, NewBuildFits DEF BuildInv

LEMMA MainStarts ==
  ASSUME BuildInv, cli.pc # "building", StartBuild(Main), options' \in Options,
         cli'.pc = "building", cli'.name # "deploy"
  PROVE  BuildInv'
<1>1. build = [f \in Fibers |-> NotBuilding]
  BY NobodyBuilds
<1>2. build' = [build EXCEPT ![Main] = NewBuild] /\ Main \in Fibers
  BY DEF StartBuild, Set, Fibers
<1>3. \A f \in Fibers : build'[f] = IF f = Main THEN NewBuild ELSE NotBuilding
  BY <1>1, <1>2
<1>4. build' \in [Fibers -> Builds]
  BY <1>1, <1>2, NewBuildFits
<1>5. Active(Main)' /\ SelectedFor(build[Main])'
  <2>1. SelectedFor(NewBuild)'
    BY NewBuildFits
  <2>2. build'[Main] = NewBuild
    BY <1>2, <1>3
  <2> QED
    BY <2>1, <2>2 DEF Active, SelectedFor, NewBuild, NotBuilding
<1> QED
  BY <1>3, <1>4, <1>5 DEF BuildInv

LEMMA OneMoves ==
  ASSUME BuildInv, NEW f \in Fibers, NEW b \in Builds, Set(f, b), Active(f), SelectedFor(b), UNCHANGED cli,
         options' \in Options
  PROVE  BuildInv'
<1>1. build' \in [Fibers -> Builds] /\ build'[f] = b /\ \A g \in Fibers : g # f => build'[g] = build[g]
  BY DEF BuildInv, Set
<1>2. ASSUME NEW g \in Fibers
      PROVE  build'[g] = NotBuilding \/ (Active(g)' /\ SelectedFor(build[g])')
  <2>1. Active(g)' <=> Active(g)
    BY DEF Active
  <2>2. SelectedFor(build'[g]) => SelectedFor(build[g])'
    BY DEF SelectedFor, DeviceBuild
  <2>3. build'[g] = NotBuilding \/ (Active(g) /\ SelectedFor(build'[g]))
    BY <1>1 DEF BuildInv
  <2> QED
    BY <2>1, <2>2, <2>3
<1> QED
  BY <1>1, <1>2 DEF BuildInv

LEMMA DeployFits ==
  ASSUME BuildInv, CommandInv, NEW f \in Fibers, DeployTo(f) \/ PackageBuilt(f) \/ ReinstallApplication(f)
  PROVE  /\ BuildInv' /\ UNCHANGED <<cli, store, local, options>> /\ cli.name = "deploy" /\ f \in Devices
         /\ \E b \in Builds : Set(f, b) /\ b.pc \in {"tooOld", "ready", "installed", "import"}
            /\ (b.pc = "import" => build[f].pc = "none")
<1>1. UNCHANGED <<cli, store, local, options>>
  BY DEF DeployTo, PackageBuilt, ReinstallApplication, Others
<1>2. Active(f) /\ cli.name = "deploy" /\ f \in cli.devices /\ cli.pc = "building"
  BY DEF DeployTo, PackageBuilt, ReinstallApplication, In, Active
<1>3. f \in Devices
  BY <1>2 DEF CommandInv, Building
<1>4. build[f] \in Builds /\ (build[f].pc = "none" \/ SelectedFor(build[f]))
  BY NewBuildFits DEF BuildInv
<1>5. ASSUME NEW v \in {"tooOld", "ready", "installed"}, Step(f, v)
      PROVE  \E b \in Builds : Set(f, b) /\ b.pc = v /\ SelectedFor(b)
  <2> DEFINE b == [build[f] EXCEPT !.pc = v]
  <2>1. b \in Builds /\ b.pc = v /\ b.provision = build[f].provision /\ b.certificate = build[f].certificate
    BY <1>4 DEF Builds, BuildPcs
  <2>2. Set(f, b)
    BY <1>5 DEF Step
  <2> HIDE DEF b
  <2>3. SelectedFor(build[f]) \/ (build[f].provision = None /\ build[f].certificate = None)
    BY NewBuildFits DEF BuildInv
  <2>4. SelectedFor(b)
    BY <2>1, <2>3 DEF SelectedFor, Selecting, Signing
  <2> QED
    BY <2>1, <2>2, <2>4
<1>6. ASSUME Set(f, [NotBuilding EXCEPT !.pc = "ready"])
      PROVE  \E b \in Builds : Set(f, b) /\ b.pc = "ready" /\ SelectedFor(b)
  <2> DEFINE b == [NotBuilding EXCEPT !.pc = "ready"]
  <2>1. b \in Builds /\ b.pc = "ready" /\ b.provision = None /\ b.certificate = None
    BY NewBuildFits DEF Builds, BuildPcs
  <2> HIDE DEF b
  <2>2. SelectedFor(b)
    BY <2>1 DEF SelectedFor, Selecting, Signing
  <2>3. Set(f, b)
    BY <1>6 DEF b
  <2> QED
    BY <2>1, <2>2, <2>3
<1>7. ASSUME StartBuild(f)
      PROVE  \E b \in Builds : Set(f, b) /\ b.pc = "import" /\ SelectedFor(b)
  BY <1>7, NewBuildFits DEF StartBuild
<1>8. PICK b \in Builds : Set(f, b) /\ b.pc \in {"tooOld", "ready", "installed", "import"} /\ SelectedFor(b)
            /\ (b.pc = "import" => build[f].pc = "none")
  <2>1. \/ Step(f, "tooOld") \/ Step(f, "ready") \/ Step(f, "installed")
        \/ StartBuild(f) /\ build[f].pc = "none"
        \/ Set(f, [NotBuilding EXCEPT !.pc = "ready"])
    BY DEF DeployTo, PackageBuilt, ReinstallApplication, BuildAt
  <2> QED
    BY <1>5, <1>6, <1>7, <2>1
<1>9. BuildInv'
  BY <1>1, <1>2, <1>8, OneMoves DEF BuildInv
<1> QED
  BY <1>1, <1>2, <1>3, <1>8, <1>9

LEMMA BuildInit == Init => BuildInv /\ CommandInv
<1> SUFFICES ASSUME Init
             PROVE  BuildInv /\ CommandInv
  OBVIOUS
<1>1. cli = Idle /\ options = NoOptions /\ build = [f \in Fibers |-> NotBuilding]
  BY DEF Init
<1>2. CommandInv
  BY <1>1 DEF CommandInv, Named, Idle, Building
<1>3. BuildInv
  BY <1>1, NewBuildFits, OptionsHold DEF BuildInv
<1> QED
  BY <1>2, <1>3

LEMMA OptionSetsHold == OptionSets \subseteq Options
BY DistributionAssumption DEF Options

LEMMA BuildNext ==
  ASSUME StoreInv, BuildInv, CommandInv, [Next]_vars
  PROVE  BuildInv'
<1>1. CASE (IdentityStep \/ IdentityProgress) /\ UNCHANGED buildVars
  <2>1. cli.pc # "building"
    BY <1>1, IdentityStarts, IdentityMoves DEF CommandInv, IdentityPcs, ServerCalls
  <2> QED
    BY <1>1, <2>1, BuildsQuietly DEF buildVars, BuildInv
<1>2. CASE BuildCommand
  <2>1. cli.pc = "idle"
    BY <1>2, BuildStarts
  <2>2. options' \in Options
    BY <1>2, CommandStarts, OptionSetsHold
  <2> QED
    BY <1>2, <2>1, <2>2, CommandStarts, BuildsQuietly, MainStarts
<1>3. ASSUME NEW debug \in BOOLEAN, NEW enabled \in LivePatchIn, PublishLivePatch(debug, enabled)
      PROVE  BuildInv'
  <2>1. cli.pc = "idle" /\ UNCHANGED <<options, build>>
    BY <1>3 DEF PublishLivePatch, Start
  <2> QED
    BY <2>1, BuildsQuietly DEF BuildInv
<1>4. CASE DeployToIon \/ FindGroups \/ UploadApplication \/ CheckProvision \/ ConfigureLivePatchPlugin \/ UploadPatch
  <2>1. cli.pc # "building" /\ UNCHANGED <<options, build>>
    BY <1>4 DEF DeployToIon, FindGroups, UploadApplication, CheckProvision, ConfigureLivePatchPlugin, UploadPatch,
                Others, In
  <2> QED
    BY <2>1, BuildsQuietly DEF BuildInv
<1>5. CASE VerifyStoreCreated
  <2>1. UNCHANGED options /\ cli.pc = "verifyStore"
    BY <1>5 DEF VerifyStoreCreated, Others
  <2>2. CASE Goto("building") /\ StartBuild(Main)
    <3>1. cli'.pc = "building" /\ cli'.name = cli.name
      BY <2>2, GotoKeeps, Zenon DEF CommandInv, Named
    <3>2. CASE cli.name # "deploy"
      BY <2>1, <2>2, <3>1, <3>2, MainStarts DEF BuildInv
    <3>3. cli.name # "deploy"
      BY <2>1 DEF CommandInv, Building, Uploads
    <3> QED
      BY <3>2, <3>3
  <2> QED
    BY <1>5, <2>1, <2>2, BuildsQuietly DEF VerifyStoreCreated, BuildInv
<1>6. CASE BuildEnds \/ BuiltForUpload
  <2>1. cli.name # "deploy" /\ build' = [build EXCEPT ![Main] = NotBuilding] /\ UNCHANGED options
    BY <1>6 DEF BuildEnds, Built, BuiltForUpload, Others
  <2>2. \A f \in Fibers : build'[f] = NotBuilding
    BY <2>1 DEF BuildInv, Active
  <2>3. build' \in [Fibers -> Builds]
    BY <2>1, NewBuildFits DEF BuildInv
  <2> QED
    BY <2>1, <2>2, <2>3 DEF BuildInv
<1>7. CASE DeployEnds
  <2>1. build' = [f \in Fibers |-> NotBuilding] /\ UNCHANGED options
    BY <1>7 DEF DeployEnds, Others
  <2> QED
    BY <2>1, NewBuildFits DEF BuildInv
<1>8. ASSUME NEW f \in Fibers, BuildStep(f)
      PROVE  BuildInv'
  <2>1. StepFits(f) /\ UNCHANGED cli
    BY <1>8, BuildStepFits DEF Only
  <2> QED
    BY <2>1, OneMoves DEF StepFits
<1>9. CASE BuildProgress
  BY <1>4, <1>5, <1>6, <1>7, <1>8, <1>9, DeployFits DEF BuildProgress
<1>10. CASE CommandExit
  <2>1. cli.pc \in {"ok", "failed"} /\ UNCHANGED build /\ options' = NoOptions
    BY <1>10 DEF CommandExit, Exit
  <2> QED
    BY <2>1, BuildsQuietly, OptionsHold
<1>11. CASE UNCHANGED <<cli, options, build>>
  <2>1. ASSUME NEW f \in Fibers
        PROVE  (Active(f) <=> Active(f)') /\ (SelectedFor(build[f]) <=> SelectedFor(build[f])')
    BY <1>11 DEF Active, SelectedFor, DeviceBuild
  <2> QED
    BY <1>11, <2>1 DEF BuildInv
<1>12. CASE (PortalChange /\ UNCHANGED <<local, buildVars>>) \/ UNCHANGED vars
  BY <1>11, <1>12 DEF PortalChange, buildVars, vars
<1> QED
  BY <1>1, <1>2, <1>3, <1>9, <1>10, <1>12 DEF Next, Progress

--------------------------------------------------------------------------
(* What leaves a command: packages for AppManager, and updates. *)
TargetInv ==
  /\ target \in Targets
  /\ target.uploaded # None => PackageFits(target.uploaded)
  /\ UpdateHasPlugin
  /\ cli.pc = "uploadPatch" /\ cli.selected = {"Release"} => "Release" \in target.livePatch

LEMMA TargetInit == Init => TargetInv
<1> SUFFICES ASSUME Init
             PROVE  TargetInv
  OBVIOUS
<1>1. target = NoTarget /\ cli.pc = "idle"
  BY DEF Init, Idle
<1>2. target \in Targets
  BY <1>1 DEF NoTarget, Targets
<1> QED
  BY <1>1, <1>2 DEF TargetInv, UpdateHasPlugin, NoTarget

LEMMA TargetStays ==
  ASSUME TargetInv, UNCHANGED target, UNCHANGED cli \/ cli'.pc # "uploadPatch"
  PROVE  TargetInv'
<1>1. target' \in Targets /\ (target'.uploaded # None => PackageFits(target'.uploaded)) /\ UpdateHasPlugin'
  BY DEF TargetInv, UpdateHasPlugin
<1>2. (target.uploaded # None => PackageFits(target.uploaded))'
  BY <1>1 DEF PackageFits
<1> QED
  BY <1>1, <1>2 DEF TargetInv

LEMMA TargetChanges ==
  ASSUME TargetInv, target' \in Targets, target'.uploaded = target.uploaded, target'.published = target.published,
         cli'.pc # "uploadPatch" \/ (cli'.selected = {"Release"} => "Release" \in target'.livePatch)
  PROVE  TargetInv'
<1>1. (target.uploaded # None => PackageFits(target.uploaded))'
  BY DEF TargetInv, PackageFits
<1>2. UpdateHasPlugin'
  BY DEF TargetInv, UpdateHasPlugin
<1> QED
  BY <1>1, <1>2 DEF TargetInv

LEMMA TargetNext ==
  ASSUME StoreInv, BuildInv, CommandInv, TargetInv, [Next]_vars
  PROVE  TargetInv'
<1>0. Named
  BY DEF CommandInv
<1>1. CASE (IdentityStep \/ IdentityProgress) /\ UNCHANGED buildVars
  <2>1. cli'.pc # "uploadPatch"
    BY <1>0, <1>1, IdentityStarts, IdentityMoves DEF IdentityPcs, ServerCalls, Ended
  <2> QED
    BY <1>1, <2>1, TargetStays DEF buildVars
<1>2. CASE BuildCommand
  <2>1. CommandInv' /\ cli'.name \in Builders /\ UNCHANGED target
    BY <1>2, CommandStarts
  <2>2. cli'.pc # "uploadPatch"
    BY <2>1 DEF CommandInv, Builders
  <2> QED
    BY <2>1, <2>2, TargetStays
<1>3. ASSUME NEW debug \in BOOLEAN, NEW enabled \in LivePatchIn, PublishLivePatch(debug, enabled)
      PROVE  TargetInv'
  <2>1. target' = [NoTarget EXCEPT !.livePatch = enabled] /\ cli'.pc = "configureLivePatch"
    BY <1>3 DEF PublishLivePatch, Start
  <2>2. NoTarget \in Targets
    BY DEF NoTarget, Targets
  <2>3. target' \in Targets /\ target'.uploaded = None /\ target'.published = None
    BY <2>1, <2>2, DistributionAssumption DEF Targets, NoTarget
  <2> QED
    BY <2>1, <2>3 DEF TargetInv, UpdateHasPlugin
<1>4. ASSUME NEW v, Finish(v) \/ Goto(v), v # "uploadPatch"
      PROVE  cli'.pc # "uploadPatch"
  BY <1>0, <1>4, GotoKeeps DEF Finish, Named
<1>5. CASE DeployToIon \/ BuildEnds \/ DeployEnds \/ VerifyStoreCreated \/ FindGroups \/ CheckProvision
  <2>1. UNCHANGED target /\ \E v : v # "uploadPatch" /\ (Finish(v) \/ Goto(v))
    BY <1>5 DEF DeployToIon, BuildEnds, Built, DeployEnds, VerifyStoreCreated, FindGroups, CheckProvision
  <2> QED
    BY <1>4, <2>1, TargetStays
<1>6. CASE BuiltForUpload
  <2>1. CommandInv' /\ UNCHANGED target /\ cli.name \in Uploads
    BY <1>6, PackageCarried DEF BuiltForUpload, Uploads
  <2>2. cli'.name = cli.name
    BY <1>0, <1>6, BuildMoves DEF BuildProgress
  <2> QED
    BY <2>1, <2>2, TargetStays DEF CommandInv, Uploads
<1>7. CASE UploadApplication
  <2>1. cli.pc = "upload" /\ \E v : v # "uploadPatch" /\ Finish(v)
    BY <1>7 DEF UploadApplication
  <2>2. cli'.pc # "uploadPatch"
    BY <1>4, <2>1
  <2>3. CASE target' = [target EXCEPT !.uploaded = cli.package]
    <3>1. cli.package \in Packages /\ PackageFits(cli.package)
      BY <2>1 DEF CommandInv
    <3>2. /\ target' \in Targets /\ target'.uploaded = cli.package /\ target'.published = target.published
      BY <2>3, <3>1 DEF TargetInv, Targets
    <3>3. PackageFits(target.uploaded)'
      BY <3>1, <3>2 DEF PackageFits
    <3>4. UpdateHasPlugin'
      BY <3>2 DEF UpdateHasPlugin, TargetInv
    <3> QED
      BY <2>2, <3>2, <3>3, <3>4 DEF TargetInv
  <2> QED
    BY <1>7, <2>2, <2>3, TargetStays DEF UploadApplication
<1>8. CASE ConfigureLivePatchPlugin
  <2>1. cli.pc = "configureLivePatch" /\ "selected" \in DOMAIN cli /\ cli.selected \in {{"Release"}, {"Release", "Debug"}}
    BY <1>8 DEF ConfigureLivePatchPlugin, CommandInv
  <2>2. CASE Finish("failed") /\ UNCHANGED target
    BY <1>4, <2>2, TargetStays
  <2>3. CASE /\ target' = [target EXCEPT !.livePatch = IF cli.selected \cap @ = {} THEN @ \cup cli.selected ELSE @]
             /\ Goto("uploadPatch")
    <3>1. cli'.selected = cli.selected
      BY <1>0, <2>1, <2>3, GotoKeeps, Zenon DEF Named
    <3> DEFINE l == IF cli.selected \cap target.livePatch = {} THEN target.livePatch \cup cli.selected
                    ELSE target.livePatch
    <3>2. target' = [target EXCEPT !.livePatch = l]
      BY <2>3
    <3>3. target.livePatch \in SUBSET {"Debug", "Release"}
      BY DEF TargetInv, Targets
    <3>4. l \in SUBSET {"Debug", "Release"} /\ (cli.selected = {"Release"} => "Release" \in l)
      BY <2>1, <3>3
    <3> HIDE DEF l
    <3>5. /\ target' \in Targets /\ target'.uploaded = target.uploaded /\ target'.published = target.published
          /\ target'.livePatch = l
      BY <3>2, <3>4 DEF TargetInv, Targets
    <3> QED
      BY <3>1, <3>4, <3>5, TargetChanges
  <2> QED
    BY <1>8, <2>2, <2>3 DEF ConfigureLivePatchPlugin
<1>9. CASE UploadPatch
  <2>1. cli.pc = "uploadPatch" /\ \E v : v # "uploadPatch" /\ Finish(v)
    BY <1>9 DEF UploadPatch
  <2>2. cli'.pc # "uploadPatch" /\ cli.selected \in {{"Release"}, {"Release", "Debug"}}
    BY <1>4, <2>1 DEF CommandInv
  <2> DEFINE r == [selected |-> cli.selected, plugin |-> target.livePatch]
  <2>3. CASE target' = [target EXCEPT !.published = r]
    <3>1. r \in [selected : SUBSET {"Debug", "Release"}, plugin : SUBSET {"Debug", "Release"}]
      BY <2>2 DEF TargetInv, Targets
    <3>2. r.selected = {"Release"} => "Release" \in r.plugin
      BY <2>1 DEF TargetInv
    <3> HIDE DEF r
    <3>3. target' \in Targets /\ target'.uploaded = target.uploaded /\ target'.published = r
      BY <2>3, <3>1 DEF TargetInv, Targets
    <3>4. UpdateHasPlugin'
      BY <3>2, <3>3 DEF UpdateHasPlugin
    <3>5. (target.uploaded # None => PackageFits(target.uploaded))'
      BY <3>3 DEF TargetInv, PackageFits
    <3> QED
      BY <2>2, <3>3, <3>4, <3>5 DEF TargetInv
  <2> QED
    BY <1>9, <2>2, <2>3, TargetStays DEF UploadPatch
<1>10. ASSUME NEW f \in Fibers, DeployTo(f) \/ PackageBuilt(f) \/ ReinstallApplication(f)
       PROVE  TargetInv'
  <2>1. f \in Devices /\ UNCHANGED cli
    BY <1>10, DeployFits
  <2>2. \/ UNCHANGED target \/ target' = [target EXCEPT !.packageFile = f]
        \/ target' = [target EXCEPT !.installed[f] = target.packageFile]
    BY <1>10 DEF DeployTo, PackageBuilt, ReinstallApplication
  <2>3. CASE target' = [target EXCEPT !.packageFile = f]
    <3>1. target' \in Targets /\ target'.uploaded = target.uploaded /\ target'.published = target.published
          /\ target'.livePatch = target.livePatch
      BY <2>1, <2>3 DEF TargetInv, Targets
    <3> QED
      BY <2>1, <3>1, TargetChanges DEF TargetInv
  <2>4. CASE target' = [target EXCEPT !.installed[f] = target.packageFile]
    <3>1. target' \in Targets /\ target'.uploaded = target.uploaded /\ target'.published = target.published
          /\ target'.livePatch = target.livePatch
      BY <2>1, <2>4 DEF TargetInv, Targets
    <3> QED
      BY <2>1, <3>1, TargetChanges DEF TargetInv
  <2> QED
    BY <2>1, <2>2, <2>3, <2>4, TargetStays
<1>11. ASSUME NEW f \in Fibers, BuildStep(f)
       PROVE  TargetInv'
  BY <1>11, BuildStepFits, TargetStays DEF Only
<1>12. CASE BuildProgress
  BY <1>5, <1>6, <1>7, <1>8, <1>9, <1>10, <1>11, <1>12 DEF BuildProgress
<1>13. CASE CommandExit
  <2>1. target' = NoTarget /\ cli'.pc = "idle"
    BY <1>13 DEF CommandExit, Exit, Idle
  <2>2. target' \in Targets
    BY <2>1 DEF NoTarget, Targets
  <2> QED
    BY <2>1, <2>2 DEF TargetInv, UpdateHasPlugin, NoTarget
<1>14. CASE (PortalChange /\ UNCHANGED <<local, buildVars>>) \/ UNCHANGED vars
  BY <1>14, TargetStays DEF PortalChange, buildVars, vars
<1> QED
  BY <1>1, <1>2, <1>3, <1>12, <1>13, <1>14 DEF Next, Progress

--------------------------------------------------------------------------
(* How a build for a device goes on, one disjunct for each way.  Looking: the  *)
(* fiber looks for a provision itself, as none was given when it asked.    *)
Looking == {"autoselectProvision", "fallback"}

Requested(g) ==
  /\ build[g].pc = "import" /\ UNCHANGED options
  /\ build'[g].complete = (options.provision = None /\ options.certificate = None)
  /\ build'[g].provision = build[g].provision
  /\ build'[g].pc = IF options.provision # None THEN "findProvision" ELSE "autoselectProvision"

ProvisionFound(g) ==
  /\ build[g].pc = "findProvision" /\ UNCHANGED options
  /\ build'[g].provision \in FindProvision(options.provision)
  /\ build'[g].complete = build[g].complete
  /\ build'[g].pc = CertificateStep(options.certificate)

ProvisionSelected(g) ==
  /\ build[g].pc \in Looking
  /\ build'[g].provision \in provisions /\ ValidProvision(build'[g].provision, Device(g))
  /\ cli.name = "appstore upload" => Provisions[build'[g].provision].type \in {"AppStore", "Development"}
  /\ options' = [options EXCEPT !.provision = Exactly(build'[g].provision)]
  /\ build'[g].complete = build[g].complete
  /\ build'[g].pc = CertificateStep(options.certificate)

FallsBack(g) ==
  /\ build[g].pc \in Looking /\ build'[g].pc = "fallback" /\ UNCHANGED options
  /\ build'[g].complete = build[g].complete /\ build'[g].provision = build[g].provision

CertificateKnown(g) ==
  /\ build'[g].provision = build[g].provision /\ build'[g].validate = options'
  /\ build'[g].pc = IF build[g].complete THEN "build" ELSE "validate"

CertificateFound(g) ==
  /\ build[g].pc = "findCertificate" /\ UNCHANGED options
  /\ build'[g].certificate \in FindCertificate(options.certificate)
  /\ CertificateKnown(g)

CertificateSelected(g) ==
  /\ build[g].pc = "autoselectCertificate"
  /\ build'[g].certificate \in AutoselectCertificate(build[g].provision)
  /\ options' = [options EXCEPT !.certificate = Exactly(build'[g].certificate)]
  /\ CertificateKnown(g)

GoesOn(g) ==
  /\ UNCHANGED options
  /\ build'[g].provision = build[g].provision /\ build'[g].certificate = build[g].certificate
  /\ \/ build[g].pc = "validate" /\ Valid(build[g].validate, Device(g)) /\ build'[g].pc = "build"
     \/ build[g].pc \in {"build", "built"} /\ build'[g].pc \in {"built", "done"}

Stopped(g) == build'[g].pc = "failed" /\ build'[g].provision = None /\ UNCHANGED options

DeviceStep(g) ==
  \/ Requested(g) \/ ProvisionFound(g) \/ ProvisionSelected(g) \/ FallsBack(g) \/ CertificateFound(g)
  \/ CertificateSelected(g) \/ GoesOn(g) \/ Stopped(g)

LEMMA DeviceSteps ==
  ASSUME StoreInv, BuildInv, CommandInv, DeviceBuild, NEW g \in Fibers, BuildStep(g)
  PROVE  DeviceStep(g) /\ \A h \in Fibers : h # g => build'[h] = build[h]
<1>1. build \in [Fibers -> Builds] /\ build[g] \in Builds
  BY DEF BuildInv
<1>0. \A h \in Fibers : h # g => build'[h] = build[h]
  <2>1. StepFits(g)
    BY BuildStepFits
  <2> QED
    BY <1>1, <2>1 DEF StepFits, Set
<1> SUFFICES DeviceStep(g)
  BY <1>0
<1>2. ASSUME NEW b, Set(g, b)
      PROVE  build'[g] = b
  BY <1>1, <1>2 DEF Set
<1>3. Active(g) /\ SelectedFor(build[g]) /\ SettingsOf(cli.name, cli.settings)
  <2>1. build[g].pc # "none"
    BY DEF BuildStep, Request, Android, FindProvisionOption, SelectProvision, FallBackToDevelopment,
           FindCertificateOption, SelectCertificate, SimulatorCertificate, ThrowIfInvalid, BuildProject,
           Deliver, BuildFails, BuildAt
  <2> QED
    BY <2>1, StepsOfActive DEF CommandInv, Active, Building
<1>4. ASSUME Stop(g), UNCHANGED options
      PROVE  Stopped(g)
  <2>1. build'[g] = [NotBuilding EXCEPT !.pc = "failed"]
    BY <1>2, <1>4 DEF Stop
  <2> QED
    BY <1>4, <2>1 DEF Stopped, NotBuilding
<1>5. CASE Request(g)
  <2>1. cli.settings.platform = "iOS" /\ ~cli.settings.simulator
    BY DEF DeviceBuild
  <2> DEFINE c == (options.provision = None /\ options.certificate = None)
             v == IF options.provision # None THEN "findProvision" ELSE "autoselectProvision"
  <2>2. Set(g, [build[g] EXCEPT !.complete = c, !.pc = v]) /\ build[g].pc = "import" /\ UNCHANGED options
    BY <1>5, <2>1 DEF Request, BuildAt
  <2>3. build'[g] = [build[g] EXCEPT !.complete = c, !.pc = v]
    BY <1>2, <2>2
  <2> HIDE DEF c, v
  <2>4. build'[g].complete = c /\ build'[g].pc = v /\ build'[g].provision = build[g].provision
    BY <1>1, <2>3 DEF Builds
  <2> QED
    BY <2>2, <2>4 DEF DeviceStep, Requested, c, v
<1>6. ~Android(g) /\ ~SimulatorCertificate(g)
  BY <1>3 DEF Android, SimulatorCertificate, BuildAt, SelectedFor
<1>7. ASSUME NEW p, WithProvision(g, p)
      PROVE  /\ build'[g].provision = p /\ build'[g].complete = build[g].complete
             /\ build'[g].pc = CertificateStep(options.certificate)
  <2> DEFINE v == CertificateStep(options.certificate)
  <2>1. build'[g] = [build[g] EXCEPT !.provision = p, !.pc = v]
    BY <1>2, <1>7 DEF WithProvision
  <2> HIDE DEF v
  <2>2. build'[g].provision = p /\ build'[g].complete = build[g].complete /\ build'[g].pc = v
    BY <1>1, <2>1 DEF Builds
  <2> QED
    BY <2>2 DEF v
<1>8. CASE FindProvisionOption(g)
  <2>1. \/ Stop(g)
        \/ \E p \in FindProvision(options.provision) : WithProvision(g, p)
    BY <1>8 DEF FindProvisionOption
  <2>2. UNCHANGED options /\ build[g].pc = "findProvision"
    BY <1>8 DEF FindProvisionOption, BuildAt
  <2> QED
    BY <1>4, <1>7, <2>1, <2>2 DEF DeviceStep, ProvisionFound
<1>9. ASSUME build[g].pc \in Looking, NEW types, types = <<"Development">> \/ types = cli.settings.types,
             NEW p \in AutoselectProvision(types, Device(g)),
             options' = [options EXCEPT !.provision = Exactly(p)], WithProvision(g, p)
      PROVE  ProvisionSelected(g)
  <2>1. types \in {<<"AdHoc">>, <<"AppStore">>, <<"Development">>, <<"Development", "Enterprise", "AdHoc">>}
    BY <1>3, <1>9 DEF SettingsOf
  <2>2. p \in provisions /\ ValidProvision(p, Device(g))
    BY <2>1, WantedTypes
  <2>3. cli.name = "appstore upload" => types \in {<<"AppStore">>, <<"Development">>}
    BY <1>3, <1>9 DEF SettingsOf
  <2>4. cli.name = "appstore upload" => Provisions[p].type \in {"AppStore", "Development"}
    BY <2>3, WantedTypes
  <2> QED
    BY <1>7, <1>9, <2>2, <2>4 DEF ProvisionSelected
<1>10. CASE SelectProvision(g)
  <2> DEFINE found == AutoselectProvision(cli.settings.types, Device(g))
  <2>1. \/ \E p \in found : options' = [options EXCEPT !.provision = Exactly(p)] /\ WithProvision(g, p)
        \/ Step(g, "fallback") /\ UNCHANGED options
    BY <1>10 DEF SelectProvision, Selected
  <2>2. build[g].pc \in Looking
    BY <1>10 DEF SelectProvision, BuildAt, Looking
  <2>3. ASSUME Step(g, "fallback"), UNCHANGED options
        PROVE  FallsBack(g)
    <3>1. build'[g] = [build[g] EXCEPT !.pc = "fallback"]
      BY <1>2, <2>3 DEF Step
    <3>2. build'[g].pc = "fallback" /\ build'[g].complete = build[g].complete
          /\ build'[g].provision = build[g].provision
      BY <1>1, <3>1 DEF Builds
    <3> QED
      BY <2>2, <2>3, <3>2 DEF FallsBack
  <2> QED
    BY <1>9, <2>1, <2>2, <2>3 DEF DeviceStep
<1>11. CASE FallBackToDevelopment(g)
  <2> DEFINE found == AutoselectProvision(<<"Development">>, Device(g))
  <2>1. \/ \E p \in found : options' = [options EXCEPT !.provision = Exactly(p)] /\ WithProvision(g, p)
        \/ Stop(g) /\ UNCHANGED options
    BY <1>11 DEF FallBackToDevelopment, Selected
  <2>2. build[g].pc \in Looking
    BY <1>11 DEF FallBackToDevelopment, BuildAt, Looking
  <2> QED
    BY <1>4, <1>9, <2>1, <2>2 DEF DeviceStep
<1>12. ASSUME NEW c, AfterCertificate(g, c, options')
       PROVE  CertificateKnown(g) /\ build'[g].certificate = c
  <2> DEFINE v == IF build[g].complete THEN "build" ELSE "validate"
             o == options'
  <2>1. build'[g] = [build[g] EXCEPT !.certificate = c, !.validate = o, !.pc = v]
    <3>1. Set(g, [build[g] EXCEPT !.certificate = c, !.validate = o, !.pc = v])
      BY <1>12 DEF AfterCertificate
    <3> QED
      BY <1>1, <3>1 DEF Set
  <2> HIDE DEF v, o
  <2>2. /\ build'[g].provision = build[g].provision /\ build'[g].validate = o /\ build'[g].pc = v
        /\ build'[g].certificate = c
    BY <1>1, <2>1 DEF Builds
  <2> QED
    BY <2>2 DEF v, o, CertificateKnown
<1>13. CASE FindCertificateOption(g)
  <2>1. UNCHANGED options /\ build[g].pc = "findCertificate"
    BY <1>13 DEF FindCertificateOption, BuildAt
  <2>2. Stop(g) \/ \E c \in FindCertificate(options.certificate) : AfterCertificate(g, c, options')
    BY <1>13, <2>1 DEF FindCertificateOption
  <2> QED
    BY <1>4, <1>12, <2>1, <2>2 DEF DeviceStep, CertificateFound
<1>14. CASE SelectCertificate(g)
  <2>1. build[g].pc = "autoselectCertificate"
    BY <1>14 DEF SelectCertificate, BuildAt
  <2>2. \/ Stop(g) /\ UNCHANGED options
        \/ \E c \in AutoselectCertificate(build[g].provision) :
             options' = [options EXCEPT !.certificate = Exactly(c)] /\ AfterCertificate(g, c, options')
    BY <1>14 DEF SelectCertificate
  <2> QED
    BY <1>4, <1>12, <2>1, <2>2 DEF DeviceStep, CertificateSelected
<1>15. CASE ThrowIfInvalid(g)
  <2>1. UNCHANGED options /\ build[g].pc = "validate"
        /\ (Stop(g) \/ (Step(g, "build") /\ Valid(build[g].validate, Device(g))))
    BY <1>15 DEF ThrowIfInvalid, BuildAt
  <2>2. ASSUME Step(g, "build")
        PROVE  /\ build'[g].provision = build[g].provision /\ build'[g].certificate = build[g].certificate
               /\ build'[g].pc = "build"
    <3>1. build'[g] = [build[g] EXCEPT !.pc = "build"]
      BY <1>2, <2>2 DEF Step
    <3> QED
      BY <1>1, <3>1 DEF Builds
  <2> QED
    BY <1>4, <2>1, <2>2 DEF DeviceStep, GoesOn
<1>16. CASE BuildProject(g)
  <2>1. UNCHANGED options /\ build[g].pc = "build"
    BY <1>16 DEF BuildProject, BuildAt
  <2>2. build'[g] = [build[g] EXCEPT !.pc = "built", !.validate = NoOptions]
    BY <1>2, <1>16 DEF BuildProject
  <2>3. /\ build'[g].provision = build[g].provision /\ build'[g].certificate = build[g].certificate
        /\ build'[g].pc = "built"
    BY <1>1, <2>2 DEF Builds
  <2> QED
    BY <2>1, <2>3 DEF DeviceStep, GoesOn
<1>17. CASE Deliver(g)
  <2>1. UNCHANGED options /\ build[g].pc = "built"
    BY <1>17 DEF Deliver, BuildAt
  <2>2. PICK d : Set(g, [build[g] EXCEPT !.delivered = d, !.pc = "done"])
    BY <1>17, Zenon DEF Deliver
  <2>3. build'[g] = [build[g] EXCEPT !.delivered = d, !.pc = "done"]
    BY <1>2, <2>2
  <2>4. /\ build'[g].provision = build[g].provision /\ build'[g].certificate = build[g].certificate
        /\ build'[g].pc = "done"
    BY <1>1, <2>3 DEF Builds
  <2> QED
    BY <2>1, <2>4 DEF DeviceStep, GoesOn
<1>18. CASE BuildFails(g)
  BY <1>4, <1>18 DEF BuildFails, DeviceStep
<1> QED
  BY <1>5, <1>6, <1>8, <1>10, <1>11, <1>13, <1>14, <1>15, <1>16, <1>17, <1>18 DEF BuildStep

--------------------------------------------------------------------------
(* Why a build for a device can be installed on it, as long as the store is *)
(* left alone.  A fiber alone reads the options it wrote itself, or those   *)
(* that were given.  With two, one may write what the other reads: that is *)
(* harmless, as once a provision is known nobody goes on looking for one,  *)
(* but the one that looked for its own meanwhile, and selects for itself.  *)
Alone(f) == f = Main \/ cli.devices = {f}
Chosen(p) == options.provision # None /\ FindProvision(options.provision) = {p}
NobodyLooks == \A h \in Fibers : build[h].pc \notin Looking

SignedSoFar(f) ==
  /\ build[f].pc = "findProvision" => ~build[f].complete /\ options.provision # None
  /\ build[f].pc \in Looking /\ Alone(f) =>
       options.provision = None /\ (build[f].complete => options.certificate = None)
  /\ build[f].pc \in {"findCertificate", "autoselectCertificate"} =>
       /\ \/ ValidProvision(build[f].provision, Device(f))
          \/ ~build[f].complete /\ Chosen(build[f].provision) /\ NobodyLooks
       /\ Alone(f) => /\ Chosen(build[f].provision)
                      /\ build[f].complete => build[f].pc = "autoselectCertificate"
  /\ build[f].pc = "validate" =>
       /\ \/ ValidProvision(build[f].provision, Device(f))
          \/ FindProvision(build[f].validate.provision) = {build[f].provision}
       /\ Alone(f) => /\ FindProvision(build[f].validate.provision) = {build[f].provision}
                      /\ FindCertificate(build[f].validate.certificate) = {build[f].certificate}
  /\ build[f].pc \in {"build", "built", "done"} =>
       /\ ValidProvision(build[f].provision, Device(f))
       /\ Alone(f) => /\ build[f].certificate \in Aliases
                      /\ ValidCertificate(build[f].certificate, build[f].provision)

(* While one looks, the other has what it wrote. *)
OtherKnows ==
  \A h, f \in Devices :
    h # f /\ build[h].pc \in Looking /\ f \in cli.devices /\ options.provision # None =>
      build[f].pc \notin {"none", "import", "findProvision"}

AtMostTwo == cli.name = "deploy" => \A d, e, f \in cli.devices : d = e \/ e = f \/ d = f

SignedInv ==
  ~stale /\ cli.pc = "building" /\ DeviceBuild /\ AtMostTwo => OtherKnows /\ \A f \in Fibers : SignedSoFar(f)

LEMMA OneWorksAlone ==
  ASSUME BuildInv, CommandInv, NEW f \in Fibers, NEW g \in Fibers, build[f].pc # "none", build[g].pc # "none",
         Alone(f)
  PROVE  f = g
<1>1. Active(f) /\ Active(g)
  BY StepsOfActive
<1>2. cli.name = "deploy" => cli.devices \subseteq Devices
  BY <1>1 DEF CommandInv, Building, Active
<1> QED
  BY <1>1, <1>2, MainAssumption DEF Active, Alone

(* Who is told to use a provision, when nobody looks for one. *)
LEMMA NobodyLooksOn ==
  ASSUME BuildInv, CommandInv, OtherKnows, NEW f \in Fibers, options.provision # None,
         build[f].pc \in {"import", "findProvision"}
  PROVE  NobodyLooks
<1> SUFFICES ASSUME NEW h \in Fibers, build[h].pc \in Looking
             PROVE  FALSE
  BY DEF NobodyLooks
<1>1. Active(f) /\ Active(h) /\ f # h
  BY StepsOfActive DEF Looking
<1>2. f \in cli.devices /\ h \in cli.devices /\ cli.name = "deploy" /\ cli.pc = "building"
  BY <1>1 DEF Active
<1>3. f \in Devices /\ h \in Devices
  BY <1>2 DEF CommandInv, Building
<1> QED
  BY <1>1, <1>2, <1>3 DEF OtherKnows

(* A step of one fiber, seen from itself ... *)
LEMMA SignedItself ==
  ASSUME StoreInv, BuildInv, CommandInv, DeviceBuild, OtherKnows, NEW f \in Fibers, SignedSoFar(f),
         BuildStep(f)
  PROVE  SignedSoFar(f)'
<1>1. DeviceStep(f) /\ \A h \in Fibers : h # f => build'[h] = build[h]
  BY DeviceSteps
<1>2. UNCHANGED <<cli, identities, provisions>>
  BY BuildStepFits DEF Only, store
<1>3. Alone(f)' = Alone(f) /\ \A x : FindProvision(x)' = FindProvision(x) /\ FindCertificate(x)' = FindCertificate(x)
  BY <1>2 DEF Alone, FindProvision, FindCertificate
<1>4. options \in Options /\ provisions \subseteq Names /\ identities \subseteq Aliases
  BY DEF BuildInv, StoreInv
<1>5. CertificateStep(options.certificate) =
        IF options.certificate # None THEN "findCertificate" ELSE "autoselectCertificate"
  BY DEF CertificateStep, DeviceBuild
<1>6. CASE Requested(f)
  BY <1>3, <1>6 DEF Requested, SignedSoFar, Looking
<1>7. CASE ProvisionFound(f)
  <2>1. build[f].pc = "findProvision" /\ ~build[f].complete /\ options.provision # None
    BY <1>7 DEF ProvisionFound, SignedSoFar
  <2>2. NobodyLooks
    BY <2>1, NobodyLooksOn
  <2>3. /\ build'[f].pc \in {"findCertificate", "autoselectCertificate"} /\ build'[f].complete = build[f].complete
        /\ UNCHANGED options
    BY <1>5, <1>7 DEF ProvisionFound
  <2>4. NobodyLooks'
    BY <1>1, <2>2, <2>3 DEF NobodyLooks, Looking
  <2>5. FindProvision(options.provision) = {build'[f].provision}
    BY <1>7, FoundInStore DEF ProvisionFound
  <2>6. Chosen(build[f].provision)'
    BY <1>2, <2>1, <2>3, <2>5 DEF Chosen, FindProvision
  <2> QED
    BY <2>1, <2>3, <2>4, <2>6 DEF SignedSoFar, Looking
<1>8. CASE ProvisionSelected(f)
  <2> DEFINE p == build'[f].provision
  <2>1. p \in provisions /\ ValidProvision(p, Device(f)) /\ build[f].pc \in Looking
        /\ options' = [options EXCEPT !.provision = Exactly(p)] /\ build'[f].complete = build[f].complete
        /\ build'[f].pc = IF options.certificate # None THEN "findCertificate" ELSE "autoselectCertificate"
    BY <1>5, <1>8 DEF ProvisionSelected
  <2> HIDE DEF p
  <2>2. options'.provision = Exactly(p) /\ Exactly(p) # None /\ p \in Names
    BY <1>4, <2>1, OptionsHold
  <2>3. FindProvision(options'.provision) = {p}
    BY <1>4, <2>1, <2>2, FoundByName, StoreAssumption DEF FindProvision
  <2>4. Chosen(build[f].provision)'
    BY <1>2, <2>2, <2>3 DEF Chosen, FindProvision, p
  <2>5. ValidProvision(build[f].provision, Device(f))'
    BY <2>1 DEF ValidProvision, p
  <2>6. Alone(f) => (build[f].complete => options.certificate = None)
    BY <2>1 DEF SignedSoFar
  <2> QED
    BY <1>3, <2>1, <2>4, <2>5, <2>6 DEF SignedSoFar, Looking
<1>9. CASE FallsBack(f)
  BY <1>3, <1>9 DEF FallsBack, SignedSoFar, Looking
<1>10. CASE CertificateFound(f) \/ CertificateSelected(f)
  <2>1. /\ build[f].pc \in {"findCertificate", "autoselectCertificate"}
        /\ build'[f].provision = build[f].provision /\ build'[f].validate = options'
        /\ build'[f].pc = IF build[f].complete THEN "build" ELSE "validate"
    BY <1>10 DEF CertificateFound, CertificateSelected, CertificateKnown
  <2>2. options'.provision = options.provision /\ build'[f].certificate \in identities
        /\ FindCertificate(options'.certificate) = {build'[f].certificate}
    <3>1. CASE CertificateFound(f)
      BY <3>1, FoundInStore DEF CertificateFound
    <3>2. CASE CertificateSelected(f)
      <4>1. build'[f].certificate \in identities
        BY <3>2 DEF CertificateSelected, AutoselectCertificate
      <4>2. options'.provision = options.provision /\ options'.certificate = Exactly(build'[f].certificate)
        BY <1>4, <3>2, <4>1, OptionsHold DEF CertificateSelected
      <4> QED
        BY <1>4, <4>1, <4>2, FoundByName, StoreAssumption DEF FindCertificate
    <3> QED
      BY <1>10, <3>1, <3>2
  <2>3. CASE build[f].complete
    <3>1. ValidProvision(build[f].provision, Device(f))
      BY <2>1, <2>3 DEF SignedSoFar
    <3>2. Alone(f) => ValidCertificate(build'[f].certificate, build[f].provision)
      <4>1. Alone(f) => CertificateSelected(f)
        BY <1>10, <2>1, <2>3 DEF SignedSoFar, CertificateFound
      <4> QED
        BY <4>1 DEF CertificateSelected, AutoselectCertificate
    <3>3. ValidProvision(build[f].provision, Device(f))' /\ build'[f].pc = "build"
      BY <2>1, <2>3, <3>1 DEF ValidProvision
    <3>4. Alone(f)' => build'[f].certificate \in Aliases /\ ValidCertificate(build[f].certificate, build[f].provision)'
      BY <1>3, <1>4, <2>1, <2>2, <3>2 DEF ValidCertificate
    <3> QED
      BY <3>3, <3>4 DEF SignedSoFar, Looking
  <2>4. CASE ~build[f].complete
    <3>1. /\ ValidProvision(build[f].provision, Device(f)) \/ Chosen(build[f].provision)
          /\ Alone(f) => Chosen(build[f].provision)
      BY <2>1 DEF SignedSoFar
    <3>2. Chosen(build[f].provision) => FindProvision(build[f].validate.provision)' = {build'[f].provision}
      BY <1>2, <2>1, <2>2 DEF Chosen, FindProvision
    <3>3. FindCertificate(build[f].validate.certificate)' = {build'[f].certificate}
      BY <1>2, <2>1, <2>2 DEF FindCertificate
    <3>4. ValidProvision(build[f].provision, Device(f)) => ValidProvision(build[f].provision, Device(f))'
      BY <2>1 DEF ValidProvision
    <3>5. build'[f].pc = "validate"
      BY <2>1, <2>4
    <3> QED
      BY <1>3, <3>1, <3>2, <3>3, <3>4, <3>5 DEF SignedSoFar, Looking
  <2> QED
    BY <2>3, <2>4
<1>11. CASE GoesOn(f)
  <2>1. build'[f].provision = build[f].provision /\ build'[f].certificate = build[f].certificate
        /\ build'[f].pc \in {"build", "built", "done"}
    BY <1>11 DEF GoesOn
  <2>2. /\ ValidProvision(build[f].provision, Device(f))
        /\ Alone(f) => build[f].certificate \in Aliases /\ ValidCertificate(build[f].certificate, build[f].provision)
    <3>1. CASE build[f].pc \in {"build", "built"}
      BY <3>1 DEF SignedSoFar
    <3>2. CASE build[f].pc = "validate" /\ Valid(build[f].validate, Device(f))
      <4>1. PICK p \in FindProvision(build[f].validate.provision), c \in FindCertificate(build[f].validate.certificate) :
              ValidProvision(p, Device(f)) /\ ValidCertificate(c, p)
        BY <3>2 DEF Valid
      <4>2. c \in Aliases
        BY <1>4, FoundInStore
      <4>3. FindProvision(build[f].validate.provision) = {build[f].provision} => p = build[f].provision
        OBVIOUS
      <4>4. FindCertificate(build[f].validate.certificate) = {build[f].certificate} => c = build[f].certificate
        OBVIOUS
      <4> QED
        BY <3>2, <4>1, <4>2, <4>3, <4>4 DEF SignedSoFar
    <3> QED
      BY <1>11, <3>1, <3>2 DEF GoesOn
  <2>3. ValidProvision(build[f].provision, Device(f))'
    BY <2>1, <2>2 DEF ValidProvision
  <2>4. Alone(f)' => build'[f].certificate \in Aliases /\ ValidCertificate(build[f].certificate, build[f].provision)'
    BY <1>3, <2>1, <2>2 DEF ValidCertificate
  <2> QED
    BY <2>1, <2>3, <2>4 DEF SignedSoFar, Looking
<1>12. CASE Stopped(f)
  BY <1>12 DEF Stopped, SignedSoFar, Looking
<1> QED
  BY <1>1, <1>6, <1>7, <1>8, <1>9, <1>10, <1>11, <1>12 DEF DeviceStep

(* ... and from another fiber. *)
LEMMA SignedByOther ==
  ASSUME StoreInv, BuildInv, CommandInv, DeviceBuild, NEW f \in Fibers, SignedSoFar(f),
         NEW g \in Fibers, f # g, BuildStep(g)
  PROVE  SignedSoFar(f)'
<1>1. DeviceStep(g) /\ build'[f] = build[f] /\ \A h \in Fibers : h # g => build'[h] = build[h]
  BY DeviceSteps
<1>2. UNCHANGED <<cli, identities, provisions>>
  BY BuildStepFits DEF Only, store
<1>3. Alone(f)' = Alone(f) /\ \A x : FindProvision(x)' = FindProvision(x) /\ FindCertificate(x)' = FindCertificate(x)
  BY <1>2 DEF Alone, FindProvision, FindCertificate
<1>4. options \in Options /\ provisions \subseteq Names /\ identities \subseteq Aliases
  BY DEF BuildInv, StoreInv
<1>5. build[g].pc # "none"
  BY DEF BuildStep, Request, Android, FindProvisionOption, SelectProvision, FallBackToDevelopment,
         FindCertificateOption, SelectCertificate, SimulatorCertificate, ThrowIfInvalid, BuildProject,
         Deliver, BuildFails, BuildAt
<1>6. build[f].pc # "none" => ~Alone(f)
  BY <1>5, OneWorksAlone
<1>7. options'.provision = options.provision \/ (build[g].pc \in Looking /\ options'.provision # None)
  <2>1. CASE UNCHANGED options
    BY <2>1
  <2>2. CASE ProvisionSelected(g)
    BY <1>4, <2>2, OptionsHold DEF ProvisionSelected
  <2>3. CASE CertificateSelected(g)
    <3>1. build'[g].certificate \in Aliases
      BY <1>4, <2>3 DEF CertificateSelected, AutoselectCertificate
    <3> QED
      BY <1>4, <2>3, <3>1, OptionsHold DEF CertificateSelected
  <2> QED
    BY <1>1, <2>1, <2>2, <2>3 DEF DeviceStep, Requested, ProvisionFound, FallsBack, CertificateFound, GoesOn, Stopped
<1>8. build'[g].pc \in Looking => build[g].pc \in Looking \/ options.provision = None
  BY <1>1 DEF DeviceStep, Requested, ProvisionFound, ProvisionSelected, FallsBack, CertificateFound,
              CertificateSelected, CertificateKnown, GoesOn, Stopped, Looking, CertificateStep
<1>9. CASE build[f].pc = "findProvision"
  BY <1>1, <1>7, <1>9 DEF SignedSoFar, Looking
<1>10. CASE build[f].pc \in Looking
  BY <1>1, <1>3, <1>6, <1>10 DEF SignedSoFar, Looking
<1>11. CASE build[f].pc \in {"findCertificate", "autoselectCertificate"}
  <2>1. ~Alone(f)
    BY <1>6, <1>11
  <2>2. CASE ValidProvision(build[f].provision, Device(f))
    <3>1. ValidProvision(build[f].provision, Device(f))'
      BY <1>1, <2>2 DEF ValidProvision
    <3> QED
      BY <1>1, <1>3, <1>11, <2>1, <3>1 DEF SignedSoFar, Looking
  <2>3. CASE ~build[f].complete /\ Chosen(build[f].provision) /\ NobodyLooks
    <3>1. options'.provision = options.provision /\ options.provision # None
      BY <1>7, <2>3 DEF NobodyLooks, Chosen
    <3>2. Chosen(build[f].provision)'
      BY <1>1, <1>2, <2>3, <3>1 DEF Chosen, FindProvision
    <3>3. NobodyLooks'
      BY <1>1, <1>8, <2>3, <3>1 DEF NobodyLooks
    <3> QED
      BY <1>1, <1>3, <1>11, <2>1, <2>3, <3>2, <3>3 DEF SignedSoFar, Looking
  <2> QED
    BY <1>11, <2>2, <2>3 DEF SignedSoFar
<1>12. CASE build[f].pc = "validate"
  <2>1. ~Alone(f)
    BY <1>6, <1>12
  <2>2. ValidProvision(build[f].provision, Device(f)) => ValidProvision(build[f].provision, Device(f))'
    BY <1>1 DEF ValidProvision
  <2>3. FindProvision(build[f].validate.provision)' = FindProvision(build[f].validate.provision)
    BY <1>1, <1>2 DEF FindProvision
  <2> QED
    BY <1>1, <1>3, <1>12, <2>1, <2>2, <2>3 DEF SignedSoFar, Looking
<1>13. CASE build[f].pc \in {"build", "built", "done"}
  <2>1. ~Alone(f)
    BY <1>6, <1>13
  <2>2. ValidProvision(build[f].provision, Device(f)) => ValidProvision(build[f].provision, Device(f))'
    BY <1>1 DEF ValidProvision
  <2> QED
    BY <1>1, <1>3, <1>13, <2>1, <2>2 DEF SignedSoFar, Looking
<1> QED
  BY <1>1, <1>9, <1>10, <1>11, <1>12, <1>13 DEF SignedSoFar, Looking

LEMMA OtherStillKnows ==
  ASSUME AtMostTwo, StoreInv, BuildInv, CommandInv, DeviceBuild, OtherKnows, NEW g \in Fibers, BuildStep(g)
  PROVE  OtherKnows'
<1>1. DeviceStep(g) /\ \A h \in Fibers : h # g => build'[h] = build[h]
  BY DeviceSteps
<1>2. UNCHANGED cli /\ build[g].pc # "none"
  <2>1. UNCHANGED cli
    BY BuildStepFits DEF Only
  <2> QED
    BY <2>1 DEF BuildStep, Request, Android, FindProvisionOption, SelectProvision, FallBackToDevelopment,
         FindCertificateOption, SelectCertificate, SimulatorCertificate, ThrowIfInvalid, BuildProject,
         Deliver, BuildFails, BuildAt
<1>3. build'[g].pc \in Looking => UNCHANGED options /\ (build[g].pc \in Looking \/ options.provision = None)
  BY <1>1 DEF DeviceStep, Requested, ProvisionFound, ProvisionSelected, FallsBack, CertificateFound,
              CertificateSelected, CertificateKnown, GoesOn, Stopped, Looking, CertificateStep
<1>4. build'[g].pc \in {"none", "import", "findProvision"} => build[g].pc = "import" /\ UNCHANGED options
  BY <1>1 DEF DeviceStep, Requested, ProvisionFound, ProvisionSelected, FallsBack, CertificateFound,
              CertificateSelected, CertificateKnown, GoesOn, Stopped, CertificateStep
<1>5. SUFFICES ASSUME NEW h \in Devices, NEW f \in Devices, h # f, build'[h].pc \in Looking, f \in cli.devices,
                      options'.provision # None
               PROVE  build'[f].pc \notin {"none", "import", "findProvision"}
  BY <1>2 DEF OtherKnows
<1>6. h \in Fibers /\ f \in Fibers
  BY DEF Fibers
<1>7. CASE g = h
  BY <1>1, <1>3, <1>5, <1>6, <1>7 DEF OtherKnows
<1>8. CASE g = f
  BY <1>1, <1>4, <1>5, <1>6, <1>8 DEF OtherKnows
<1>9. g = h \/ g = f
  <2>1. g # h => Active(g) /\ Active(h) /\ build[h].pc \in Looking
    BY <1>1, <1>2, <1>5, <1>6, StepsOfActive DEF Looking
  <2>2. CASE g = Main
    BY <2>1, <2>2, MainAssumption DEF Active, CommandInv, Building
  <2>3. CASE g \in Devices
    <3>1. g # h => cli.name = "deploy" /\ g \in cli.devices /\ h \in cli.devices
      BY <2>1, <2>3, MainAssumption DEF Active
    <3> QED
      BY <1>5, <3>1 DEF AtMostTwo
  <2> QED
    BY <2>2, <2>3 DEF Fibers
<1> QED
  BY <1>7, <1>8, <1>9

(* Nothing is selected in builds that have just begun. *)
LEMMA SignedAtFirst ==
  ASSUME \A f \in Fibers : build'[f].pc \in {"none", "import"}
  PROVE  SignedInv'
<1>1. \A f \in Devices : f \in Fibers
  BY DEF Fibers
<1>2. OtherKnows'
  BY <1>1 DEF OtherKnows, Looking
<1>3. \A f \in Fibers : SignedSoFar(f)'
  BY DEF SignedSoFar, Looking
<1> QED
  BY <1>2, <1>3 DEF SignedInv

(* Every step after which a command is building. *)
Fresh == \A f \in Fibers : build'[f] \in {NotBuilding, NewBuild}

LEMMA StepsWhileBuilding ==
  ASSUME StoreInv, BuildInv, CommandInv, [Next]_vars, cli'.pc = "building"
  PROVE  \/ BuildCommand /\ Fresh
         \/ VerifyStoreCreated /\ Fresh /\ UNCHANGED <<options, store>> /\ cli'.name = cli.name
         \/ \E f \in Fibers : DeployTo(f) \/ PackageBuilt(f) \/ ReinstallApplication(f)
         \/ \E f \in Fibers : BuildStep(f)
         \/ UNCHANGED <<cli, options, build>> /\ stale' = TRUE
         \/ UNCHANGED vars
<1>0. Named
  BY DEF CommandInv
<1>1. CASE IdentityStep \/ IdentityProgress
  BY <1>0, <1>1, IdentityStarts, IdentityMoves DEF IdentityPcs, ServerCalls, Ended
<1>2. ASSUME UNCHANGED build \/ StartBuild(Main), cli.pc # "building"
      PROVE  Fresh
  <2>1. build = [f \in Fibers |-> NotBuilding]
    BY <1>2, NobodyBuilds
  <2> QED
    BY <1>2, <2>1 DEF StartBuild, Set, Fresh
<1>3. CASE BuildCommand
  BY <1>2, <1>3, CommandStarts, BuildStarts
<1>4. ASSUME NEW debug \in BOOLEAN, NEW enabled \in LivePatchIn, PublishLivePatch(debug, enabled)
      PROVE  FALSE
  BY <1>4 DEF PublishLivePatch, Start
<1>5. ASSUME NEW v, Finish(v) \/ Goto(v), v # "building"
      PROVE  FALSE
  BY <1>0, <1>5, GotoKeeps DEF Finish, Named
<1>6. CASE DeployToIon \/ BuildEnds \/ DeployEnds \/ FindGroups \/ CheckProvision \/ UploadApplication
           \/ ConfigureLivePatchPlugin \/ UploadPatch
  <2>1. \E v : v # "building" /\ (Finish(v) \/ Goto(v))
    BY <1>6 DEF DeployToIon, BuildEnds, Built, DeployEnds, FindGroups, CheckProvision, UploadApplication,
                ConfigureLivePatchPlugin, UploadPatch
  <2> QED
    BY <1>5, <2>1
<1>7. CASE BuiltForUpload
  <2>1. CommandInv' /\ BuildInv' /\ (cli'.pc = "building" => FALSE)
    <3>1. (IF cli.name = "appmanager upload" /\ cli.group THEN "groups" ELSE "upload") \in {"groups", "upload"}
      OBVIOUS
    <3>2. \/ Finish("failed")
          \/ \E v \in {"groups", "upload"} : cli' = [cli EXCEPT !.pc = v, !.package = Package(Main)]
      BY <1>7, <3>1, Zenon DEF BuiltForUpload
    <3>3. ASSUME NEW v \in {"groups", "upload"}, cli' = [cli EXCEPT !.pc = v, !.package = Package(Main)]
          PROVE  cli'.pc = v
      BY <1>0, <3>3, Zenon DEF Named
    <3> QED
      BY <1>5, <3>2, <3>3
  <2> QED
    BY <2>1
<1>8. CASE VerifyStoreCreated
  <2>1. Goto("building") /\ StartBuild(Main) /\ cli.pc = "verifyStore" /\ UNCHANGED <<options, store>>
    BY <1>5, <1>8 DEF VerifyStoreCreated, Others
  <2>2. cli'.name = cli.name
    BY <1>0, <2>1, GotoKeeps, Zenon DEF Named
  <2> QED
    BY <1>2, <1>8, <2>1, <2>2
<1>9. CASE BuildProgress
  BY <1>6, <1>7, <1>8, <1>9 DEF BuildProgress
<1>10. CASE CommandExit
  BY <1>10 DEF CommandExit, Exit, Idle
<1>11. CASE PortalChange /\ UNCHANGED <<local, buildVars>>
  BY <1>11 DEF PortalChange, buildVars
<1> QED
  BY <1>1, <1>3, <1>4, <1>9, <1>10, <1>11 DEF Next, Progress

LEMMA SignedNext ==
  ASSUME StoreInv, BuildInv, CommandInv, SignedInv, [Next]_vars
  PROVE  SignedInv'
<1> SUFFICES ASSUME ~stale', cli'.pc = "building"
             PROVE  SignedInv'
  BY DEF SignedInv
<1>1. CASE Fresh
  <2>1. \A f \in Fibers : build'[f].pc \in {"none", "import"}
    BY <1>1, NewBuildFits DEF Fresh
  <2> QED
    BY <2>1, SignedAtFirst
<1>2. ASSUME UNCHANGED <<cli, stale>>
      PROVE  /\ (DeviceBuild /\ AtMostTwo)' <=> DeviceBuild /\ AtMostTwo
             /\ DeviceBuild /\ AtMostTwo => OtherKnows /\ \A f \in Fibers : SignedSoFar(f)
  BY <1>2 DEF SignedInv, DeviceBuild, AtMostTwo
<1>3. ASSUME NEW g \in Fibers, BuildStep(g)
      PROVE  SignedInv'
  <2>1. UNCHANGED <<cli, stale>>
    BY <1>3, BuildStepFits DEF Only, store
  <2>2. CASE DeviceBuild /\ AtMostTwo
    <3>1. OtherKnows /\ \A f \in Fibers : SignedSoFar(f)
      BY <1>2, <2>1, <2>2
    <3>2. OtherKnows'
      BY <1>3, <2>2, <3>1, OtherStillKnows
    <3>3. ASSUME NEW f \in Fibers
          PROVE  SignedSoFar(f)'
      <4>1. CASE f = g
        BY <1>3, <2>2, <3>1, <4>1, SignedItself
      <4>2. CASE f # g
        BY <1>3, <2>2, <3>1, <4>2, SignedByOther
      <4> QED
        BY <4>1, <4>2
    <3> QED
      BY <3>2, <3>3 DEF SignedInv
  <2> QED
    BY <1>2, <2>1, <2>2 DEF SignedInv
<1>4. ASSUME NEW g \in Fibers, DeployTo(g) \/ PackageBuilt(g) \/ ReinstallApplication(g)
      PROVE  SignedInv'
  <2>1. UNCHANGED <<cli, store, options>> /\ stale' = stale
    BY <1>4, DeployFits DEF store
  <2>2. PICK b \in Builds : Set(g, b) /\ b.pc \in {"tooOld", "ready", "installed", "import"}
            /\ (b.pc = "import" => build[g].pc = "none")
    BY <1>4, DeployFits
  <2>3. build'[g] = b /\ \A h \in Fibers : h # g => build'[h] = build[h]
    BY <2>2 DEF Set, BuildInv
  <2>4. CASE DeviceBuild /\ AtMostTwo
    <3>1. OtherKnows /\ \A f \in Fibers : SignedSoFar(f)
      BY <1>2, <2>1, <2>4
    <3>2. OtherKnows'
      <4>1. \A h \in Devices : h \in Fibers
        BY DEF Fibers
      <4> QED
        BY <2>1, <2>2, <2>3, <3>1, <4>1 DEF OtherKnows, Looking
    <3>3. SignedSoFar(g)'
      BY <2>2, <2>3 DEF SignedSoFar, Looking
    <3>4. ASSUME NEW f \in Fibers, f # g
          PROVE  SignedSoFar(f)'
      <4>1. /\ SignedSoFar(f) /\ build'[f] = build[f]
            /\ Alone(f)' = Alone(f) /\ UNCHANGED options
            /\ \A x : FindProvision(x)' = FindProvision(x) /\ FindCertificate(x)' = FindCertificate(x)
        BY <2>1, <2>3, <3>1, <3>4 DEF Alone, FindProvision, FindCertificate, store
      <4>2. NobodyLooks => NobodyLooks'
        BY <2>2, <2>3 DEF NobodyLooks, Looking
      <4>3. /\ ValidProvision(build[f].provision, Device(f))' = ValidProvision(build[f].provision, Device(f))
            /\ ValidCertificate(build[f].certificate, build[f].provision)'
               = ValidCertificate(build[f].certificate, build[f].provision)
            /\ Chosen(build[f].provision)' = Chosen(build[f].provision)
            /\ FindProvision(build[f].validate.provision)' = FindProvision(build[f].validate.provision)
            /\ FindCertificate(build[f].validate.certificate)' = FindCertificate(build[f].validate.certificate)
        BY <2>1, <4>1 DEF ValidProvision, ValidCertificate, Chosen, FindProvision, FindCertificate, store
      <4> QED
        BY <4>1, <4>2, <4>3 DEF SignedSoFar
    <3> QED
      BY <3>2, <3>3, <3>4 DEF SignedInv
  <2> QED
    BY <1>2, <2>1, <2>4 DEF SignedInv
<1>5. CASE UNCHANGED vars
  BY <1>5 DEF vars, store, buildVars, SignedInv, DeviceBuild, AtMostTwo, OtherKnows, SignedSoFar, Alone, Chosen, NobodyLooks,
              FindProvision, FindCertificate
<1> QED
  BY <1>1, <1>3, <1>4, <1>5, StepsWhileBuilding

LEMMA SignedInit == Init => SignedInv
BY DEF Init, Idle, SignedInv

LEMMA TypesHold == StoreInv /\ BuildInv /\ TargetInv => TypeOK
BY DEF StoreInv, BuildInv, TargetInv, TypeOK

(* A build for a device is signed for it. *)
LEMMA BuiltIsSigned ==
  ASSUME BuildInv, CommandInv, SignedInv, NEW f \in Fibers, IsBuilt(f), ~stale, DeviceBuild, Alone(f) \/ AtMostTwo
  PROVE  /\ build[f].provision \in Names /\ ValidProvision(build[f].provision, Device(f))
         /\ Alone(f) => /\ build[f].certificate \in Aliases
                        /\ ValidCertificate(build[f].certificate, build[f].provision)
<1>1. build[f].pc \in {"built", "done"}
  BY DEF IsBuilt
<1>2. Active(f) /\ SelectedFor(build[f])
  BY <1>1, StepsOfActive
<1>3. Alone(f) => AtMostTwo
  <2>1. cli.name = "deploy" => f \in cli.devices /\ cli.devices \subseteq Devices
    BY <1>2 DEF Active, CommandInv, Building
  <2> QED
    BY <2>1, MainAssumption DEF Alone, AtMostTwo
<1>4. SignedSoFar(f)
  BY <1>2, <1>3 DEF SignedInv, Active
<1> QED
  BY <1>1, <1>2, <1>4 DEF SelectedFor, SignedSoFar, Signing

LEMMA SignedForOne ==
  ASSUME BuildInv, CommandInv, SignedInv
  PROVE  SignedForDevice
<1> SUFFICES ASSUME NEW f \in Fibers, IsBuilt(f), ~stale, DeviceBuild, f = Main \/ cli.devices = {f}
             PROVE  /\ build[f].provision # None /\ build[f].certificate # None
                    /\ ValidProvision(build[f].provision, Device(f))
                    /\ ValidCertificate(build[f].certificate, build[f].provision)
  BY DEF SignedForDevice
<1>1. Alone(f)
  BY DEF Alone
<1> QED
  BY <1>1, BuiltIsSigned, StoreAssumption

(* The certificates and provisions of a build for one device, or for none,  *)
(* are valid and fit each other and the device, however many devices are   *)
(* connected (build.ts:requestCloudBuild), and the state is of its type.   *)
THEOREM SignedForOneDevice == Spec => [](TypeOK /\ SignedForDevice)
<1> DEFINE Inv == StoreInv /\ BuildInv /\ CommandInv /\ TargetInv /\ SignedInv
<1>1. Init => Inv
  BY StoreInit, BuildInit, TargetInit, SignedInit
<1>2. Inv /\ [Next]_vars => Inv'
  BY StoreNext, BuildNext, CommandNext, TargetNext, SignedNext
<1>3. Inv => TypeOK /\ SignedForDevice
  BY TypesHold, SignedForOne
<1> QED
  BY <1>1, <1>2, <1>3, PTL DEF Spec

(* With at most two devices a deployed package can also be installed on the *)
(* device it was built for, though the fibers of both write the options    *)
(* that both read (deploy.ts:deployCore).                                  *)
AtMostTwoDevices == \A d, e, f \in Devices : d = e \/ e = f \/ d = f

THEOREM InstallsOnTwoDevices == AtMostTwoDevices => (Spec => []SignedToInstall)
<1> SUFFICES ASSUME AtMostTwoDevices
             PROVE  Spec => []SignedToInstall
  OBVIOUS
<1> DEFINE Inv == StoreInv /\ BuildInv /\ CommandInv /\ TargetInv /\ SignedInv
<1>1. Init => Inv
  BY StoreInit, BuildInit, TargetInit, SignedInit
<1>2. Inv /\ [Next]_vars => Inv'
  BY StoreNext, BuildNext, CommandNext, TargetNext, SignedNext
<1>3. Inv => SignedToInstall
  <2> SUFFICES ASSUME Inv
               PROVE  ProvisionCoversDevice
    BY TypesHold, SignedForOne DEF SignedToInstall
  <2> SUFFICES ASSUME NEW f \in Devices, IsBuilt(f), ~stale, DeviceBuild
               PROVE  ValidProvision(build[f].provision, f)
    BY DEF ProvisionCoversDevice
  <2>1. f \in Fibers /\ Device(f) = f
    BY MainAssumption DEF Fibers, Device
  <2>2. Active(f)
    BY <2>1, StepsOfActive DEF IsBuilt
  <2>3. AtMostTwo
    BY <2>2, AtMostTwoDevices DEF AtMostTwo, AtMostTwoDevices, CommandInv, Building, Active
  <2> QED
    BY <2>1, <2>3, BuiltIsSigned
<1> QED
  BY <1>1, <1>2, <1>3, PTL DEF Spec

--------------------------------------------------------------------------
(* A build for the App Store has a provision of that type, or of Development, *)
(* while the store is left alone; a build is handed out once.               *)
ForAppStore == {"AppStore", "Development"}

AppStoreInv ==
  /\ cli.name = "appstore upload" /\ cli.pc = "building" =>
       \A f \in Fibers : build[f].pc = "findProvision" => options.provision # None
  /\ ~stale /\ cli.name = "appstore upload" =>
       /\ cli.pc \in {"verifyStore", "building"} /\ options.provision # None =>
            \A p \in FindProvision(options.provision) : Provisions[p].type \in ForAppStore
       /\ cli.pc = "building" =>
            \A f \in Fibers : build[f].provision # None => Provisions[build[f].provision].type \in ForAppStore

HandedOutInv == AppStoreInv /\ DeliveredOnce

LEMMA HandedOutInit == Init => HandedOutInv
<1> SUFFICES ASSUME Init
             PROVE  HandedOutInv
  OBVIOUS
<1>1. cli.pc = "idle" /\ build = [f \in Fibers |-> NotBuilding]
  BY DEF Init, Idle
<1> QED
  BY <1>1, NewBuildFits DEF HandedOutInv, AppStoreInv, DeliveredOnce, BuildAt

(* A build that just started is not handed out. *)
LEMMA FreshHandsOutNothing ==
  ASSUME Fresh
  PROVE  DeliveredOnce' /\ \A f \in Fibers : build'[f].pc \notin {"done", "findProvision"} /\ build'[f].provision = None
BY NewBuildFits DEF Fresh, DeliveredOnce, BuildAt

(* The build is handed out as its settings ask for. *)
LEMMA HandedOutAtEnd ==
  ASSUME StoreInv, BuildInv, CommandInv, AppStoreInv, NEW g \in Fibers, Deliver(g),
         cli.name # "appmanager upload", cli.name = "appstore upload" => ~stale
  PROVE  /\ Cardinality(build'[g].delivered) = 1
         /\ DeviceBuild /\ build'[g].delivered # {"download"} =>
              Provisions[build'[g].provision].type \in {"AdHoc", "Enterprise"}
<1>1. build[g].pc = "built"
  BY DEF Deliver, BuildAt
<1>2. Active(g) /\ SelectedFor(build[g]) /\ build[g] \in Builds /\ build \in [Fibers -> Builds]
  BY <1>1, StepsOfActive DEF BuildInv
<1>3. cli.name \in Builders /\ SettingsOf(cli.name, cli.settings)
  BY <1>2 DEF CommandInv, Building, Active
<1> DEFINE p == build[g].provision
           qr == IF cli.settings.qr /\ ~Manual(p) THEN {UrlKind(p)} ELSE {}
           saved == IF cli.settings.download \/ Manual(p) THEN {"download"} ELSE {}
           d == qr \cup saved
<1>4. build'[g].delivered = d /\ build'[g].provision = p
  <2>1. build'[g] = [build[g] EXCEPT !.delivered = d, !.pc = "done"]
    BY <1>2 DEF Deliver, Set
  <2> HIDE DEF d
  <2> QED
    BY <1>2, <2>1 DEF Builds
<1>5. cli.settings.tam = FALSE
  BY <1>3 DEF SettingsOf
<1>6. CASE cli.name = "appstore upload"
  <2>1. cli.settings.download = FALSE /\ cli.settings.qr = FALSE /\ DeviceBuild
    BY <1>3, <1>6 DEF SettingsOf, DeviceBuild
  <2>2. p \in Names
    BY <1>1, <1>2, <2>1 DEF SelectedFor, Signing
  <2>3. Provisions[p].type \in ForAppStore
    BY <1>2, <1>6, <2>2, StoreAssumption DEF AppStoreInv, Active
  <2>4. Manual(p)
    BY <1>5, <2>1, <2>2, <2>3, StoreAssumption DEF Manual, ProvisionType, ForAppStore
  <2>5. d = {"download"}
    BY <2>1, <2>4
  <2> QED
    BY <1>4, <2>5, FS_Singleton
<1>7. CASE cli.name # "appstore upload"
  <2>1. cli.settings.qr = ~cli.settings.download /\ cli.settings.download \in BOOLEAN
    BY <1>3, <1>7 DEF SettingsOf, Builders
  <2>2. d = {"download"} \/ (d = {UrlKind(p)} /\ ~Manual(p) /\ ~cli.settings.download)
    BY <2>1 DEF Manual
  <2>3. Cardinality(d) = 1
    BY <2>2, FS_Singleton
  <2>4. ASSUME DeviceBuild, d # {"download"}
        PROVE  Provisions[p].type \in {"AdHoc", "Enterprise"}
    <3>1. p \in Names
      BY <1>1, <1>2, <2>4 DEF SelectedFor, Signing
    <3>2. ProvisionType(p) \notin {"Development", "AppStore"}
      BY <1>5, <2>2, <2>4 DEF Manual
    <3> QED
      BY <3>1, <3>2, StoreAssumption DEF ProvisionType, ProvisionTypes
  <2> QED
    BY <1>4, <2>3, <2>4
<1> QED
  BY <1>6, <1>7


(* A build for the App Store goes on with a provision of its types.         *)
LEMMA ForAppStoreGoesOn ==
  ASSUME StoreInv, BuildInv, CommandInv, AppStoreInv, NEW g \in Fibers, BuildStep(g)
  PROVE  AppStoreInv'
<1>1. UNCHANGED <<cli, stale, provisions>> /\ Active(g) /\ options \in Options
  BY BuildStepFits DEF Only, store, StepFits, BuildInv
<1>2. CASE cli.name # "appstore upload"
  BY <1>1, <1>2 DEF AppStoreInv
<1>3. CASE cli.name = "appstore upload"
  <2>1. cli.pc = "building" /\ DeviceBuild
    BY <1>1, <1>3 DEF Active, CommandInv, Building, SettingsOf, DeviceBuild
  <2>2. DeviceStep(g) /\ \A h \in Fibers : h # g => build'[h] = build[h]
    BY <2>1, DeviceSteps
  <2>3. \A x : FindProvision(x)' = FindProvision(x)
    BY <1>1 DEF FindProvision
  <2>4. \A f \in Fibers : build[f].pc = "findProvision" => options.provision # None
    BY <1>3, <2>1 DEF AppStoreInv
  <2>5. \/ options'.provision = options.provision
        \/ ProvisionSelected(g) /\ options'.provision = Exactly(build'[g].provision)
    <3>1. CASE CertificateSelected(g)
      <4>1. build'[g].certificate \in Aliases
        BY <3>1 DEF CertificateSelected, AutoselectCertificate, StoreInv
      <4> QED
        BY <1>1, <3>1, <4>1, OptionsHold DEF CertificateSelected
    <3>2. CASE ProvisionSelected(g)
      <4>1. build'[g].provision \in Names
        BY <3>2 DEF ProvisionSelected, StoreInv
      <4> QED
        BY <1>1, <3>2, <4>1, OptionsHold DEF ProvisionSelected
    <3> QED
      BY <2>2, <3>1, <3>2 DEF DeviceStep, Requested, ProvisionFound, FallsBack, CertificateFound, GoesOn, Stopped
  <2>6. ProvisionSelected(g) => /\ build'[g].provision \in provisions /\ build'[g].provision \in Names
                                /\ Provisions[build'[g].provision].type \in ForAppStore
                                /\ Exactly(build'[g].provision) # None
                                /\ FindProvision(Exactly(build'[g].provision)) = {build'[g].provision}
    <3> SUFFICES ASSUME ProvisionSelected(g)
                 PROVE  /\ build'[g].provision \in provisions /\ build'[g].provision \in Names
                        /\ Provisions[build'[g].provision].type \in ForAppStore
                        /\ Exactly(build'[g].provision) # None
                        /\ FindProvision(Exactly(build'[g].provision)) = {build'[g].provision}
      OBVIOUS
    <3>1. build'[g].provision \in provisions /\ build'[g].provision \in Names
      BY DEF ProvisionSelected, StoreInv
    <3>2. Provisions[build'[g].provision].type \in ForAppStore
      BY <1>3 DEF ProvisionSelected, ForAppStore
    <3>3. Exactly(build'[g].provision) # None
      BY <1>1, <3>1, OptionsHold
    <3>4. FindProvision(Exactly(build'[g].provision)) = {build'[g].provision}
      <4>1. provisions \in SUBSET Nat
        BY StoreAssumption DEF StoreInv
      <4> DEFINE p == build'[g].provision
      <4>2. p \in provisions
        BY <3>1
      <4> HIDE DEF p
      <4>3. FindByNameOrIndex(Exactly(p), provisions) = {p}
        BY <4>1, <4>2, FoundByName
      <4> QED
        BY <4>3 DEF FindProvision, p
    <3> QED
      BY <3>1, <3>2, <3>3, <3>4
  <2>7. ASSUME NEW f \in Fibers, build'[f].pc = "findProvision"
        PROVE  options'.provision # None
    <3>1. CASE f = g
      <4>1. Requested(g) \/ options'.provision # None
        BY <2>2, <2>7, <3>1 DEF DeviceStep, Requested, ProvisionFound, ProvisionSelected, FallsBack, CertificateFound,
                                CertificateSelected, CertificateKnown, GoesOn, Stopped, CertificateStep
      <4> QED
        BY <2>7, <3>1, <4>1 DEF Requested
    <3>2. CASE f # g
      BY <2>2, <2>4, <2>5, <2>6, <2>7, <3>2
    <3> QED
      BY <3>1, <3>2
  <2>8. ASSUME ~stale
        PROVE  /\ options'.provision # None =>
                    \A p \in FindProvision(options'.provision) : Provisions[p].type \in ForAppStore
               /\ \A f \in Fibers : build'[f].provision # None => Provisions[build'[f].provision].type \in ForAppStore
    <3>1. /\ options.provision # None =>
               \A p \in FindProvision(options.provision) : Provisions[p].type \in ForAppStore
          /\ \A f \in Fibers : build[f].provision # None => Provisions[build[f].provision].type \in ForAppStore
      BY <1>3, <2>1, <2>8 DEF AppStoreInv
    <3>2. options'.provision # None =>
               \A p \in FindProvision(options'.provision) : Provisions[p].type \in ForAppStore
      BY <2>5, <2>6, <3>1
    <3>3. build'[g].provision # None => Provisions[build'[g].provision].type \in ForAppStore
      <4>1. CASE ProvisionFound(g)
        BY <2>4, <3>1, <4>1 DEF ProvisionFound
      <4>2. CASE ProvisionSelected(g)
        BY <2>6, <4>2
      <4>3. CASE build'[g].provision \in {build[g].provision, None}
        BY <3>1, <4>3
      <4> QED
        BY <2>2, <4>1, <4>2, <4>3 DEF DeviceStep, Requested, FallsBack, CertificateFound, CertificateSelected,
                                     CertificateKnown, GoesOn, Stopped
    <3> QED
      BY <2>2, <3>1, <3>2, <3>3
  <2> QED
    BY <1>1, <1>3, <2>1, <2>3, <2>7, <2>8 DEF AppStoreInv
<1> QED
  BY <1>2, <1>3

LEMMA HandedOutByStep ==
  ASSUME StoreInv, BuildInv, CommandInv, HandedOutInv, NEW g \in Fibers, BuildStep(g)
  PROVE  DeliveredOnce'
<1>1. UNCHANGED <<cli, stale>> /\ AppStoreInv /\ DeliveredOnce
  BY BuildStepFits DEF Only, store, HandedOutInv
<1>2. PICK b \in Builds : Set(g, b) /\ (b.pc = "done" => Deliver(g))
  BY BuildStepFits DEF StepFits
<1>3. build'[g] = b /\ \A h \in Fibers : h # g => build'[h] = build[h]
  BY <1>2 DEF Set, BuildInv
<1> SUFFICES ASSUME NEW f \in Fibers, build'[f].pc = "done", cli.name # "appmanager upload",
                    cli.name = "appstore upload" => ~stale
             PROVE  /\ Cardinality(build'[f].delivered) = 1
                    /\ DeviceBuild /\ build'[f].delivered # {"download"} =>
                         Provisions[build'[f].provision].type \in {"AdHoc", "Enterprise"}
  BY <1>1 DEF DeliveredOnce, BuildAt, DeviceBuild
<1>4. CASE f = g
  BY <1>1, <1>2, <1>3, <1>4, HandedOutAtEnd
<1>5. CASE f # g
  BY <1>1, <1>3, <1>5 DEF DeliveredOnce, BuildAt
<1> QED
  BY <1>4, <1>5


(* Where the application is verified, nothing is built; a provision given   *)
(* for the App Store was checked just before.                              *)
LEMMA StepsToVerify ==
  ASSUME StoreInv, BuildInv, CommandInv, [Next]_vars, cli'.pc = "verifyStore"
  PROVE  \/ BuildCommand
         \/ CheckProvision /\ UNCHANGED <<options, provisions>> /\ cli.pc = "checkProvision"
            /\ \E p \in FindProvision(options.provision) : Provisions[p].type = "AppStore"
         \/ stale' = TRUE
         \/ UNCHANGED vars
<1>0. Named
  BY DEF CommandInv
<1>1. CASE IdentityStep \/ IdentityProgress
  BY <1>0, <1>1, IdentityStarts, IdentityMoves DEF IdentityPcs, ServerCalls, Ended
<1>2. ASSUME NEW debug \in BOOLEAN, NEW enabled \in LivePatchIn, PublishLivePatch(debug, enabled)
      PROVE  FALSE
  BY <1>2 DEF PublishLivePatch, Start
<1>3. ASSUME NEW v, Finish(v) \/ Goto(v), v # "verifyStore"
      PROVE  FALSE
  BY <1>0, <1>3, GotoKeeps DEF Finish, Named
<1>4. CASE DeployToIon \/ BuildEnds \/ DeployEnds \/ FindGroups \/ VerifyStoreCreated \/ UploadApplication
           \/ ConfigureLivePatchPlugin \/ UploadPatch
  <2>1. \E v : v # "verifyStore" /\ (Finish(v) \/ Goto(v))
    BY <1>4 DEF DeployToIon, BuildEnds, Built, DeployEnds, FindGroups, VerifyStoreCreated, UploadApplication,
                ConfigureLivePatchPlugin, UploadPatch
  <2> QED
    BY <1>3, <2>1
<1>5. CASE CheckProvision
  <2>1. UNCHANGED <<options, provisions>> /\ cli.pc = "checkProvision"
    BY <1>5 DEF CheckProvision, Others, store
  <2>2. \E p \in FindProvision(options.provision) : Provisions[p].type = "AppStore"
    BY <1>3, <1>5 DEF CheckProvision
  <2> QED
    BY <1>5, <2>1, <2>2
<1>6. CASE BuiltForUpload
  <2>1. (IF cli.name = "appmanager upload" /\ cli.group THEN "groups" ELSE "upload") \in {"groups", "upload"}
    OBVIOUS
  <2>2. \/ Finish("failed")
        \/ \E v \in {"groups", "upload"} : cli' = [cli EXCEPT !.pc = v, !.package = Package(Main)]
    BY <1>6, <2>1, Zenon DEF BuiltForUpload
  <2>3. ASSUME NEW v \in {"groups", "upload"}, cli' = [cli EXCEPT !.pc = v, !.package = Package(Main)]
        PROVE  cli'.pc = v
    BY <1>0, <2>3, Zenon DEF Named
  <2> QED
    BY <1>3, <2>2, <2>3
<1>7. ASSUME NEW f \in Fibers, DeployTo(f) \/ PackageBuilt(f) \/ ReinstallApplication(f) \/ BuildStep(f)
      PROVE  FALSE
  <2>1. UNCHANGED cli /\ cli.pc = "building"
    <3>1. CASE BuildStep(f)
      BY <3>1, BuildStepFits DEF Only, StepFits, Active
    <3>2. CASE DeployTo(f) \/ PackageBuilt(f) \/ ReinstallApplication(f)
      BY <3>2 DEF DeployTo, PackageBuilt, ReinstallApplication, In
    <3> QED
      BY <1>7, <3>1, <3>2
  <2> QED
    BY <2>1
<1>8. CASE BuildProgress
  BY <1>4, <1>5, <1>6, <1>7, <1>8 DEF BuildProgress
<1>9. CASE CommandExit
  BY <1>9 DEF CommandExit, Exit, Idle
<1>10. CASE PortalChange /\ UNCHANGED <<local, buildVars>>
  BY <1>10 DEF PortalChange
<1> QED
  BY <1>1, <1>2, <1>8, <1>9, <1>10 DEF Next, Progress

LEMMA HandedOutNext ==
  ASSUME StoreInv, BuildInv, CommandInv, HandedOutInv, [Next]_vars
  PROVE  HandedOutInv'
<1>0. AppStoreInv /\ DeliveredOnce /\ BuildInv' /\ CommandInv'
  BY BuildNext, CommandNext DEF HandedOutInv
<1>1. ASSUME BuildCommand
      PROVE  cli'.name = "appstore upload" /\ cli'.pc \in {"verifyStore", "building"} => options'.provision = None
  BY <1>1, CommandStarts
<1>2. CASE UNCHANGED vars
  BY <1>0, <1>2 DEF vars, store, buildVars, HandedOutInv, AppStoreInv, DeliveredOnce, BuildAt, FindProvision, DeviceBuild
<1>3. CASE cli'.pc = "building"
  <2>1. CASE BuildCommand /\ Fresh
    BY <1>1, <1>3, <2>1, FreshHandsOutNothing DEF HandedOutInv, AppStoreInv
  <2>2. CASE VerifyStoreCreated /\ Fresh /\ UNCHANGED <<options, store>> /\ cli'.name = cli.name
    <3>1. cli.pc = "verifyStore" /\ UNCHANGED <<options, stale, provisions>> /\ cli'.name = cli.name
      BY <2>2 DEF VerifyStoreCreated, store
    <3>2. \A x : FindProvision(x)' = FindProvision(x)
      BY <3>1 DEF FindProvision
    <3>3. AppStoreInv'
      BY <1>0, <1>3, <2>2, <3>1, <3>2, FreshHandsOutNothing DEF AppStoreInv
    <3> QED
      BY <2>2, <3>3, FreshHandsOutNothing DEF HandedOutInv
  <2>3. ASSUME NEW f \in Fibers, DeployTo(f) \/ PackageBuilt(f) \/ ReinstallApplication(f)
        PROVE  HandedOutInv'
    <3>1. UNCHANGED <<cli, stale>> /\ cli.name = "deploy"
      BY <2>3, DeployFits DEF store
    <3>2. PICK b \in Builds : Set(f, b) /\ b.pc # "done"
      BY <2>3, DeployFits
    <3>3. build'[f] = b /\ \A h \in Fibers : h # f => build'[h] = build[h]
      BY <3>2 DEF Set, BuildInv
    <3>4. DeliveredOnce'
      <4> SUFFICES ASSUME NEW h \in Fibers, build'[h].pc = "done"
                   PROVE  /\ Cardinality(build'[h].delivered) = 1
                          /\ DeviceBuild /\ build'[h].delivered # {"download"} =>
                               Provisions[build'[h].provision].type \in {"AdHoc", "Enterprise"}
        BY <3>1 DEF DeliveredOnce, BuildAt, DeviceBuild
      <4>1. h # f
        BY <3>2, <3>3
      <4> QED
        BY <1>0, <3>1, <3>3, <4>1 DEF DeliveredOnce, BuildAt
    <3>5. AppStoreInv'
      BY <3>1 DEF AppStoreInv
    <3> QED
      BY <3>4, <3>5 DEF HandedOutInv
  <2>4. ASSUME NEW f \in Fibers, BuildStep(f)
        PROVE  HandedOutInv'
    BY <1>0, <2>4, ForAppStoreGoesOn, HandedOutByStep DEF HandedOutInv
  <2>5. CASE UNCHANGED <<cli, options, build>> /\ stale' = TRUE
    <3>1. AppStoreInv'
      BY <1>0, <2>5 DEF AppStoreInv
    <3>2. DeliveredOnce'
      <4> SUFFICES ASSUME NEW h \in Fibers, build[h].pc = "done", cli.name \notin Uploads
                   PROVE  /\ Cardinality(build[h].delivered) = 1
                          /\ DeviceBuild /\ build[h].delivered # {"download"} =>
                               Provisions[build[h].provision].type \in {"AdHoc", "Enterprise"}
        BY <2>5 DEF DeliveredOnce, BuildAt, DeviceBuild, Uploads
      <4> QED
        BY <1>0 DEF DeliveredOnce, BuildAt, Uploads
    <3> QED
      BY <3>1, <3>2 DEF HandedOutInv
  <2> QED
    BY <1>2, <1>3, <2>1, <2>2, <2>3, <2>4, <2>5, StepsWhileBuilding
<1>4. CASE cli'.pc # "building"
  <2>1. \A f \in Fibers : build'[f] = NotBuilding
    BY <1>0, <1>4 DEF BuildInv, Active
  <2>2. DeliveredOnce'
    BY <2>1, NewBuildFits DEF DeliveredOnce, BuildAt
  <2>3. ASSUME ~stale', cli'.name = "appstore upload", cli'.pc = "verifyStore", options'.provision # None
        PROVE  \A p \in FindProvision(options.provision)' : Provisions[p].type \in ForAppStore
    <3>1. CASE BuildCommand
      BY <1>1, <2>3, <3>1
    <3>2. CASE CheckProvision /\ UNCHANGED <<options, provisions>> /\ cli.pc = "checkProvision"
            /\ \E p \in FindProvision(options.provision) : Provisions[p].type = "AppStore"
      <4>1. PICK p \in FindProvision(options.provision) : Provisions[p].type = "AppStore"
        BY <3>2
      <4>2. FindProvision(options.provision) = {p}
        BY <4>1, FoundInStore
      <4>3. FindProvision(options.provision)' = FindProvision(options.provision)
        BY <3>2 DEF FindProvision
      <4> QED
        BY <4>1, <4>2, <4>3 DEF ForAppStore
    <3>3. CASE UNCHANGED vars
      BY <1>0, <2>3, <3>3 DEF AppStoreInv, vars, store, buildVars, FindProvision
    <3> QED
      BY <2>3, <3>1, <3>2, <3>3, StepsToVerify
  <2>4. AppStoreInv'
    BY <1>4, <2>3 DEF AppStoreInv
  <2> QED
    BY <2>2, <2>4 DEF HandedOutInv
<1> QED
  BY <1>3, <1>4

(* What leaves a command can be used by whoever gets it, also with any     *)
(* number of devices (build.ts:build, appmanager-service.ts): a build is   *)
(* handed out once, AppManager gets what it can distribute, and an update  *)
(* comes from a project with the plugin.                                   *)
THEOREM WhatIsHandedOutFits == Spec => []HandedOutFits
<1> DEFINE Inv == StoreInv /\ BuildInv /\ CommandInv /\ TargetInv /\ HandedOutInv
<1>1. Init => Inv
  BY StoreInit, BuildInit, TargetInit, HandedOutInit
<1>2. Inv /\ [Next]_vars => Inv'
  BY StoreNext, BuildNext, CommandNext, TargetNext, HandedOutNext
<1>3. Inv => HandedOutFits
  <2> SUFFICES ASSUME TargetInv, HandedOutInv
               PROVE  HandedOutFits
    OBVIOUS
  <2>1. AppManagerPackage
    BY DEF TargetInv, PackageFits, AppManagerPackage
  <2> QED
    BY <2>1 DEF TargetInv, HandedOutInv, HandedOutFits
<1> QED
  BY <1>1, <1>2, <1>3, PTL DEF Spec
=============================================================================
