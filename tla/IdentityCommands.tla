-------------------------- MODULE IdentityCommands --------------------------
(***************************************************************************)
(* The certificate, certificate-request and provision commands             *)
(* (lib/commands/cryptographic-identities.ts). Between two steps of a      *)
(* command stands an answer of the server or of the user; a call that is   *)
(* answered with an error ends the command.                                *)
(***************************************************************************)
EXTENDS IdentityStore

CONSTANTS
  RequestNames,   \* unique names the server gives to signing requests
  SaveTo,         \* file names given by --save-to
  InitialFiles,   \* the files in the working directory at first
  Typed,          \* what the user types to name an item
  Given           \* the sets of arguments given to the commands that generate

LocalFiles == ({"saveTo"} \X SaveTo) \cup ({"export"} \X Aliases)

ASSUME IdentityCommandsAssumption ==
  /\ RequestNames \subseteq Nat
  /\ Typed \subseteq NameOrIndex /\ None \notin NameOrIndex
  /\ InitialFiles \subseteq LocalFiles

VARIABLES
  listing,    \* what the last list command printed: [kind, items]
  files,      \* local files written by export and download
  removed     \* the item removed, with the command's argument and the listing

local == <<listing, files, removed>>

MAX_ALLOWED_PASSWORD_ATTEMPTS == 3

NoListing == [kind |-> "none", items |-> <<>>]
NothingRemoved == [kind |-> "none"]

Subject == {"Name", "Email", "Country"}
Arguments == Subject \cup {"Type", "StartDate", "EndDate"}

Items(kind) == CASE kind = "certificate" -> identities
                 [] kind = "provision" -> provisions
                 [] kind = "certificate-request" -> DOMAIN requests

In(name, pc) == cli.name = name /\ cli.pc = pc

--------------------------------------------------------------------------
(* As if the list was printed in another order. *)
PrintedBackwards(kind) == [kind |-> kind, items |-> Reverse(Listed(Items(kind)))]

(* listCertificates, listProvisions, certificate-request list: sorted, and *)
(* numbered from one. *)
Printed(kind) == [kind |-> kind, items |-> Listed(Items(kind))]

List(kind) ==
  /\ Start([name |-> "list", pc |-> "ok"])
  /\ listing' = Printed(kind)
  /\ UNCHANGED <<identities, provisions, requests, changes, files, removed>>

(* provision <name or index> prints one provision. *)
ListProvision(typed) ==
  /\ Start([name |-> "list", pc |-> IF FindProvision(typed) = {} THEN "failed" ELSE "ok"])
  /\ UNCHANGED <<identities, provisions, requests, changes, local>>

--------------------------------------------------------------------------
StartRemove(kind, typed, force) ==
  /\ Change
  /\ Start([name |-> "remove", pc |-> "find", kind |-> kind, typed |-> typed, force |-> force,
            seen |-> Items(kind), item |-> None])
  /\ UNCHANGED <<identities, provisions, requests, local>>

(* A provision is found when the argument is validated ... *)
ValidateProvisionId ==
  /\ In("remove", "find") /\ cli.kind = "provision"
  /\ IF FindProvision(cli.typed) = {} THEN Finish("failed") ELSE Goto("findAgain")
  /\ UNCHANGED <<store, local>>

Found(item) == [cli EXCEPT !.pc = "remove", !.item = item]

(* ... and found again, in a new list, when it is to be removed. *)
FindProvisionToRemove ==
  /\ In("remove", "findAgain")
  /\ LET found == FindProvision(cli.typed)
     IN IF found = {} THEN Finish("failed") ELSE \E p \in found : cli' = Found(p)
  /\ UNCHANGED <<store, local>>

(* The user is asked, unless --force is given; a signing request, which    *)
(* only an index names, is always asked for. *)
FindToRemove ==
  /\ In("remove", "find") /\ cli.kind # "provision"
  /\ LET certificate == cli.kind = "certificate"
         found == IF certificate THEN FindCertificate(cli.typed)
                  ELSE ParseCertificateIndex(cli.typed.index)
     IN IF found = {} THEN Finish("failed")
        ELSE \E i \in found :
             \/ cli' = Found(i)
             \/ ~(certificate /\ cli.force) /\ Finish("ok")
  /\ UNCHANGED <<store, local>>

RemoveItem ==
  /\ In("remove", "remove")
  /\ removed' = [kind |-> cli.kind, item |-> cli.item, typed |-> cli.typed,
                 seen |-> cli.seen, stale |-> stale, listing |-> listing]
  /\ IF cli.kind = "certificate" THEN identities' = identities \ {cli.item} ELSE UNCHANGED identities
  /\ IF cli.kind = "provision" THEN provisions' = provisions \ {cli.item} ELSE UNCHANGED provisions
  /\ requests' = IF cli.kind = "certificate-request"
                 THEN Restrict(requests, DOMAIN requests \ {cli.item}) ELSE requests
  /\ listing' = IF cli.kind = "provision" THEN [kind |-> "provision", items |-> Listed(provisions')]
                ELSE listing
  /\ Finish("ok")
  /\ UNCHANGED <<changes, stale, files>>

--------------------------------------------------------------------------
StartExport(typed) ==
  /\ Change
  /\ Start([name |-> "export", pc |-> "find", typed |-> typed])
  /\ UNCHANGED <<identities, provisions, requests, local>>

(* An existing target file ends the command. The new one is created before *)
(* the server is asked for its contents, and left when that fails.         *)
FindToExport ==
  /\ In("export", "find")
  /\ LET found == {c \in FindCertificate(cli.typed) : <<"export", c>> \notin files}
     IN IF found = {} THEN Finish("failed") /\ UNCHANGED files
        ELSE \E c \in found : files' = files \cup {<<"export", c>>} /\ Goto("contents")
  /\ UNCHANGED <<store, listing, removed>>

Contents ==
  /\ cli.pc = "contents"
  /\ Finish("ok")
  /\ UNCHANGED <<store, local>>

--------------------------------------------------------------------------
(* Only .p12 and .cer files are imported; a .p12 file has a password,      *)
(* given or asked for; only the first attempt uses the one given.          *)
StartImport(extension) ==
  /\ Change
  /\ Start(IF extension \in {"p12", "cer"}
           THEN [name |-> "import", pc |-> "import", attempt |-> 1, extension |-> extension]
           ELSE [name |-> "import", pc |-> "failed"])
  /\ UNCHANGED <<identities, provisions, requests, local>>

AttemptsLeft == cli.extension = "p12" /\ cli.attempt < MAX_ALLOWED_PASSWORD_ATTEMPTS

Import ==
  /\ In("import", "import")
  /\ \/ /\ \E c \in Aliases : identities' = identities \cup {c}
        /\ Finish("ok")
     \/ /\ cli' = IF AttemptsLeft THEN [cli EXCEPT !.attempt = @ + 1]
                  ELSE [name |-> "import", pc |-> "failed"]
        /\ UNCHANGED identities
  /\ UNCHANGED <<provisions, requests, changes, stale, local>>

(* provision import: the list of provisions is printed afterwards. *)
ImportProvision(exists) ==
  /\ Change
  /\ Start([name |-> "provision import", pc |-> IF exists THEN "importProvision" ELSE "failed"])
  /\ UNCHANGED <<identities, provisions, requests, local>>

ImportedProvision ==
  /\ In("provision import", "importProvision")
  /\ \E p \in Names : provisions' = provisions \cup {p}
  /\ listing' = [kind |-> "provision", items |-> Listed(provisions')]
  /\ Finish("ok")
  /\ UNCHANGED <<identities, requests, changes, stale, files, removed>>

--------------------------------------------------------------------------
(* gatherIdentityInformation asks for what was not given, and returns only *)
(* what it asked for. *)
GatherIdentityInformation(given) == Subject \ given

(* CreateSelfSignedIdentity: when type or start date are asked for, the    *)
(* answers replace the model and the gathered data extend it; else the     *)
(* model is the arguments. *)
SelfSignedModel(given) ==
  LET prompted == {"Type", "StartDate"} \ given
  IN IF prompted = {} THEN given ELSE prompted \cup GatherIdentityInformation(given)

CreateSelfSigned(given) ==
  /\ Change
  /\ Start([name |-> "create-self-signed", pc |-> "generate", given |-> given])
  /\ UNCHANGED <<identities, provisions, requests, local>>

(* The end date is asked for last; validating the answer reads the type,   *)
(* and throws when the model has none. *)
GenerateSelfSigned ==
  /\ In("create-self-signed", "generate")
  /\ LET model == SelfSignedModel(cli.given)
     IN IF "EndDate" \notin model /\ "Type" \notin model
        THEN Finish("failed") /\ UNCHANGED identities
        ELSE /\ \E c \in {a \in Aliases : ~Identities[a].ios} : identities' = identities \cup {c}
             /\ Finish("ok")
  /\ UNCHANGED <<provisions, requests, changes, stale, listing, files, removed>>

CreateRequest(given) ==
  /\ Change
  /\ Start([name |-> "create-request", pc |-> "generate", given |-> given \cap Subject])
  /\ UNCHANGED <<identities, provisions, requests, local>>

(* The request is made on the server, then downloaded. *)
GenerateRequest ==
  /\ In("create-request", "generate")
  /\ \E n \in RequestNames \ DOMAIN requests :
       /\ requests' = [m \in DOMAIN requests \cup {n} |->
                        IF m = n THEN GatherIdentityInformation(cli.given) ELSE requests[m]]
       /\ cli' = [name |-> "create-request", pc |-> "download", item |-> n]
  /\ UNCHANGED <<identities, provisions, changes, stale, listing, files, removed>>

StartDownload(index) ==
  /\ Change
  /\ Start([name |-> "download", pc |-> "find", index |-> index])
  /\ UNCHANGED <<identities, provisions, requests, local>>

FindToDownload ==
  /\ In("download", "find")
  /\ LET found == ParseCertificateIndex(cli.index)
     IN IF found = {} THEN Finish("failed")
        ELSE \E n \in found : cli' = [name |-> "download", pc |-> "download", item |-> n]
  /\ UNCHANGED <<store, local>>

(* downloadCertificate: --save-to names a file that must not exist; else a *)
(* file name that is not in use is found. *)
DownloadRequest ==
  /\ cli.pc = "download"
  /\ \/ \E n \in SaveTo :
          IF <<"saveTo", n>> \in files THEN Finish("failed") /\ UNCHANGED files
          ELSE files' = files \cup {<<"saveTo", n>>} /\ Goto("contents")
     \/ Goto("contents") /\ UNCHANGED files
  /\ UNCHANGED <<store, listing, removed>>

--------------------------------------------------------------------------
(* A call answered with an error. *)
ServerCalls == {"find", "findAgain", "remove", "contents", "importProvision", "generate", "download"}

IdentityCallFails ==
  /\ cli.name \in {"remove", "export", "provision import", "create-self-signed",
                   "create-request", "download"}
  /\ cli.pc \in ServerCalls
  /\ Finish("failed")
  /\ UNCHANGED <<store, local>>

IdentityStep ==
  \/ \E kind \in {"certificate", "provision", "certificate-request"} :
       List(kind) \/ \E t \in Typed, force \in BOOLEAN : StartRemove(kind, t, force)
  \/ \E t \in Typed : ListProvision(t) \/ StartExport(t) \/ StartDownload(t.index)
  \/ \E extension \in {"p12", "cer", "pfx"} : StartImport(extension)
  \/ \E exists \in BOOLEAN : ImportProvision(exists)
  \/ \E given \in Given : CreateSelfSigned(given) \/ CreateRequest(given)

IdentityProgress ==
  \/ ValidateProvisionId \/ FindProvisionToRemove \/ FindToRemove \/ RemoveItem
  \/ FindToExport \/ Contents \/ Import \/ ImportedProvision
  \/ GenerateSelfSigned \/ GenerateRequest \/ FindToDownload \/ DownloadRequest
  \/ IdentityCallFails
==========================================================================
