--------------------------- MODULE IdentityStore ---------------------------
(***************************************************************************)
(* The certificates ("identities") and provisioning profiles a user keeps  *)
(* on the server, how the CLI finds and selects them, and the validation   *)
(* of an iOS build (lib/commands/cryptographic-identities.ts,              *)
(* lib/validators/, lib/helpers.ts), with the process that every command   *)
(* that uses them shares.                                                  *)
(*                                                                         *)
(* An identity is its alias and a provision its name, numbers in the order *)
(* the CLI sorts them; what they contain never changes and is a constant.  *)
(* The store is also changed from elsewhere: the web portal, another CLI.  *)
(***************************************************************************)
EXTENDS Integers, FiniteSets, Sequences, SequencesExt

CONSTANTS
  Identities,        \* identity alias -> [ios, key, expired, googlePlay]
  Provisions,        \* provision name -> [type, fits, devices, keys, expired]
  Stores,            \* the [identities, provisions] the server may hold at first
  Devices,           \* identifiers of connected devices
  None,              \* no provision, certificate, option or device
  MaxChanges         \* bound: commands and others that change the store or files

Aliases == DOMAIN Identities
Names == DOMAIN Provisions

ProvisionTypes == {"Development", "AppStore", "AdHoc", "Enterprise"}

ASSUME StoreAssumption ==
  /\ Aliases \subseteq Nat /\ Names \subseteq Nat
  /\ None \notin Aliases \cup Names \cup Devices
  /\ \A p \in Names : Provisions[p].devices \subseteq Devices /\ Provisions[p].type \in ProvisionTypes
  /\ \A s \in Stores : /\ s.identities \subseteq Aliases /\ s.provisions \subseteq Names
                        /\ IsFiniteSet(s.identities) /\ IsFiniteSet(s.provisions)
ASSUME MaxChangesAssumption == MaxChanges \in Nat

VARIABLES
  identities,   \* aliases on the server
  provisions,   \* provision names on the server
  requests,     \* certificate signing requests, by unique name
  changes,      \* such commands and changes from elsewhere so far
  cli,          \* the command running: [name, pc, outcome, ...]
  stale         \* the store was changed from elsewhere while it ran

store == <<identities, provisions, requests, changes, stale>>

Idle == [name |-> "none", pc |-> "idle"]

(* What a user types to name an item: the names it is the beginning of,    *)
(* and the number it parses to (0: none).                                  *)
NameOrIndex == [beginning : SUBSET (Aliases \cup Names), index : Nat]
Exactly(name) == [beginning |-> {name}, index |-> 0]

Least(S) == CHOOSE x \in S : \A y \in S : x <= y

(* In order: the i-th item has i - 1 before it. *)
Listed(S) == [i \in 1..Cardinality(S) |-> CHOOSE x \in S : Cardinality({y \in S : y < x}) = i - 1]

(* helpers.findByNameOrIndex: the first name, in order, that begins with   *)
(* what was typed, else the item with that number. The result is a set,    *)
(* empty when there is no such item. *)
FindByNameOrIndex(typed, names) ==
  LET prefixed == names \cap typed.beginning
  IN IF prefixed # {} THEN {Least(prefixed)}
     ELSE IF typed.index \in 1..Cardinality(names) THEN {Listed(names)[typed.index]}
     ELSE {}

FindCertificate(typed) == FindByNameOrIndex(typed, identities)
FindProvision(typed) == FindByNameOrIndex(typed, provisions)

(* parseCertificateIndex: the index in the sorted list of requests.        *)
ParseCertificateIndex(index) ==
  IF index \in 1..Cardinality(DOMAIN requests) THEN {Listed(DOMAIN requests)[index]} ELSE {}

--------------------------------------------------------------------------
(* IOSDeploymentValidator.validateProvision; it "fits" when its pattern of *)
(* application identifiers matches the application's.                      *)
ValidProvision(p, device) ==
  /\ ~Provisions[p].expired
  /\ Provisions[p].fits
  /\ device # None => device \in Provisions[p].devices

(* IOSDeploymentValidator.validateCertificate and                          *)
(* isCertificateCompatibleWithProvision.                                   *)
ValidCertificate(c, p) ==
  /\ Identities[c].key \in Provisions[p].keys
  /\ ~Identities[c].expired

(* autoselectProvision: the first of the wanted types that has a valid     *)
(* provision with a valid certificate; which one of that type is the       *)
(* server's order. *)
AutoselectProvision(types, device) ==
  LET Passed(type) == {p \in provisions :
        /\ Provisions[p].type = type
        /\ ValidProvision(p, device)
        /\ \E c \in identities : ValidCertificate(c, p)}
      selected == {i \in DOMAIN types : Passed(types[i]) # {}}
  IN IF selected = {} THEN {} ELSE Passed(types[Least(selected)])

(* autoselectCertificate *)
AutoselectCertificate(p) == {c \in identities : ValidCertificate(c, p)}

(* findReleaseCertificate: valid until the date Google Play asks for; an   *)
(* Apple certificate might be. *)
ValidForGooglePlay(c) == Identities[c].googlePlay
FindReleaseCertificate == {c \in identities : ValidForGooglePlay(c)}

--------------------------------------------------------------------------
Change == changes < MaxChanges /\ changes' = changes + 1

(* A change from elsewhere: items appear and disappear. *)
PortalChange ==
  /\ Change
  /\ stale' = (cli.pc # "idle")
  /\ \/ \E c \in Aliases \ identities : identities' = identities \cup {c} /\ UNCHANGED provisions
     \/ \E c \in identities : identities' = identities \ {c} /\ UNCHANGED provisions
     \/ \E p \in Names \ provisions : provisions' = provisions \cup {p} /\ UNCHANGED identities
     \/ \E p \in provisions : provisions' = provisions \ {p} /\ UNCHANGED identities
  /\ UNCHANGED <<requests, cli>>

(* A command starts, goes on, fails and ends. *)
Start(command) ==
  /\ cli.pc = "idle"
  /\ cli' = command
  /\ stale' = FALSE
Goto(pc) == cli' = [cli EXCEPT !.pc = pc]
Finish(outcome) == cli' = [name |-> cli.name, pc |-> outcome]
Exit == cli.pc \in {"ok", "failed"} /\ cli' = Idle
==========================================================================
