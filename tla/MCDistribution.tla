--------------------------- MODULE MCDistribution ---------------------------
(* Instances of Distribution: two devices, four identities (the last is    *)
(* the first one, expired), four provisions, of which one covers both.     *)
EXTENDS Distribution

CONSTANTS d1, d2

Identity(ios, key, expired, googlePlay) ==
  [ios |-> ios, key |-> key, expired |-> expired, googlePlay |-> googlePlay]
Provision(type, devices, keys) ==
  [type |-> type, fits |-> TRUE, devices |-> devices, keys |-> keys, expired |-> FALSE]

MCIdentities == <<Identity(TRUE, "k1", FALSE, FALSE), Identity(TRUE, "k2", FALSE, FALSE),
                  Identity(FALSE, "k3", FALSE, TRUE), Identity(TRUE, "k1", TRUE, FALSE)>>
MCProvisions == <<Provision("AdHoc", {d1}, {"k1"}), Provision("Development", {d1, d2}, {"k2"}),
                  Provision("AppStore", {}, {"k1"}), Provision("Enterprise", {d2}, {"k1"})>>
Store(ids, provs) == [identities |-> ids, provisions |-> provs]
MCStores == {Store({1, 2, 3}, {1, 2, 3}), Store({1, 4}, {1, 3, 4}), Store({1, 2}, {2, 3})}
MCInitialFiles == {<<"export", 2>>, <<"saveTo", 0>>}

Index(n) == [beginning |-> {}, index |-> n]
MCTyped == {Index(2), Exactly(1), Exactly(3), [beginning |-> {1, 2, 3}, index |-> 3]}
MCOptionSets == [provision : {None}, certificate : {None, Exactly(1)}]
           \cup [provision : {Index(2), Exactly(3)}, certificate : {None, Index(2)}]
MCGiven == {{}, {"Name", "Email", "Country"}, Subject \cup {"Type"}, Arguments}
MCLivePatchIn == {{}, {"Debug"}}
==========================================================================
