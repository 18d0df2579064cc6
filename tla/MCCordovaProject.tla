------------------------- MODULE MCCordovaProject -------------------------
(* Small projects: a core plugin, a marketplace plugin with variables in   *)
(* two versions, and a core plugin that the marketplace one replaces.      *)
EXTENDS CordovaProject

core(id) == [id |-> id, version |-> "none"]
market(id, v) == [id |-> id, version |-> v]

CorePlugin(id) ==
  [id |-> id, version |-> "core", market |-> FALSE, supported |-> TRUE, hasVars |-> FALSE]
MarketPlugin(id, v) ==
  [id |-> id, version |-> v, market |-> TRUE, supported |-> TRUE, hasVars |-> TRUE]

ThreePlugins ==
  <<CorePlugin("c"), MarketPlugin("m", "2"), MarketPlugin("m", "1"), CorePlugin("o")>>
ThreePluginsRecords == {core("c"), market("m", "2"), market("m", "1"), core("o")}
ThreePluginsIds == {"c", "m", "o"}
ObsoleteReplacedByM == [id \in ThreePluginsIds |-> IF id = "o" THEN "m" ELSE "noId"]

NoFilesOrBoth == {{}, {"debug", "release"}}
NoPluginsOrBothCore == {{}, {core("c"), core("o")}}
CoreOnly == {{core("c")}}

(* Two plugins of the core only, set by `prop`. *)
TwoCore == <<CorePlugin("c"), CorePlugin("d")>>
TwoCoreRecords == {core("c"), core("d")}
TwoCoreIds == {"c", "d"}
NoneObsolete == [id \in TwoCoreIds |-> "noId"]
BothFiles == {{"debug", "release"}}
AllTwoCore == SUBSET TwoCoreRecords

==========================================================================
