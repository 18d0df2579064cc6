-------------------------- MODULE EnabledPlugins --------------------------
(***************************************************************************)
(* What `prop add|rm|set CorePlugins` promises: of the plugins that each   *)
(* build configuration gets, those of the configurations named on the      *)
(* command line - of all, if none is - change as asked, at once, or the    *)
(* command is refused and none changes.  Where the lists are kept is       *)
(* nobody's business.                                                      *)
(***************************************************************************)
CONSTANTS Configurations, Named, Records, Values, Modes

VARIABLES
  enabled,  \* the plugins of each configuration
  request   \* the command running: [mode, values, configs]

NoRequest == [mode |-> "none", values |-> {}, configs |-> {}]

Init ==
  /\ enabled \in [Configurations -> SUBSET Records]
  /\ request = NoRequest

Ask(mode, values, configs) ==
  /\ request = NoRequest
  /\ request' = [mode |-> mode, values |-> values, configs |-> configs]
  /\ UNCHANGED enabled

Changed(list) ==
  CASE request.mode = "add" -> list \cup request.values
    [] request.mode = "del" -> list \ request.values
    [] request.mode = "set" -> request.values

Grant ==
  /\ request # NoRequest
  /\ enabled' = [c \in Configurations |->
       IF request.configs = {} \/ c \in request.configs THEN Changed(enabled[c]) ELSE enabled[c]]
  /\ request' = NoRequest

Refuse ==
  /\ request # NoRequest
  /\ request' = NoRequest
  /\ UNCHANGED enabled

Next ==
  \/ \E mode \in Modes, values \in Values, configs \in SUBSET Named : Ask(mode, values, configs)
  \/ Grant
  \/ Refuse

Spec == Init /\ [][Next]_<<enabled, request>>

==========================================================================
