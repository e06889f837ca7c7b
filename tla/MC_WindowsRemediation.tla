------------------------ MODULE MC_WindowsRemediation ------------------------
(***************************************************************************)
(* A small machine for WindowsRemediation: one firewall profile, one       *)
(* managed rule, one legacy rule, one service, the RDP policy and two      *)
(* network adapters, one of which may appear later.                        *)
(***************************************************************************)
EXTENDS WindowsRemediation, TLC

MCProfiles == <<"public">>
MCRuleNames == <<"TCP-3389">>
MCLegacyNames == <<"TCP-136">>
MCServices == <<"TermService">>
MCRdpPolicy == "fDenyTSConnections"
MCAdapters == <<"eth0", "eth1">>

System(profile, rules, legacy, service, rdp, eth0) ==
  [i \in Items |->
     CASE i = "public" -> profile
       [] i = "TCP-3389" -> rules
       [] i = "TCP-136" -> legacy
       [] i = "TermService" -> service
       [] i = "fDenyTSConnections" -> rdp
       [] i = "eth0" -> eth0
       [] OTHER -> "gone"]

Service(start, run) == [start |-> start, run |-> run]

\* A machine never hardened, with duplicates of the managed rule and a rule
\* of an earlier version.
Open == System("off", <<"block", "other">>, <<"other">>, Service("auto", "running"), "none", "default")

\* A machine half hardened by hand: the service is disabled but still runs,
\* the rule has the managed name but blocks some addresses only.
ByHand == System("on", <<"scoped">>, <<>>, Service("disabled", "running"), "deny", "none")

\* The rule is there but disabled, and no adapter is installed.
Bare == System("off", <<"other">>, <<>>, Service("demand", "stopped"), "allow", "gone")

AllSystems == {Open, ByHand, Bare}
Configured == {Open, ByHand}

\* What other software does to a setting.
MCOthersMaySet(i) ==
  CASE i = "public" -> {"on", "off"}
    [] i = "TCP-3389" -> {<<>>, <<"other">>, <<"block", "other">>}
    [] i = "TCP-136" -> {<<"other">>}
    [] i = "TermService" -> {Service("auto", "running"), Service("disabled", "stopped")}
    [] i = "fDenyTSConnections" -> {"allow", "deny"}
    [] OTHER -> {"gone", "default", "disabled"}

Symmetry == Permutations(Proc)
==============================================================================
