----------------------------- MODULE HostSettings -----------------------------
(***************************************************************************)
(* The settings of one Windows machine that the repair manages, the value  *)
(* each can have, and what one attempt to repair or to restore a setting   *)
(* can do to it.  An attempt is a set of outcomes                          *)
(*     [val |-> value left behind, ok |-> reported success,                *)
(*      changed |-> reported change]                                       *)
(* "works" is TRUE when every system call of the attempt succeeds; with    *)
(* works = FALSE some call fails and every intermediate value that may be  *)
(* left behind is an outcome.                                              *)
(***************************************************************************)
EXTENDS Naturals, Sequences, SequencesExt

CONSTANTS
  Profiles,      \* firewall profiles, in the order the code walks them
  RuleNames,     \* names of the managed block rules (kRules)
  LegacyNames,   \* names of the rules of earlier versions
  Services,      \* LanmanServer, TermService
  RdpPolicy,     \* fDenyTSConnections
  Adapters       \* network interfaces that may exist

Names == RuleNames \o LegacyNames

\* The order in which Capture reads the machine.
Inventory == Services \o <<RdpPolicy>> \o Adapters \o Profiles \o Names

Items == ToSet(Inventory)

ASSUME HostAssumption ==
  /\ Profiles \in Seq(ToSet(Profiles))
  /\ RuleNames \in Seq(ToSet(RuleNames))
  /\ LegacyNames \in Seq(ToSet(LegacyNames))
  /\ Services \in Seq(ToSet(Services))
  /\ Adapters \in Seq(ToSet(Adapters))
  /\ ToSet(RuleNames) \cap ToSet(LegacyNames) = {}
  /\ ToSet(Profiles) \cap (ToSet(Names) \cup ToSet(Services) \cup ToSet(Adapters)) = {}
  /\ ToSet(Names) \cap (ToSet(Services) \cup ToSet(Adapters)) = {}
  /\ ToSet(Services) \cap ToSet(Adapters) = {}
  /\ \A j, k \in DOMAIN Names : Names[j] = Names[k] => j = k
  /\ RdpPolicy \notin ToSet(Profiles) \cup ToSet(Names) \cup ToSet(Services) \cup ToSet(Adapters)

(***************************************************************************)
(* Values.  The rules that bear one name are a sequence of kinds:          *)
(*   "block"   exactly what the repair configures                          *)
(*   "scoped"  the same in every field the code reads, but restricted to   *)
(*             some remote addresses, a field the code neither compares    *)
(*             nor saves                                                   *)
(*   "other"   differs in a compared field (disabled, allow, other port)   *)
(*   "half"    left by a Configure that failed between two put_ calls      *)
(* A DWORD is "none" when the value is absent, "gone" when its whole       *)
(* adapter key is.                                                         *)
(***************************************************************************)
RuleKinds == {"block", "scoped", "other", "half"}

StartTypes == {"auto", "demand", "disabled"}

RunStates == {"running", "stopping", "stopped"}

ServiceStates == [start : StartTypes, run : RunStates]

ValueOf(i) ==
  CASE i \in ToSet(Profiles) -> {"on", "off"}
    [] i \in ToSet(Names)    -> Seq(RuleKinds)
    [] i \in ToSet(Services) -> ServiceStates
    [] i = RdpPolicy         -> {"none", "allow", "deny"}
    [] OTHER                 -> {"gone", "none", "default", "disabled"}

IsSettings(s) ==
  /\ s = [i \in Items |-> s[i]]
  /\ \A i \in Items : s[i] \in ValueOf(i)

Hardened == [start |-> "disabled", run |-> "stopped"]

\* The rule fields that Matches compares agree.
Matches(kind) == kind \in {"block", "scoped"}

\* What the repair is meant to achieve, item by item.
Target(i, v) ==
  CASE i \in ToSet(Profiles)    -> v = "on"
    [] i \in ToSet(RuleNames)   -> Len(v) = 1 /\ Matches(v[1])
    [] i \in ToSet(LegacyNames) -> v = <<>>
    [] i \in ToSet(Services)    -> v = Hardened
    [] i = RdpPolicy            -> v = "deny"
    [] OTHER                    -> v \in {"gone", "disabled"}

(***************************************************************************)
(* What the backup file can say of a setting: a service is running or not  *)
(* (anything but STOPPED counts as running), a rule has no remote scope.   *)
(***************************************************************************)
SavedRun(run) == IF run = "stopped" THEN "stopped" ELSE "running"

SavedKind(kind) == IF kind = "scoped" THEN "block" ELSE kind

Saved(i, v) ==
  CASE i \in ToSet(Services) -> [start |-> v.start, run |-> SavedRun(v.run)]
    [] i \in ToSet(Names)    -> [k \in DOMAIN v |-> SavedKind(v[k])]
    [] OTHER                 -> v

(***************************************************************************)
(* What RunAudit reads for the rows RemediationScopeCompliant looks at.    *)
(* Rules are counted by name; nothing else about them is read.             *)
(***************************************************************************)
ServicesPass(s) == \A i \in ToSet(Services) : s[i] = Hardened

RdpPasses(s) == s[RdpPolicy] = "deny"

ProfilesPass(s) == \A i \in ToSet(Profiles) : s[i] = "on"

RulesPass(s) == \A i \in ToSet(RuleNames) : Len(s[i]) = 1

AdaptersPass(s) ==
  LET present == {a \in ToSet(Adapters) : s[a] # "gone"}
  IN  present # {} /\ \A a \in present : s[a] = "disabled"

ScopeCompliant(s, ftpExposed) ==
  /\ ServicesPass(s) /\ RdpPasses(s) /\ AdaptersPass(s) /\ RulesPass(s)
  /\ ProfilesPass(s) \/ ftpExposed

\* Most calls that fail make a row fail.  An adapter or a rule that cannot be
\* opened while a list is walked is left out of it instead.
Misread(s) ==
  {[s EXCEPT ![a] = "gone"] : a \in ToSet(Adapters)}
  \cup {[s EXCEPT ![n] = Tail(@)] : n \in {m \in ToSet(RuleNames) : s[m] # <<>>}}

-----------------------------------------------------------------------------
(***************************************************************************)
(* ConfigureService: the outcomes of making service state s have start     *)
(* type t and run or not, as [val, ok].  With shouldRun only a STOPPED     *)
(* service is started and nobody waits; a DISABLED service that must run   *)
(* is made DEMAND for the start and DISABLED again afterwards.  Stopping a *)
(* service that is already stopping is refused by the control manager.     *)
(***************************************************************************)
StartOutcomes(run, start, works) ==
  IF run # "stopped" THEN {<<run, TRUE>>}
  ELSE IF works THEN {<<"running", TRUE>>}
  ELSE {<<"stopped", FALSE>>, <<"stopped", TRUE>>}
       \cup (IF start = "disabled" THEN {} ELSE {<<"running", TRUE>>})

StopOutcomes(run, works) ==
  CASE run = "stopped"           -> {<<"stopped", TRUE>>}
    [] run = "running" /\ works  -> {<<"stopped", TRUE>>}
    [] run = "stopping" /\ works -> {<<"stopped", TRUE>>, <<"stopped", FALSE>>}
    [] OTHER -> {<<run, FALSE>>, <<run, TRUE>>, <<"stopping", FALSE>>,
                 <<"stopped", TRUE>>, <<"stopped", FALSE>>}

Results == [val : ServiceStates, ok : BOOLEAN]

\* Mutant: the start type is set once, and a service that must run is left
\* on demand.
ConfigureServiceOnce(s, t, shouldRun, works) ==
  LET type == IF shouldRun /\ t = "disabled" THEN "demand" ELSE t
  IN  {[val |-> [start |-> type, run |-> m[1]], ok |-> m[2]]
         : m \in IF shouldRun THEN StartOutcomes(s.run, type, works)
                 ELSE StopOutcomes(s.run, works)}

ConfigureService(s, t, shouldRun, works) ==
  LET demandFirst == shouldRun /\ t = "disabled"
      tries  == IF works THEN {TRUE} ELSE BOOLEAN
      first(c) == IF ~c THEN s.start ELSE IF demandFirst THEN "demand" ELSE t
      last(c, d) == IF demandFirst /\ d THEN "disabled" ELSE first(c)
      moves(c) == IF shouldRun THEN StartOutcomes(s.run, first(c), works)
                               ELSE StopOutcomes(s.run, works)
  IN  {o \in Results :
         \/ \E c, d \in tries : \E m \in moves(c) :
              /\ o.val = [start |-> last(c, d), run |-> m[1]]
              /\ o.ok = (c /\ m[2] /\ (demandFirst => d))
         \/ ~works /\ o = [val |-> s, ok |-> FALSE]}

Outcome(v, okay, change) == [val |-> v, ok |-> okay, changed |-> change]

\* ServiceAction: disable and stop, then read back.
DisableService(s, works) ==
  LET change == s # Hardened
      tried  == ConfigureService(s, "disabled", FALSE, works)
      done   == {Outcome(o.val, o.ok /\ o.val = Hardened, change) : o \in tried}
      unread == {Outcome(o.val, FALSE, change) : o \in tried}
  IN  IF works THEN done ELSE done \cup unread \cup {Outcome(s, FALSE, FALSE)}

-----------------------------------------------------------------------------
(* Firewall: RepairFirewallRules and RestoreFirewallState, item by item.   *)

RepairProfile(v, preserve, works) ==
  IF ~works THEN {Outcome(v, FALSE, FALSE)}
  ELSE IF v = "off" /\ ~preserve THEN {Outcome("on", TRUE, TRUE)}
  ELSE {Outcome(v, TRUE, FALSE)}

\* A walk through the rule list passes over a rule that cannot be queried, or
\* whose name cannot be read, and is no failure: what a walk may be left with.
Without(v) ==
  {w \in UNION {[1..n -> RuleKinds] : n \in 0..Len(v) - 1} :
     \E f \in [DOMAIN w -> DOMAIN v] :
       /\ \A j, k \in DOMAIN w : j < k => f[j] < f[k]
       /\ \A k \in DOMAIN w : w[k] = v[f[k]]}

\* RemoveAll takes the rules of a name away one by one, until a walk finds
\* none: those it passes over stay, and the removal has succeeded.
LeftOvers(v) == {SubSeq(v, k, Len(v)) : k \in 1..Len(v) + 1}

RemoveAll(v, works) ==
  IF works THEN {Outcome(<<>>, TRUE, v # <<>>)}
  ELSE {Outcome(v, FALSE, FALSE)}
       \cup {Outcome(w, FALSE, v # <<>>) : w \in LeftOvers(v)}
       \cup {Outcome(w, TRUE, w # v) : w \in LeftOvers(v)}

\* Mutant: one rule of the name is enough, as it is for the audit.
EnsureRuleByName(v, works) ==
  IF Len(v) = 1 THEN {Outcome(v, works, FALSE)}
  ELSE IF works THEN {Outcome(<<"block">>, TRUE, TRUE)}
  ELSE {Outcome(w, FALSE, FALSE) : w \in LeftOvers(v) \cup {<<"block">>}}

\* The rule a walk has found alone is kept when it matches, else corrected in
\* place; Configure may fail half way, or change nothing of a rule that only
\* could not be read.
KeepOrCorrect(v, k) ==
  (IF Matches(v[k]) THEN {Outcome(v, TRUE, FALSE), Outcome(v, TRUE, TRUE)}
   ELSE {Outcome([v EXCEPT ![k] = "block"], TRUE, TRUE)})
  \cup {Outcome(w, FALSE, FALSE) :
          w \in {v, [v EXCEPT ![k] = "half"], [v EXCEPT ![k] = "block"]}}

\* None or several: what the removal leaves, and a new rule behind it, which
\* the last walk must find alone.
RemoveAndAdd(v) ==
  {Outcome(w \o <<"block">>, TRUE, TRUE) : w \in LeftOvers(v)}
  \cup {Outcome(w, FALSE, FALSE) : w \in LeftOvers(v) \cup {u \o <<"block">> : u \in LeftOvers(v)}}

\* EnsureRule: keep one matching rule, correct one that differs in place,
\* replace none or several by a new one.  With a failing call it goes by
\* what the walks have found, which may be any of the rules, or none.
EnsureRule(v, works) ==
  IF ~works THEN RemoveAndAdd(v) \cup UNION {KeepOrCorrect(v, k) : k \in DOMAIN v}
  ELSE IF Len(v) = 1 /\ Matches(v[1]) THEN {Outcome(v, TRUE, FALSE)}
  ELSE {Outcome(<<"block">>, TRUE, TRUE)}

RestoreProfile(v, saved, works) ==
  IF works THEN {Outcome(saved, TRUE, TRUE)} ELSE {Outcome(v, FALSE, TRUE)}

\* Some of the saved rules of a name, in their order.
Parts(saved) == UNION {{SubSeq(saved, a, b) : b \in 0..Len(saved)} : a \in 1..Len(saved)}

\* AddStateRule for each saved rule of the name; any of them may fail.
AddSavedRules(v, saved, works) ==
  IF works THEN {Outcome(v \o saved, TRUE, TRUE)}
  ELSE {Outcome(v \o w, FALSE, TRUE) : w \in Parts(saved)}

-----------------------------------------------------------------------------
(* Registry values.                                                        *)

\* Mutant: a write counts as a change.
DenyRdpChanged(v, works) ==
  IF works THEN {Outcome("deny", TRUE, TRUE)} ELSE {Outcome(v, FALSE, FALSE)}

DenyRdp(v, works) ==
  LET change == v # "deny"
  IN  IF works THEN {Outcome("deny", TRUE, change)}
      ELSE {Outcome(v, FALSE, FALSE), Outcome(v, FALSE, change),
            Outcome("deny", FALSE, change)}

\* The change is counted when the adapters are enumerated; the value is
\* written through RegCreateKeyEx, which brings a vanished key back.
DisableNetbios(v, works) ==
  IF works THEN {Outcome("disabled", TRUE, FALSE)}
  ELSE {Outcome(v, FALSE, FALSE), Outcome("disabled", FALSE, FALSE)}

\* Mutant: a value that did not exist is not deleted again.
RestoreDwordIfSaved(v, saved, works) ==
  IF ~works THEN {Outcome(v, FALSE, TRUE)}
  ELSE {Outcome(IF saved = "none" THEN v ELSE saved, TRUE, TRUE)}

RestoreDword(v, saved, works) ==
  IF ~works THEN {Outcome(v, FALSE, TRUE)}
  ELSE IF saved = "none" /\ v = "gone" THEN {Outcome(v, TRUE, TRUE)}
  ELSE {Outcome(saved, TRUE, TRUE)}

RestoreService(s, saved, works) ==
  {Outcome(o.val, o.ok, TRUE)
     : o \in ConfigureService(s, saved.start, saved.run = "running", works)}
==============================================================================
