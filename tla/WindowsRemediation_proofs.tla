----------------------- MODULE WindowsRemediation_proofs -----------------------
(***************************************************************************)
(* Proofs about the Windows workflow, for any lists of settings, any       *)
(* number of processes and any bounds: single attempts at a setting, the   *)
(* classes into which the steps of the program are sorted, the theorems    *)
(* that look at a class at a time (and the lock they rest on), and at last *)
(* the progress of a repair or a rollback along its lists, which tells     *)
(* what its result is worth.                                               *)
(***************************************************************************)
EXTENDS WindowsRemediation, FiniteSetTheorems, TLAPS

-----------------------------------------------------------------------------
(* Single attempts (HostSettings): what an attempt to repair or restore a  *)
(* setting may leave behind is a value of that setting.                    *)

(* Lists of settings.                                                      *)

LEMMA ElementsOfConcat ==
  ASSUME NEW S, NEW s \in Seq(S), NEW t \in Seq(S)
  PROVE  ToSet(s \o t) = ToSet(s) \cup ToSet(t)
<1>1. ASSUME NEW x \in ToSet(s \o t) PROVE x \in ToSet(s) \cup ToSet(t)
  <2>1. PICK k \in DOMAIN (s \o t) : x = (s \o t)[k]
    BY <1>1 DEF ToSet
  <2>2. CASE k <= Len(s)
    <3>1. k \in DOMAIN s /\ x = s[k]
      BY <2>1, <2>2
    <3>2. QED
      BY <3>1 DEF ToSet
  <2>3. CASE k > Len(s)
    <3>1. (k - Len(s)) \in DOMAIN t /\ x = t[k - Len(s)]
      BY <2>1, <2>3
    <3>2. QED
      BY <3>1 DEF ToSet
  <2>4. QED
    BY <2>1, <2>2, <2>3
<1>2. ASSUME NEW x \in ToSet(s) PROVE x \in ToSet(s \o t)
  <2>1. PICK k \in DOMAIN s : x = s[k]
    BY <1>2 DEF ToSet
  <2>2. k \in DOMAIN (s \o t) /\ x = (s \o t)[k]
    BY <2>1
  <2>3. QED
    BY <2>2 DEF ToSet
<1>3. ASSUME NEW x \in ToSet(t) PROVE x \in ToSet(s \o t)
  <2>1. PICK k \in DOMAIN t : x = t[k]
    BY <1>3 DEF ToSet
  <2>2. (Len(s) + k) \in DOMAIN (s \o t) /\ x = (s \o t)[Len(s) + k]
    BY <2>1
  <2>3. QED
    BY <2>2 DEF ToSet
<1>4. QED
  BY <1>1, <1>2, <1>3

LEMMA HeadAndTail ==
  ASSUME NEW S, NEW s \in Seq(S), s # <<>>
  PROVE  /\ Head(s) \in S /\ Tail(s) \in Seq(S)
         /\ Head(s) \in ToSet(s)
         /\ ToSet(Tail(s)) \subseteq ToSet(s)
         /\ ToSet(s) \subseteq {Head(s)} \cup ToSet(Tail(s))
<1>1. Head(s) = s[1] /\ 1 \in DOMAIN s /\ Head(s) \in S /\ Tail(s) \in Seq(S)
  OBVIOUS
<1>2. Head(s) \in ToSet(s)
  BY <1>1 DEF ToSet
<1>3. ASSUME NEW x \in ToSet(Tail(s)) PROVE x \in ToSet(s)
  <2>1. PICK k \in DOMAIN Tail(s) : x = Tail(s)[k]
    BY <1>3 DEF ToSet
  <2>2. (k + 1) \in DOMAIN s /\ x = s[k + 1]
    BY <2>1
  <2>3. QED
    BY <2>2 DEF ToSet
<1>4. ASSUME NEW x \in ToSet(s), x # Head(s) PROVE x \in ToSet(Tail(s))
  <2>1. PICK k \in DOMAIN s : x = s[k]
    BY <1>4 DEF ToSet
  <2>2. (k - 1) \in DOMAIN Tail(s) /\ x = Tail(s)[k - 1]
    BY <2>1, <1>1, <1>4
  <2>3. QED
    BY <2>2 DEF ToSet
<1>5. QED
  BY <1>1, <1>2, <1>3, <1>4

-----------------------------------------------------------------------------
(* Items and their kinds.                                                  *)

LEMMA ItemKinds ==
  /\ Items = ToSet(Profiles) \cup ToSet(Names) \cup ToSet(Services)
              \cup {RdpPolicy} \cup ToSet(Adapters)
  /\ ToSet(Names) = ToSet(RuleNames) \cup ToSet(LegacyNames)
<1> DEFINE All == ToSet(Profiles) \cup ToSet(RuleNames) \cup ToSet(LegacyNames)
                  \cup ToSet(Services) \cup {RdpPolicy} \cup ToSet(Adapters)
<1>1. /\ Profiles \in Seq(All) /\ RuleNames \in Seq(All) /\ LegacyNames \in Seq(All)
      /\ Services \in Seq(All) /\ Adapters \in Seq(All) /\ <<RdpPolicy>> \in Seq(All)
  <2>1. ASSUME NEW S \in SUBSET All, NEW s \in Seq(S) PROVE s \in Seq(All)
    BY <2>1
  <2>2. /\ Profiles \in Seq(ToSet(Profiles)) /\ RuleNames \in Seq(ToSet(RuleNames))
        /\ LegacyNames \in Seq(ToSet(LegacyNames)) /\ Services \in Seq(ToSet(Services))
        /\ Adapters \in Seq(ToSet(Adapters))
    BY HostAssumption
  <2>3. <<RdpPolicy>> \in Seq(All)
    OBVIOUS
  <2> HIDE DEF All
  <2>4. /\ ToSet(Profiles) \in SUBSET All /\ ToSet(RuleNames) \in SUBSET All
        /\ ToSet(LegacyNames) \in SUBSET All /\ ToSet(Services) \in SUBSET All
        /\ ToSet(Adapters) \in SUBSET All
    BY DEF All
  <2>5. QED
    BY <2>1, <2>2, <2>3, <2>4
<1> HIDE DEF All
<1>2. ToSet(Names) = ToSet(RuleNames) \cup ToSet(LegacyNames) /\ Names \in Seq(All)
  BY <1>1, ElementsOfConcat DEF Names
<1>3. ToSet(<<RdpPolicy>>) = {RdpPolicy}
  BY DEF ToSet
<1> DEFINE A == Services \o <<RdpPolicy>>
           B == A \o Adapters
           C == B \o Profiles
<1>4. A \in Seq(All) /\ ToSet(A) = ToSet(Services) \cup {RdpPolicy}
  <2>1. A \in Seq(All)
    BY <1>1
  <2>2. ToSet(A) = ToSet(Services) \cup ToSet(<<RdpPolicy>>)
    BY <1>1, ElementsOfConcat, Zenon
  <2>3. QED
    BY <2>1, <2>2, <1>3
<1> HIDE DEF A
<1>5. B \in Seq(All) /\ ToSet(B) = ToSet(A) \cup ToSet(Adapters)
  BY <1>1, <1>4, ElementsOfConcat
<1> HIDE DEF B
<1>6. C \in Seq(All) /\ ToSet(C) = ToSet(B) \cup ToSet(Profiles)
  BY <1>1, <1>5, ElementsOfConcat
<1> HIDE DEF C
<1>7. ToSet(C \o Names) = ToSet(C) \cup ToSet(Names)
  BY <1>2, <1>6, ElementsOfConcat
<1>8. Inventory = C \o Names
  BY DEF Inventory, A, B, C
<1>9. QED
  BY <1>2, <1>4, <1>5, <1>6, <1>7, <1>8 DEF Items

LEMMA ValuesByKind ==
  /\ \A i \in ToSet(Profiles) : ValueOf(i) = {"on", "off"}
  /\ \A i \in ToSet(Names) : ValueOf(i) = Seq(RuleKinds)
  /\ \A i \in ToSet(Services) : ValueOf(i) = ServiceStates
  /\ ValueOf(RdpPolicy) = {"none", "allow", "deny"}
  /\ \A i \in ToSet(Adapters) : ValueOf(i) = {"gone", "none", "default", "disabled"}
<1> DEFINE P == ToSet(Profiles) N == ToSet(Names) S == ToSet(Services) A == ToSet(Adapters)
<1>1. /\ P \cap N = {} /\ P \cap S = {} /\ RdpPolicy \notin P /\ P \cap A = {}
      /\ N \cap S = {} /\ RdpPolicy \notin N /\ N \cap A = {}
      /\ RdpPolicy \notin S /\ S \cap A = {} /\ RdpPolicy \notin A
  BY HostAssumption
<1>2. \A i \in P : ValueOf(i) = {"on", "off"}
  BY <1>1, Zenon DEF ValueOf
<1>3. \A i \in N : ValueOf(i) = Seq(RuleKinds)
  BY <1>1, Zenon DEF ValueOf
<1>4. \A i \in S : ValueOf(i) = ServiceStates
  BY <1>1, Zenon DEF ValueOf
<1>5. ValueOf(RdpPolicy) = {"none", "allow", "deny"}
  BY <1>1, Zenon DEF ValueOf
<1>6. \A i \in A : ValueOf(i) = {"gone", "none", "default", "disabled"}
  BY <1>1, Zenon DEF ValueOf
<1>7. QED
  BY <1>2, <1>3, <1>4, <1>5, <1>6

Values == UNION {ValueOf(i) : i \in Items}

Settings == {s \in [Items -> Values] : \A i \in Items : s[i] \in ValueOf(i)}

LEMMA SettingsAsSet == \A s : IsSettings(s) <=> s \in Settings
  BY DEF IsSettings, Settings, Values

LEMMA WriteSetting ==
  ASSUME NEW s \in Settings, NEW i \in Items, NEW v \in ValueOf(i)
  PROVE  [s EXCEPT ![i] = v] \in Settings
  BY DEF Settings, Values

-----------------------------------------------------------------------------
(* Outcomes.                                                               *)

OutcomesIn(V) == [val : V, ok : BOOLEAN, changed : BOOLEAN]

LEMMA OutcomeTyped ==
  ASSUME NEW V, NEW v \in V, NEW okay \in BOOLEAN, NEW change \in BOOLEAN
  PROVE  Outcome(v, okay, change) \in OutcomesIn(V)
  BY DEF Outcome, OutcomesIn

LEMMA ProfileOutcomes ==
  ASSUME NEW v \in {"on", "off"}, NEW saved \in {"on", "off"}, NEW preserve \in BOOLEAN,
         NEW works \in BOOLEAN
  PROVE  /\ RepairProfile(v, preserve, works) \subseteq OutcomesIn({"on", "off"})
         /\ RestoreProfile(v, saved, works) \subseteq OutcomesIn({"on", "off"})
  BY OutcomeTyped DEF RepairProfile, RestoreProfile

LEMMA LeftOversAreRules ==
  ASSUME NEW v \in Seq(RuleKinds)
  PROVE  LeftOvers(v) \subseteq Seq(RuleKinds)
<1>1. ASSUME NEW k \in 1..Len(v) + 1 PROVE SubSeq(v, k, Len(v)) \in Seq(RuleKinds)
  OBVIOUS
<1>2. QED
  BY <1>1, Zenon DEF LeftOvers

LEMMA WithoutAreRules ==
  ASSUME NEW v \in Seq(RuleKinds), NEW w \in Without(v)
  PROVE  w \in Seq(RuleKinds)
<1>1. PICK n \in 0..Len(v) - 1 : w \in [1..n -> RuleKinds]
  BY Zenon DEF Without
<1>2. QED
  BY <1>1

LEMMA RuleOutcomes ==
  ASSUME NEW v \in Seq(RuleKinds), NEW saved \in Seq(RuleKinds), NEW works \in BOOLEAN
  PROVE  /\ RemoveAll(v, works) \subseteq OutcomesIn(Seq(RuleKinds))
         /\ EnsureRule(v, works) \subseteq OutcomesIn(Seq(RuleKinds))
         /\ AddSavedRules(v, saved, works) \subseteq OutcomesIn(Seq(RuleKinds))
<1> DEFINE Rules == Seq(RuleKinds)
<1>1. <<>> \in Rules /\ <<"block">> \in Rules /\ <<"half">> \in Rules /\ v \in Rules
  BY DEF RuleKinds
<1>2. LeftOvers(v) \subseteq Rules
  BY LeftOversAreRules
<1>3. ASSUME NEW w \in Parts(saved) PROVE v \o w \in Rules
  <2>1. ASSUME NEW a \in 1..Len(saved), NEW b \in 0..Len(saved)
        PROVE  SubSeq(saved, a, b) \in Rules
    OBVIOUS
  <2> HIDE DEF Rules
  <2>2. w \in Rules
    <3>1. PICK a \in 1..Len(saved) : w \in {SubSeq(saved, a, b) : b \in 0..Len(saved)}
      BY Zenon DEF Parts
    <3>2. PICK b \in 0..Len(saved) : w = SubSeq(saved, a, b)
      BY <3>1, Zenon
    <3>3. QED
      BY <2>1, <3>2
  <2>3. QED
    BY <2>2 DEF Rules
<1>4. v \o saved \in Rules
  OBVIOUS
<1>a. ASSUME NEW w \in Rules PROVE w \o <<"block">> \in Rules
  BY DEF RuleKinds
<1>b. ASSUME NEW k \in DOMAIN v
      PROVE  [v EXCEPT ![k] = "half"] \in Rules /\ [v EXCEPT ![k] = "block"] \in Rules
  BY DEF RuleKinds
<1> HIDE DEF Rules
<1>5. ASSUME NEW w \in Rules, NEW okay \in BOOLEAN, NEW change \in BOOLEAN
      PROVE  Outcome(w, okay, change) \in OutcomesIn(Rules)
  BY OutcomeTyped
<1>6. RemoveAll(v, works) \subseteq OutcomesIn(Rules)
  <2>1. ASSUME NEW change \in BOOLEAN
        PROVE  {Outcome(w, FALSE, change) : w \in LeftOvers(v)} \subseteq OutcomesIn(Rules)
    BY <1>2, <1>5
  <2>2. {Outcome(w, FALSE, v # <<>>) : w \in LeftOvers(v)} \subseteq OutcomesIn(Rules)
    BY <2>1
  <2>3. Outcome(<<>>, TRUE, v # <<>>) \in OutcomesIn(Rules)
    BY <1>1, <1>5
  <2>4. Outcome(v, FALSE, FALSE) \in OutcomesIn(Rules)
    BY <1>1, <1>5
  <2>5. {Outcome(w, TRUE, w # v) : w \in LeftOvers(v)} \subseteq OutcomesIn(Rules)
    <3>1. ASSUME NEW w \in LeftOvers(v) PROVE Outcome(w, TRUE, w # v) \in OutcomesIn(Rules)
      BY <1>2, <1>5
    <3> QED BY <3>1
  <2>6. QED
    BY <2>2, <2>3, <2>4, <2>5 DEF RemoveAll
<1>7. EnsureRule(v, works) \subseteq OutcomesIn(Rules)
  <2>1. RemoveAndAdd(v) \subseteq OutcomesIn(Rules)
    <3>1. ASSUME NEW w \in LeftOvers(v) PROVE w \in Rules /\ w \o <<"block">> \in Rules
      BY <1>2, <1>a
    <3>2. ASSUME NEW w \in LeftOvers(v)
          PROVE  Outcome(w \o <<"block">>, TRUE, TRUE) \in OutcomesIn(Rules)
      BY <1>5, <3>1
    <3>3. ASSUME NEW w \in LeftOvers(v) \cup {u \o <<"block">> : u \in LeftOvers(v)}
          PROVE  Outcome(w, FALSE, FALSE) \in OutcomesIn(Rules)
      <4>1. w \in Rules
        BY <3>1
      <4> QED BY <1>5, <4>1
    <3> QED BY <3>2, <3>3, Zenon DEF RemoveAndAdd
  <2>2. ASSUME NEW k \in DOMAIN v PROVE KeepOrCorrect(v, k) \subseteq OutcomesIn(Rules)
    <3>1. ASSUME NEW w \in {v, [v EXCEPT ![k] = "half"], [v EXCEPT ![k] = "block"]},
                 NEW okay \in BOOLEAN, NEW change \in BOOLEAN
          PROVE  Outcome(w, okay, change) \in OutcomesIn(Rules)
      <4>1. w \in Rules
        BY <1>1, <1>b, <2>2
      <4> QED BY <1>5, <4>1
    <3> QED BY <3>1 DEF KeepOrCorrect
  <2>3. UNION {KeepOrCorrect(v, k) : k \in DOMAIN v} \subseteq OutcomesIn(Rules)
    BY <2>2, Zenon
  <2>4. Outcome(v, TRUE, FALSE) \in OutcomesIn(Rules)
        /\ Outcome(<<"block">>, TRUE, TRUE) \in OutcomesIn(Rules)
    BY <1>1, <1>5
  <2> QED BY <2>1, <2>3, <2>4, Zenon DEF EnsureRule
<1>8. AddSavedRules(v, saved, works) \subseteq OutcomesIn(Rules)
  BY <1>3, <1>4, <1>5, Zenon DEF AddSavedRules
<1>9. QED
  BY <1>6, <1>7, <1>8 DEF Rules

LEMMA RegistryOutcomes ==
  ASSUME NEW V, NEW v \in V, NEW saved \in V, NEW works \in BOOLEAN
  PROVE  /\ "deny" \in V => DenyRdp(v, works) \subseteq OutcomesIn(V)
         /\ "disabled" \in V => DisableNetbios(v, works) \subseteq OutcomesIn(V)
         /\ RestoreDword(v, saved, works) \subseteq OutcomesIn(V)
<1>1. ASSUME NEW w \in V, NEW okay \in BOOLEAN, NEW change \in BOOLEAN
      PROVE  Outcome(w, okay, change) \in OutcomesIn(V)
  BY OutcomeTyped
<1>2. "deny" \in V => DenyRdp(v, works) \subseteq OutcomesIn(V)
  <2> DEFINE change == v # "deny"
  <2>1. change \in BOOLEAN
    OBVIOUS
  <2>2. DenyRdp(v, works) =
          IF works THEN {Outcome("deny", TRUE, change)}
          ELSE {Outcome(v, FALSE, FALSE), Outcome(v, FALSE, change),
                Outcome("deny", FALSE, change)}
    BY DEF DenyRdp
  <2> HIDE DEF change
  <2>3. QED
    BY <1>1, <2>1, <2>2
<1>3. "disabled" \in V => DisableNetbios(v, works) \subseteq OutcomesIn(V)
  BY <1>1 DEF DisableNetbios
<1>4. RestoreDword(v, saved, works) \subseteq OutcomesIn(V)
  BY <1>1 DEF RestoreDword
<1>5. QED
  BY <1>2, <1>3, <1>4

LEMMA ConfigureServiceTyped ==
  ASSUME NEW s \in ServiceStates, NEW t \in StartTypes, NEW r \in BOOLEAN, NEW works \in BOOLEAN
  PROVE  ConfigureService(s, t, r, works) \subseteq Results
  BY Zenon DEF ConfigureService

LEMMA ServiceOutcomes ==
  ASSUME NEW s \in ServiceStates, NEW saved \in ServiceStates, NEW works \in BOOLEAN
  PROVE  /\ DisableService(s, works) \subseteq OutcomesIn(ServiceStates)
         /\ RestoreService(s, saved, works) \subseteq OutcomesIn(ServiceStates)
<1>1. ASSUME NEW w \in ServiceStates, NEW okay \in BOOLEAN, NEW change \in BOOLEAN
      PROVE  Outcome(w, okay, change) \in OutcomesIn(ServiceStates)
  BY OutcomeTyped
<1>2. DisableService(s, works) \subseteq OutcomesIn(ServiceStates)
  <2> DEFINE change == s # Hardened
             tried == ConfigureService(s, "disabled", FALSE, works)
             okay(o) == o.ok /\ o.val = Hardened
             done == {Outcome(o.val, okay(o), change) : o \in tried}
             unread == {Outcome(o.val, FALSE, change) : o \in tried}
  <2>1. tried \subseteq Results
    BY ConfigureServiceTyped DEF StartTypes
  <2>2. \A o \in tried : o.val \in ServiceStates /\ okay(o) \in BOOLEAN
    BY <2>1 DEF Results
  <2>3. change \in BOOLEAN
    OBVIOUS
  <2>4. DisableService(s, works) =
          IF works THEN done ELSE done \cup unread \cup {Outcome(s, FALSE, FALSE)}
    BY Zenon DEF DisableService
  <2> HIDE DEF change, okay, tried
  <2>5. done \subseteq OutcomesIn(ServiceStates) /\ unread \subseteq OutcomesIn(ServiceStates)
    BY <1>1, <2>2, <2>3, Zenon
  <2> HIDE DEF done, unread
  <2>6. {Outcome(s, FALSE, FALSE)} \subseteq OutcomesIn(ServiceStates)
    BY <1>1
  <2>7. QED
    BY <2>4, <2>5, <2>6, Zenon
<1>3. RestoreService(s, saved, works) \subseteq OutcomesIn(ServiceStates)
  <2>1. (saved.run = "running") \in BOOLEAN /\ saved.start \in StartTypes
    BY DEF ServiceStates
  <2>2. ConfigureService(s, saved.start, saved.run = "running", works) \subseteq Results
    BY <2>1, ConfigureServiceTyped
  <2>3. QED
    BY <1>1, <2>2 DEF RestoreService, Results
<1>4. QED
  BY <1>2, <1>3

LEMMA SavedTyped ==
  ASSUME NEW i \in Items, NEW v \in ValueOf(i)
  PROVE  Saved(i, v) \in ValueOf(i)
<1>1. CASE i \in ToSet(Services)
  <2>1. v \in ServiceStates
    BY <1>1, ValuesByKind
  <2>2. [start |-> v.start, run |-> SavedRun(v.run)] \in ServiceStates
    BY <2>1 DEF ServiceStates, RunStates, SavedRun
  <2>3. Saved(i, v) = [start |-> v.start, run |-> SavedRun(v.run)]
    BY <1>1, HostAssumption, Zenon DEF Saved
  <2>4. QED
    BY <1>1, <2>2, <2>3, ValuesByKind
<1>2. CASE i \in ToSet(Names)
  <2>1. i \notin ToSet(Services)
    BY <1>2, HostAssumption
  <2>2. v \in Seq(RuleKinds)
    BY <1>2, ValuesByKind
  <2>3. Saved(i, v) = [k \in DOMAIN v |-> SavedKind(v[k])]
    BY <1>2, <2>1, Zenon DEF Saved
  <2>4. ASSUME NEW k \in DOMAIN v PROVE SavedKind(v[k]) \in RuleKinds
    BY <2>2 DEF SavedKind, RuleKinds
  <2>5. Len(v) \in Nat /\ DOMAIN v = 1..Len(v)
    BY <2>2
  <2>6. Saved(i, v) \in Seq(RuleKinds)
    BY <2>3, <2>4, <2>5
  <2>7. QED
    BY <1>2, <2>6, ValuesByKind
<1>3. CASE i \notin ToSet(Services) /\ i \notin ToSet(Names)
  BY <1>3, Zenon DEF Saved
<1>4. QED
  BY <1>1, <1>2, <1>3

-----------------------------------------------------------------------------
(* Typing.                                                                 *)

\* The settings a phase may have on its list.
TodoFits(phase, todo) ==
  /\ todo \in Seq(Items)
  /\ phase = "save" => todo = <<>>
  /\ phase \in {"profiles", "restoreProfiles"} => todo \in Seq(ToSet(Profiles))
  /\ phase \in {"legacy", "rules", "removeRules", "addRules"} => todo \in Seq(ToSet(Names))
  /\ phase = "legacy" => todo \in Seq(ToSet(LegacyNames))
  /\ phase = "rules" => todo \in Seq(ToSet(RuleNames))
  /\ phase \in {"services", "restoreServices"} => todo \in Seq(ToSet(Services))
  /\ phase \in {"rdp", "restoreRdp"} => todo \in Seq({RdpPolicy})
  /\ phase \in {"netbios", "restoreNetbios"} => todo \in Seq(ToSet(Adapters))

Records ==
  [tool : {"none", "onsite", "ftp"}, mode : {"none", "audit", "repair", "rollback"},
   elevated : BOOLEAN, pc : Phases, todo : Seq(Items), success : BOOLEAN,
   changed : BOOLEAN, preserve : BOOLEAN, snap : Settings,
   code : {0, 1, 3, 5, 6, 7, 8}, attempt : 0..2]

Tasks == {t \in Records : TodoFits(t.pc, t.todo)}

Backups == [status : {"absent", "damaged", "valid"}, snap : Settings]

\* What seen may say of a process.
Observations ==
  [start : Settings, hadBackup : BOOLEAN, disturbed : SUBSET Items, clean : BOOLEAN,
   hidden : SUBSET Items]

Typed ==
  /\ sys \in Settings
  /\ ftpExposed \in BOOLEAN
  /\ backup \in Backups
  /\ lock \in [Proc -> Lock!Verdicts]
  /\ task \in [Proc -> Tasks]
  /\ seen \in [Proc -> Observations]
  /\ starts \in 0..MaxStarts /\ faults \in 0..MaxFaults /\ others \in 0..MaxOthers

LEMMA TypedImpliesTypeOK == Typed => TypeOK
<1> SUFFICES ASSUME Typed PROVE TypeOK
  OBVIOUS
<1>1. IsSettings(sys)
  BY SettingsAsSet DEF Typed
<1>2. IsBackup(backup)
  <2>1. backup.snap \in Settings /\ backup.status \in {"absent", "damaged", "valid"}
    BY DEF Typed, Backups
  <2>2. QED
    BY <2>1, SettingsAsSet DEF IsBackup
<1>3. ASSUME NEW p \in Proc PROVE IsTask(task[p])
  <2>1. task[p] \in Records
    BY DEF Typed, Tasks
  <2>2. IsSettings(task[p].snap)
    BY <2>1, SettingsAsSet DEF Records
  <2>3. QED
    BY <2>1, <2>2 DEF Records, IsTask
<1>4. Lock!TypeOK
  BY DEF Typed, Lock!TypeOK
<1>5. QED
  BY <1>1, <1>2, <1>3, <1>4 DEF Typed, TypeOK

LEMMA ListsTyped ==
  /\ Profiles \in Seq(ToSet(Profiles)) /\ Profiles \in Seq(Items)
  /\ LegacyNames \in Seq(ToSet(Names)) /\ LegacyNames \in Seq(Items)
  /\ RuleNames \in Seq(ToSet(Names)) /\ RuleNames \in Seq(Items)
  /\ LegacyNames \in Seq(ToSet(LegacyNames)) /\ RuleNames \in Seq(ToSet(RuleNames))
  /\ Names \in Seq(ToSet(Names)) /\ Names \in Seq(Items)
  /\ Services \in Seq(ToSet(Services)) /\ Services \in Seq(Items)
  /\ <<RdpPolicy>> \in Seq({RdpPolicy}) /\ <<RdpPolicy>> \in Seq(Items)
  /\ Adapters \in Seq(ToSet(Adapters)) /\ Adapters \in Seq(Items)
  /\ Inventory \in Seq(Items)
<1>1. ASSUME NEW S, NEW R, S \subseteq R, NEW s \in Seq(S) PROVE s \in Seq(R)
  BY <1>1
<1>2. /\ Profiles \in Seq(ToSet(Profiles)) /\ LegacyNames \in Seq(ToSet(LegacyNames))
      /\ RuleNames \in Seq(ToSet(RuleNames)) /\ Services \in Seq(ToSet(Services))
      /\ Adapters \in Seq(ToSet(Adapters))
  BY HostAssumption
<1>3. /\ ToSet(Profiles) \subseteq Items /\ ToSet(Names) \subseteq Items
      /\ ToSet(Services) \subseteq Items /\ {RdpPolicy} \subseteq Items
      /\ ToSet(Adapters) \subseteq Items
      /\ ToSet(LegacyNames) \subseteq ToSet(Names) /\ ToSet(RuleNames) \subseteq ToSet(Names)
  BY ItemKinds
<1>4. <<RdpPolicy>> \in Seq({RdpPolicy})
  OBVIOUS
<1>5. LegacyNames \in Seq(ToSet(Names)) /\ RuleNames \in Seq(ToSet(Names))
  BY <1>1, <1>2, <1>3
<1>6. Names \in Seq(ToSet(Names))
  BY <1>5 DEF Names
<1>7. /\ Profiles \in Seq(Items) /\ LegacyNames \in Seq(Items) /\ RuleNames \in Seq(Items)
      /\ Names \in Seq(Items) /\ Services \in Seq(Items) /\ <<RdpPolicy>> \in Seq(Items)
      /\ Adapters \in Seq(Items)
  <2>1. ASSUME NEW S \in SUBSET Items, NEW s \in Seq(S) PROVE s \in Seq(Items)
    BY <2>1
  <2>2. QED
    BY <2>1, <1>2, <1>3, <1>4, <1>5, <1>6
<1>8. Inventory \in Seq(Items)
  BY <1>7 DEF Inventory
<1>9. QED
  BY <1>2, <1>4, <1>5, <1>6, <1>7, <1>8

LEMMA WorkListFits ==
  ASSUME NEW phase \in Phases
  PROVE  TodoFits(phase, WorkList(phase))
<1>1. CASE phase = "capture"
  <2>1. WorkList(phase) = Inventory
    BY <1>1, Zenon DEF WorkList
  <2>2. QED
    BY <1>1, <2>1, ListsTyped DEF TodoFits
<1>2. CASE phase \in {"profiles", "restoreProfiles"}
  <2>1. phase # "capture"
    BY <1>2
  <2>2. WorkList(phase) = Profiles
    BY <1>2, <2>1, Zenon DEF WorkList
  <2>3. QED
    BY <1>2, <2>2, ListsTyped DEF TodoFits
<1>3. CASE phase = "legacy"
  <2>1. WorkList(phase) = LegacyNames
    BY <1>3, Zenon DEF WorkList
  <2>2. QED
    BY <1>3, <2>1, ListsTyped DEF TodoFits
<1>4. CASE phase = "rules"
  <2>1. WorkList(phase) = RuleNames
    BY <1>4, Zenon DEF WorkList
  <2>2. QED
    BY <1>4, <2>1, ListsTyped DEF TodoFits
<1>5. CASE phase \in {"removeRules", "addRules"}
  <2>1. WorkList(phase) = Names
    BY <1>5, Zenon DEF WorkList
  <2>2. QED
    BY <1>5, <2>1, ListsTyped DEF TodoFits
<1>6. CASE phase \in {"services", "restoreServices"}
  <2>1. WorkList(phase) = Services
    BY <1>6, Zenon DEF WorkList
  <2>2. QED
    BY <1>6, <2>1, ListsTyped DEF TodoFits
<1>7. CASE phase \in {"rdp", "restoreRdp"}
  <2>1. WorkList(phase) = <<RdpPolicy>>
    BY <1>7, Zenon DEF WorkList
  <2>2. QED
    BY <1>7, <2>1, ListsTyped DEF TodoFits
<1>8. CASE phase \notin {"capture", "profiles", "restoreProfiles", "legacy", "rules",
                         "removeRules", "addRules", "services", "restoreServices",
                         "rdp", "restoreRdp"}
  <2>1. WorkList(phase) = <<>>
    BY <1>8, Zenon DEF WorkList
  <2>2. \A S : <<>> \in Seq(S)
    OBVIOUS
  <2>3. QED
    BY <2>1, <2>2, Zenon DEF TodoFits
<1>9. QED
  BY <1>1, <1>2, <1>3, <1>4, <1>5, <1>6, <1>7, <1>8

LEMMA NoSettingsTyped == NoSettings \in Settings
<1> DEFINE P == ToSet(Profiles) N == ToSet(Names) S == ToSet(Services)
<1>0. /\ P \cap N = {} /\ P \cap S = {} /\ RdpPolicy \notin P /\ N \cap S = {}
      /\ RdpPolicy \notin N /\ RdpPolicy \notin S
      /\ ToSet(Adapters) \cap (P \cup N \cup S \cup {RdpPolicy}) = {}
  BY HostAssumption
<1>1. ASSUME NEW i \in Items PROVE NoSettings[i] \in ValueOf(i)
  <2>0. Hardened \in ServiceStates /\ <<>> \in Seq(RuleKinds)
    BY DEF Hardened, ServiceStates, StartTypes, RunStates
  <2> DEFINE v == NoSettings[i]
  <2>1. v = CASE i \in P -> "off" [] i \in N -> <<>> [] i \in S -> Hardened
              [] i = RdpPolicy -> "none" [] OTHER -> "gone"
    BY Zenon DEF NoSettings
  <2> HIDE DEF v, P, N, S
  <2>2. CASE i \in P
    <3>1. v = "off"
      BY <1>0, <2>1, <2>2, Zenon
    <3>2. QED
      BY <2>2, <3>1, ValuesByKind DEF P, v
  <2>3. CASE i \in N
    <3>1. v = <<>>
      BY <1>0, <2>1, <2>3, Zenon
    <3>2. QED
      BY <2>0, <2>3, <3>1, ValuesByKind DEF N, v
  <2>4. CASE i \in S
    <3>1. v = Hardened
      BY <1>0, <2>1, <2>4, Zenon
    <3>2. QED
      BY <2>0, <2>4, <3>1, ValuesByKind DEF S, v
  <2>5. CASE i = RdpPolicy
    <3>1. v = "none"
      BY <1>0, <2>1, <2>5, Zenon
    <3>2. QED
      BY <2>5, <3>1, ValuesByKind DEF v
  <2>6. CASE i \in ToSet(Adapters)
    <3>1. v = "gone"
      BY <1>0, <2>1, <2>6, Zenon
    <3>2. QED
      BY <2>6, <3>1, ValuesByKind DEF v
  <2>7. QED
    BY <2>2, <2>3, <2>4, <2>5, <2>6, ItemKinds DEF P, N, S, v
<1>2. QED
  BY <1>1 DEF NoSettings, Settings, Values

\* A task as Goto leaves it.
At(t, phase) == [t EXCEPT !.pc = phase, !.todo = WorkList(phase)]

LEMMA AtTyped ==
  ASSUME NEW t \in Tasks, NEW phase \in Phases
  PROVE  /\ At(t, phase) \in Tasks
         /\ At(t, phase).pc = phase /\ At(t, phase).todo = WorkList(phase)
         /\ At(t, phase).snap = t.snap
<1>1. TodoFits(phase, WorkList(phase)) /\ WorkList(phase) \in Seq(Items)
  BY WorkListFits DEF TodoFits
<1>2. QED
  BY <1>1 DEF At, Tasks, Records

LEMMA GotoTyped ==
  ASSUME Typed, NEW p \in Proc, NEW phase \in Phases
  PROVE  Goto(p, phase) = At(task[p], phase)
  BY DEF Goto, At

LEMMA FieldsTyped ==
  ASSUME NEW t \in Tasks
  PROVE  /\ \A b \in BOOLEAN : LET u == [t EXCEPT !.success = b] IN
              u \in Tasks /\ u.pc = t.pc
         /\ \A b \in BOOLEAN : LET u == [t EXCEPT !.preserve = b] IN
              u \in Tasks /\ u.pc = t.pc
         /\ \A c \in {0, 1, 3, 5, 6, 7, 8} : LET u == [t EXCEPT !.code = c] IN
              u \in Tasks /\ u.pc = t.pc
         /\ \A n \in 0..2 : LET u == [t EXCEPT !.attempt = n] IN
              u \in Tasks /\ u.pc = t.pc
         /\ \A s \in Settings : LET u == [t EXCEPT !.snap = s] IN
              u \in Tasks /\ u.pc = t.pc
<1>1. ASSUME NEW u \in Records, u.pc = t.pc, u.todo = t.todo PROVE u \in Tasks
  BY <1>1 DEF Tasks
<1>2. t \in Records
  BY DEF Tasks
<1>3. QED
  BY <1>1, <1>2 DEF Records

LEMMA PresentTyped == \A s : Present(s) \in Seq(ToSet(Adapters))
<1> SUFFICES ASSUME NEW s PROVE Present(s) \in Seq(ToSet(Adapters))
  OBVIOUS
<1> DEFINE A == ToSet(Adapters)
           S == {a \in A : s[a] # "gone"}
<1>1. IsFiniteSet(A)
  <2>1. Adapters \in [1..Len(Adapters) -> A] /\ Len(Adapters) \in Nat
    BY HostAssumption
  <2>2. \A a \in A : \E k \in 1..Len(Adapters) : Adapters[k] = a
    BY <2>1 DEF ToSet
  <2>3. Adapters \in Surjection(1..Len(Adapters), A)
    BY <2>1, <2>2 DEF Surjection
  <2>4. IsFiniteSet(1..Len(Adapters))
    BY <2>1, FS_Interval
  <2>5. QED
    BY <2>3, <2>4, FS_Surjection
<1> HIDE DEF A
<1>2. IsFiniteSet(S)
  BY <1>1, FS_Subset
<1>3. S \subseteq A
  OBVIOUS
<1> HIDE DEF S
<1>4. Cardinality(S) \in Nat /\ ExistsBijection(1..Cardinality(S), S)
  BY <1>2, FS_CardinalityType
<1>5. \E f \in [1..Cardinality(S) -> S] : IsInjective(f)
  BY <1>4 DEF ExistsBijection, Bijection, Injection
<1>6. SetToSeq(S) \in [1..Cardinality(S) -> S]
  BY <1>5, Zenon DEF SetToSeq
<1>7. SetToSeq(S) \in Seq(A)
  BY <1>3, <1>4, <1>6
<1>8. QED
  BY <1>7 DEF Present, A, S

-----------------------------------------------------------------------------
(* Classes of steps.                                                       *)

Active == Phases \ {"out", "refused"}

\* The calls of a step are counted, and what they may have hidden is noted.
Observed(p) ==
  /\ faults' \in 0..MaxFaults
  /\ seen' \in [Proc -> Observations]
  /\ seen[p].hidden \subseteq seen'[p].hidden

\* Process p goes on with task t; nothing outside the host changes.
GoesOn(p, t) ==
  /\ task[p].pc \in Active /\ t.pc \in Active
  /\ Update(p, t)
  /\ Observed(p)
  /\ UNCHANGED <<lock, starts, others, history>>

\* What a capture has not read yet is on its list.
Collects(p, t) ==
  \/ backup.status = "absent" /\ Items \subseteq ToSet(t.todo)
  \/ /\ task[p].pc \in {"capture", "save"}
     /\ \A i \in Items :
          \/ i \in ToSet(t.todo) \/ t.snap[i] = Saved(i, sys[i])
          \/ i \in seen'[p].hidden /\ \E v \in Without(sys[i]) : t.snap[i] = Saved(i, v)
          \/ i \notin ToSet(task[p].todo) /\ t.snap[i] = task[p].snap[i]

\* A step that only reads the host.
Reads(p) ==
  \E t \in Tasks :
    /\ GoesOn(p, t)
    /\ UNCHANGED <<sys, ftpExposed, backup, unsaved>>
    /\ t.pc \in LicensedPhases => task[p].pc \in LicensedPhases \/ backup.status = "valid"
    /\ t.pc \in {"capture", "save"} => Collects(p, t)

\* A step that writes one setting.
Writes(p) ==
  \E t \in Tasks, i \in Items : \E v \in ValueOf(i) :
    /\ GoesOn(p, t)
    /\ task[p].pc \in RepairPhases \cup RestorePhases /\ t.pc = task[p].pc
    /\ sys' = [sys EXCEPT ![i] = v]
    /\ UNCHANGED <<ftpExposed, backup, unsaved>>

\* The step that creates the backup.
Saves(p) ==
  \E t \in Tasks :
    /\ GoesOn(p, t)
    /\ task[p].pc = "save" /\ task[p].todo = <<>> /\ t.pc = "compat"
    /\ backup.status = "absent"
    /\ backup' = [status |-> "valid", snap |-> task[p].snap]
    /\ unsaved' = seen[p].hidden
    /\ UNCHANGED <<sys, ftpExposed>>

LEMMA CallsOnTyped ==
  ASSUME Typed, NEW p \in Proc, NEW works \in BOOLEAN, NEW names \in SUBSET Items,
         CallsOn(p, works, names)
  PROVE  Observed(p)
<1>1. faults' \in 0..MaxFaults
  BY WorkflowAssumption DEF Typed, CallsOn
<1> DEFINE e == seen[p]
           c == e.clean /\ works
           h == IF works THEN e.hidden ELSE e.hidden \cup names
<1>2. e \in Observations /\ seen \in [Proc -> Observations]
  BY DEF Typed
<1>3. c \in BOOLEAN /\ h \in SUBSET Items /\ e.hidden \subseteq h
  BY <1>2 DEF Observations
<1>4. seen' = [seen EXCEPT ![p] = [e EXCEPT !.clean = c, !.hidden = h]]
  BY DEF CallsOn
<1> HIDE DEF c, h
<1>5. /\ [e EXCEPT !.clean = c, !.hidden = h] \in Observations
      /\ [e EXCEPT !.clean = c, !.hidden = h].hidden = h
  BY <1>2, <1>3 DEF Observations
<1> HIDE DEF e
<1>6. QED
  BY <1>1, <1>2, <1>3, <1>4, <1>5 DEF Observed, e

LEMMA CallsTyped ==
  ASSUME Typed, NEW p \in Proc, NEW works \in BOOLEAN, Calls(p, works) \/ Walks(p, works)
  PROVE  Observed(p)
<1>1. ToSet(Names) \subseteq Items
  BY ItemKinds
<1>2. PICK names \in SUBSET Items : CallsOn(p, works, names)
  BY <1>1 DEF Calls, Walks
<1>3. QED
  BY <1>2, CallsOnTyped

LEMMA FitsHeadAndTail ==
  ASSUME NEW phase, NEW todo, TodoFits(phase, todo), todo # <<>>
  PROVE  /\ Head(todo) \in Items /\ TodoFits(phase, Tail(todo))
         /\ phase \in {"profiles", "restoreProfiles"} => Head(todo) \in ToSet(Profiles)
         /\ phase \in {"legacy", "rules", "removeRules", "addRules"} => Head(todo) \in ToSet(Names)
         /\ phase = "legacy" => Head(todo) \in ToSet(LegacyNames)
         /\ phase = "rules" => Head(todo) \in ToSet(RuleNames)
         /\ phase \in {"services", "restoreServices"} => Head(todo) \in ToSet(Services)
         /\ phase \in {"rdp", "restoreRdp"} => Head(todo) = RdpPolicy
         /\ phase \in {"netbios", "restoreNetbios"} => Head(todo) \in ToSet(Adapters)
<1>1. ASSUME NEW S, todo \in Seq(S) PROVE Head(todo) \in S /\ Tail(todo) \in Seq(S)
  BY <1>1, HeadAndTail
<1>2. Head(todo) \in Items /\ Tail(todo) \in Seq(Items)
  BY <1>1 DEF TodoFits
<1>3. phase \in {"profiles", "restoreProfiles"} =>
        Head(todo) \in ToSet(Profiles) /\ Tail(todo) \in Seq(ToSet(Profiles))
  BY <1>1, Zenon DEF TodoFits
<1>4. phase \in {"legacy", "rules", "removeRules", "addRules"} =>
        Head(todo) \in ToSet(Names) /\ Tail(todo) \in Seq(ToSet(Names))
  BY <1>1, Zenon DEF TodoFits
<1>5. phase \in {"services", "restoreServices"} =>
        Head(todo) \in ToSet(Services) /\ Tail(todo) \in Seq(ToSet(Services))
  BY <1>1, Zenon DEF TodoFits
<1>6. phase \in {"rdp", "restoreRdp"} =>
        Head(todo) \in {RdpPolicy} /\ Tail(todo) \in Seq({RdpPolicy})
  BY <1>1, Zenon DEF TodoFits
<1>7. phase \in {"netbios", "restoreNetbios"} =>
        Head(todo) \in ToSet(Adapters) /\ Tail(todo) \in Seq(ToSet(Adapters))
  BY <1>1, Zenon DEF TodoFits
<1>8. /\ phase = "legacy" =>
           Head(todo) \in ToSet(LegacyNames) /\ Tail(todo) \in Seq(ToSet(LegacyNames))
      /\ phase = "rules" =>
           Head(todo) \in ToSet(RuleNames) /\ Tail(todo) \in Seq(ToSet(RuleNames))
  BY <1>1, Zenon DEF TodoFits
<1>9. phase = "save" => Tail(todo) = <<>>
  BY DEF TodoFits
<1>10. TodoFits(phase, Tail(todo))
  BY <1>2, <1>3, <1>4, <1>5, <1>6, <1>7, <1>8, <1>9, Zenon DEF TodoFits
<1>11. QED
  BY <1>2, <1>3, <1>4, <1>5, <1>6, <1>7, <1>8, <1>10

\* The task after one attempt.
Tried(t, ok, changed) ==
  [t EXCEPT !.todo = Tail(@), !.success = @ /\ ok, !.changed = @ \/ changed]

LEMMA TriedTyped ==
  ASSUME NEW t \in Tasks, t.todo # <<>>, NEW ok \in BOOLEAN, NEW changed \in BOOLEAN
  PROVE  Tried(t, ok, changed) \in Tasks /\ Tried(t, ok, changed).pc = t.pc
<1>1. t \in Records /\ TodoFits(t.pc, t.todo)
  BY DEF Tasks
<1>2. TodoFits(t.pc, Tail(t.todo)) /\ Tail(t.todo) \in Seq(Items)
  BY <1>1, FitsHeadAndTail DEF TodoFits
<1>3. Tried(t, ok, changed) \in Records
  BY <1>1, <1>2 DEF Tried, Records
<1>4. Tried(t, ok, changed).pc = t.pc /\ Tried(t, ok, changed).todo = Tail(t.todo)
  BY <1>1 DEF Tried, Records
<1>5. QED
  BY <1>2, <1>3, <1>4 DEF Tasks

LEMMA AttemptWrites ==
  ASSUME Typed, NEW p \in Proc, NEW works \in BOOLEAN, NEW outcomes,
         task[p].pc \in RepairPhases \cup RestorePhases, task[p].todo # <<>>,
         outcomes \subseteq OutcomesIn(ValueOf(Head(task[p].todo))),
         Calls(p, works) \/ Walks(p, works), Attempt(p, outcomes)
  PROVE  Writes(p)
<1> DEFINE i == Head(task[p].todo)
<1>1. task[p] \in Tasks
  BY DEF Typed
<1>2. i \in Items
  BY <1>1, FitsHeadAndTail DEF Tasks
<1>3. PICK o \in outcomes :
        /\ sys' = [sys EXCEPT ![i] = o.val]
        /\ Update(p, Tried(task[p], o.ok, o.changed))
        /\ UNCHANGED <<ftpExposed, backup, unsaved>>
        /\ UNCHANGED <<lock, starts, others, history>>
  BY Zenon DEF Attempt, Tried, RestUnchanged
<1>4. o.val \in ValueOf(i) /\ o.ok \in BOOLEAN /\ o.changed \in BOOLEAN
  BY DEF OutcomesIn
<1>5. /\ Tried(task[p], o.ok, o.changed) \in Tasks
      /\ Tried(task[p], o.ok, o.changed).pc = task[p].pc
  BY <1>1, <1>4, TriedTyped
<1>6. Observed(p)
  BY CallsTyped
<1>7. task[p].pc \in Active
  BY DEF Active, Phases, RepairPhases, RestorePhases
<1>8. GoesOn(p, Tried(task[p], o.ok, o.changed))
  BY <1>3, <1>5, <1>6, <1>7 DEF GoesOn
<1> HIDE DEF i
<1>9. QED
  BY <1>2, <1>3, <1>4, <1>5, <1>8 DEF Writes

\* What stands in front of the list, and its value.
LEMMA HeadValues ==
  ASSUME Typed, NEW p \in Proc, task[p].todo # <<>>
  PROVE  LET i == Head(task[p].todo) phase == task[p].pc IN
         /\ Value(p) \in ValueOf(i) /\ SavedValue(p) \in ValueOf(i)
         /\ phase \in {"profiles", "restoreProfiles"} => ValueOf(i) = {"on", "off"}
         /\ phase \in {"legacy", "rules", "removeRules", "addRules"} => ValueOf(i) = Seq(RuleKinds)
         /\ phase \in {"services", "restoreServices"} => ValueOf(i) = ServiceStates
         /\ phase \in {"rdp", "restoreRdp"} => ValueOf(i) = {"none", "allow", "deny"}
         /\ phase \in {"netbios", "restoreNetbios"} =>
              ValueOf(i) = {"gone", "none", "default", "disabled"}
<1> DEFINE i == Head(task[p].todo) phase == task[p].pc
<1>1. TodoFits(phase, task[p].todo) /\ task[p].snap \in Settings /\ sys \in Settings
  BY DEF Typed, Tasks, Records
<1>2. /\ i \in Items
      /\ phase \in {"profiles", "restoreProfiles"} => i \in ToSet(Profiles)
      /\ phase \in {"legacy", "rules", "removeRules", "addRules"} => i \in ToSet(Names)
      /\ phase \in {"services", "restoreServices"} => i \in ToSet(Services)
      /\ phase \in {"rdp", "restoreRdp"} => i = RdpPolicy
      /\ phase \in {"netbios", "restoreNetbios"} => i \in ToSet(Adapters)
  BY <1>1, FitsHeadAndTail, Zenon
<1>3. Value(p) \in ValueOf(i) /\ SavedValue(p) \in ValueOf(i)
  BY <1>1, <1>2 DEF Value, SavedValue, Settings
<1> HIDE DEF i, phase
<1>4. QED
  BY <1>2, <1>3, ValuesByKind, Zenon DEF i, phase

LEMMA RepairStepsWrite ==
  ASSUME Typed, NEW p \in Proc,
         RepairProfiles(p) \/ RemoveLegacyRules(p) \/ RepairRules(p) \/ RepairServices(p)
           \/ RepairRdp(p) \/ RepairNetbios(p)
  PROVE  Writes(p)
<1> DEFINE V == ValueOf(Head(task[p].todo))
<1>0. task[p].preserve \in BOOLEAN
  BY DEF Typed, Tasks, Records
<1>1. CASE RepairProfiles(p)
  <2>1. PICK works \in BOOLEAN :
          Calls(p, works) /\ Attempt(p, RepairProfile(Value(p), task[p].preserve, works))
    BY <1>1 DEF RepairProfiles
  <2>2. RepairProfile(Value(p), task[p].preserve, works) \subseteq OutcomesIn(V)
    BY <1>0, <1>1, HeadValues, ProfileOutcomes DEF RepairProfiles
  <2>3. QED
    BY <1>1, <2>1, <2>2, AttemptWrites DEF RepairProfiles, RepairPhases
<1>2. CASE RemoveLegacyRules(p)
  <2>1. PICK works \in BOOLEAN : Walks(p, works) /\ Attempt(p, RemoveAll(Value(p), works))
    BY <1>2 DEF RemoveLegacyRules
  <2>2. RemoveAll(Value(p), works) \subseteq OutcomesIn(V)
    BY <1>2, HeadValues, RuleOutcomes DEF RemoveLegacyRules
  <2>3. QED
    BY <1>2, <2>1, <2>2, AttemptWrites DEF RemoveLegacyRules, RepairPhases
<1>3. CASE RepairRules(p)
  <2>1. PICK works \in BOOLEAN : Walks(p, works) /\ Attempt(p, EnsureRule(Value(p), works))
    BY <1>3 DEF RepairRules
  <2>2. EnsureRule(Value(p), works) \subseteq OutcomesIn(V)
    BY <1>3, HeadValues, RuleOutcomes DEF RepairRules
  <2>3. QED
    BY <1>3, <2>1, <2>2, AttemptWrites DEF RepairRules, RepairPhases
<1>4. CASE RepairServices(p)
  <2>1. PICK works \in BOOLEAN : Calls(p, works) /\ Attempt(p, DisableService(Value(p), works))
    BY <1>4 DEF RepairServices
  <2>2. DisableService(Value(p), works) \subseteq OutcomesIn(V)
    BY <1>4, HeadValues, ServiceOutcomes DEF RepairServices
  <2>3. QED
    BY <1>4, <2>1, <2>2, AttemptWrites DEF RepairServices, RepairPhases
<1>5. CASE RepairRdp(p)
  <2>1. PICK works \in BOOLEAN : Calls(p, works) /\ Attempt(p, DenyRdp(Value(p), works))
    BY <1>5 DEF RepairRdp
  <2>2. DenyRdp(Value(p), works) \subseteq OutcomesIn(V)
    BY <1>5, HeadValues, RegistryOutcomes DEF RepairRdp
  <2>3. QED
    BY <1>5, <2>1, <2>2, AttemptWrites DEF RepairRdp, RepairPhases
<1>6. CASE RepairNetbios(p)
  <2>1. PICK works \in BOOLEAN : Calls(p, works) /\ Attempt(p, DisableNetbios(Value(p), works))
    BY <1>6 DEF RepairNetbios
  <2>2. DisableNetbios(Value(p), works) \subseteq OutcomesIn(V)
    BY <1>6, HeadValues, RegistryOutcomes DEF RepairNetbios
  <2>3. QED
    BY <1>6, <2>1, <2>2, AttemptWrites DEF RepairNetbios, RepairPhases
<1>7. QED
  BY <1>1, <1>2, <1>3, <1>4, <1>5, <1>6

LEMMA RestoreStepsWrite ==
  ASSUME Typed, NEW p \in Proc,
         RestoreProfiles(p) \/ RemoveManagedRules(p) \/ AddStateRules(p)
           \/ RestoreServices(p) \/ RestoreDwords(p)
  PROVE  Writes(p)
<1> DEFINE V == ValueOf(Head(task[p].todo))
<1>1. CASE RestoreProfiles(p)
  <2>1. PICK works \in BOOLEAN :
          Calls(p, works) /\ Attempt(p, RestoreProfile(Value(p), SavedValue(p), works))
    BY <1>1 DEF RestoreProfiles
  <2>2. RestoreProfile(Value(p), SavedValue(p), works) \subseteq OutcomesIn(V)
    BY <1>1, HeadValues, ProfileOutcomes DEF RestoreProfiles
  <2>3. QED
    BY <1>1, <2>1, <2>2, AttemptWrites DEF RestoreProfiles, RestorePhases
<1>2. CASE RemoveManagedRules(p)
  <2>1. PICK works \in BOOLEAN : Walks(p, works) /\ Attempt(p, RemoveAll(Value(p), works))
    BY <1>2 DEF RemoveManagedRules
  <2>2. RemoveAll(Value(p), works) \subseteq OutcomesIn(V)
    BY <1>2, HeadValues, RuleOutcomes DEF RemoveManagedRules
  <2>3. QED
    BY <1>2, <2>1, <2>2, AttemptWrites DEF RemoveManagedRules, RestorePhases
<1>3. CASE AddStateRules(p)
  <2>1. PICK works \in BOOLEAN :
          Calls(p, works) /\ Attempt(p, AddSavedRules(Value(p), SavedValue(p), works))
    BY <1>3 DEF AddStateRules
  <2>2. AddSavedRules(Value(p), SavedValue(p), works) \subseteq OutcomesIn(V)
    BY <1>3, HeadValues, RuleOutcomes DEF AddStateRules
  <2>3. QED
    BY <1>3, <2>1, <2>2, AttemptWrites DEF AddStateRules, RestorePhases
<1>4. CASE RestoreServices(p)
  <2>1. PICK works \in BOOLEAN :
          Calls(p, works) /\ Attempt(p, RestoreService(Value(p), SavedValue(p), works))
    BY <1>4 DEF RestoreServices
  <2>2. RestoreService(Value(p), SavedValue(p), works) \subseteq OutcomesIn(V)
    BY <1>4, HeadValues, ServiceOutcomes DEF RestoreServices
  <2>3. QED
    BY <1>4, <2>1, <2>2, AttemptWrites DEF RestoreServices, RestorePhases
<1>5. CASE RestoreDwords(p)
  <2>1. PICK works \in BOOLEAN :
          Calls(p, works) /\ Attempt(p, RestoreDword(Value(p), SavedValue(p), works))
    BY <1>5 DEF RestoreDwords
  <2>2. RestoreDword(Value(p), SavedValue(p), works) \subseteq OutcomesIn(V)
    BY <1>5, HeadValues, RegistryOutcomes DEF RestoreDwords
  <2>3. QED
    BY <1>5, <2>1, <2>2, AttemptWrites DEF RestoreDwords, RestorePhases
<1>6. QED
  BY <1>1, <1>2, <1>3, <1>4, <1>5

-----------------------------------------------------------------------------
(* Every other step of a process only reads the host.                      *)

LEMMA ReadsTo ==
  ASSUME NEW p \in Proc, NEW t \in Tasks, task[p].pc \in Active, t.pc \in Active,
         t.pc \in LicensedPhases => task[p].pc \in LicensedPhases \/ backup.status = "valid",
         t.pc \in {"capture", "save"} => Collects(p, t),
         Update(p, t), HostUnchanged, RestUnchanged, Observed(p)
  PROVE  Reads(p)
  BY DEF Reads, GoesOn, HostUnchanged, RestUnchanged

LEMMA GiveUpTyped ==
  ASSUME Typed, NEW p \in Proc
  PROVE  GiveUp(p) \in Tasks /\ GiveUp(p).pc = "after"
<1>1. task[p] \in Tasks /\ "after" \in Phases
  BY DEF Typed, Phases
<1> DEFINE g == At(task[p], "after")
<1>2. g \in Tasks /\ g.pc = "after"
  BY <1>1, AtTyped
<1>3. GiveUp(p) = [g EXCEPT !.success = FALSE, !.snap = NoSettings]
  BY <1>1, GotoTyped DEF GiveUp
<1> HIDE DEF g
<1>4. g \in Records /\ TodoFits("after", g.todo)
  BY <1>2 DEF Tasks
<1>5. GiveUp(p) \in Records /\ GiveUp(p).pc = "after" /\ GiveUp(p).todo = g.todo
  BY <1>2, <1>3, <1>4, NoSettingsTyped DEF Records
<1>6. QED
  BY <1>4, <1>5 DEF Tasks

LEMMA AbortTyped ==
  ASSUME Typed, NEW p \in Proc
  PROVE  Abort(p) \in Tasks /\ Abort(p).pc \in {"pause", "exit"}
<1>1. task[p] \in Records
  BY DEF Typed, Tasks
<1>2. Abort(p) \in Records /\ Abort(p).pc \in {"pause", "exit"} /\ Abort(p).todo \in Seq(Items)
  BY <1>1 DEF Abort, Records, Phases
<1>3. QED
  BY <1>2 DEF Tasks, TodoFits

LEMMA AuditBeforeReads ==
  ASSUME Typed, NEW p \in Proc, AuditBefore(p)
  PROVE  Reads(p)
<1>1. task[p] \in Tasks /\ task[p] \in Records /\ task[p].pc = "before"
  BY DEF Typed, Tasks, AuditBefore
<1>2. PICK works \in BOOLEAN :
        /\ Calls(p, works)
        /\ \/ \E failed \in BOOLEAN :
                Update(p, [task[p] EXCEPT
                  !.code = IF failed THEN 5 ELSE 0,
                  !.pc = IF task[p].mode = "audit" THEN "report"
                         ELSE IF task[p].tool = "onsite" THEN "confirm" ELSE "authorize"])
           \/ Update(p, Abort(p))
  BY DEF AuditBefore
<1>3. PICK t : /\ Update(p, t) /\ t \in Tasks
               /\ t.pc \in {"report", "confirm", "authorize", "pause", "exit"}
  <2>1. CASE Update(p, Abort(p))
    BY <2>1, AbortTyped
  <2>2. ASSUME NEW code \in {0, 5}, NEW phase \in {"report", "confirm", "authorize"}
        PROVE  /\ [task[p] EXCEPT !.code = code, !.pc = phase] \in Tasks
               /\ [task[p] EXCEPT !.code = code, !.pc = phase].pc = phase
    BY <1>1 DEF Tasks, Records, TodoFits, Phases
  <2>3. QED
    BY <1>2, <2>1, <2>2
<1>4. Observed(p)
  BY <1>2, CallsTyped
<1>5. QED
  BY <1>1, <1>3, <1>4, ReadsTo
     DEF Active, Phases, LicensedPhases, RepairPhases, RestorePhases, AuditBefore

LEMMA ConfirmReads ==
  ASSUME Typed, NEW p \in Proc, Confirm(p)
  PROVE  Reads(p)
<1>1. task[p] \in Tasks /\ task[p].pc = "confirm" /\ Observed(p)
  BY DEF Typed, Confirm, Observed
<1>2. PICK answer \in {"authorize", "report"} : Update(p, At(task[p], answer))
  BY GotoTyped DEF Confirm, Goto, At
<1>3. At(task[p], answer) \in Tasks /\ At(task[p], answer).pc = answer
  BY <1>1, AtTyped DEF Phases
<1>4. QED
  BY <1>1, <1>2, <1>3, ReadsTo
     DEF Active, Phases, LicensedPhases, RepairPhases, RestorePhases, Confirm

LEMMA AuthorizeReads ==
  ASSUME Typed, NEW p \in Proc, Authorize(p)
  PROVE  Reads(p)
<1>1. task[p] \in Tasks /\ task[p].pc = "authorize" /\ Observed(p)
  BY DEF Typed, Authorize, Observed
<1>2. ASSUME NEW phase \in Phases
      PROVE  /\ Goto(p, phase) \in Tasks /\ Goto(p, phase).pc = phase
  BY <1>1, AtTyped, GotoTyped
<1>3. PICK t : Update(p, t) /\ t \in Tasks /\ t.pc \in {"load", "report", "after"}
  <2>1. PICK phase \in {"load", "report", "after"} :
          \/ Update(p, [Goto(p, phase) EXCEPT !.success = TRUE])
          \/ Update(p, [Goto(p, phase) EXCEPT !.code = 3])
    BY DEF Authorize
  <2> DEFINE g == Goto(p, phase)
  <2>2. g \in Tasks /\ g.pc = phase
    BY <1>2 DEF Phases
  <2> HIDE DEF g
  <2>3. /\ [g EXCEPT !.success = TRUE] \in Tasks /\ [g EXCEPT !.success = TRUE].pc = phase
        /\ [g EXCEPT !.code = 3] \in Tasks /\ [g EXCEPT !.code = 3].pc = phase
    BY <2>2, FieldsTyped, Zenon
  <2>4. QED
    BY <2>1, <2>3, Zenon DEF g
<1>4. QED
  BY <1>1, <1>3, ReadsTo
     DEF Active, Phases, LicensedPhases, RepairPhases, RestorePhases, Authorize

LEMMA LoadSteps ==
  ASSUME Typed, NEW p \in Proc, FindBackup(p) \/ LoadBackup(p)
  PROVE  Reads(p)
<1>1. /\ task[p] \in Tasks /\ task[p] \in Records /\ task[p].pc = "load"
      /\ HostUnchanged /\ RestUnchanged
  BY DEF Typed, Tasks, FindBackup, LoadBackup
<1>2. Observed(p)
  BY CallsTyped DEF FindBackup, LoadBackup
<1>3. {"compat", "capture", "restoreProfiles"} \subseteq Phases
  BY DEF Phases
<1>4. backup.snap \in Settings
  BY DEF Typed, Backups
<1>5. PICK t \in Tasks :
        /\ Update(p, t)
        /\ \/ t.pc \in {"compat", "restoreProfiles"} /\ backup.status = "valid"
           \/ t.pc = "capture" /\ t.todo = Inventory /\ backup.status = "absent"
           \/ t.pc = "after"
  <2>1. CASE Update(p, GiveUp(p))
    BY <2>1, GiveUpTyped
  <2>2. CASE backup.status = "valid" /\ Update(p, Goto(p, "compat"))
    BY <1>1, <1>3, <2>2, AtTyped, GotoTyped
  <2>3. CASE backup.status = "absent" /\ Update(p, Goto(p, "capture"))
    <3>1. WorkList("capture") = Inventory
      BY Zenon DEF WorkList
    <3>2. QED
      BY <1>1, <1>3, <2>3, <3>1, AtTyped, GotoTyped
  <2>4. CASE /\ backup.status = "valid"
             /\ Update(p, [Goto(p, "restoreProfiles") EXCEPT !.snap = backup.snap])
    <3> DEFINE g == Goto(p, "restoreProfiles")
    <3>1. g \in Tasks /\ g.pc = "restoreProfiles"
      BY <1>1, <1>3, AtTyped, GotoTyped
    <3> HIDE DEF g
    <3>2. [g EXCEPT !.snap = backup.snap] \in Tasks
      BY <1>4, <3>1, FieldsTyped
    <3>3. [g EXCEPT !.snap = backup.snap].pc = "restoreProfiles"
      BY <1>4, <3>1, FieldsTyped
    <3>4. QED
      BY <2>4, <3>2, <3>3 DEF g
  <2>5. QED
    BY <2>1, <2>2, <2>3, <2>4 DEF FindBackup, LoadBackup
<1>6. t.pc \in {"capture", "save"} => Collects(p, t)
  BY <1>5 DEF Collects, Items
<1>7. QED
  BY <1>1, <1>2, <1>5, <1>6, ReadsTo
     DEF Active, Phases, LicensedPhases, RepairPhases, RestorePhases

LEMMA CaptureReads ==
  ASSUME Typed, NEW p \in Proc, Capture(p)
  PROVE  Reads(p)
<1>1. /\ task[p] \in Tasks /\ task[p] \in Records /\ task[p].pc = "capture"
      /\ task[p].todo # <<>> /\ HostUnchanged /\ RestUnchanged
  BY DEF Typed, Tasks, Capture
<1>2. Observed(p)
  BY CallsTyped DEF Capture
<1> DEFINE i == Head(task[p].todo)
           noted(v) == [task[p] EXCEPT !.todo = Tail(@), !.snap[i] = Saved(i, v)]
<1>3. CASE Update(p, GiveUp(p))
  BY <1>1, <1>2, <1>3, GiveUpTyped, ReadsTo
     DEF Active, Phases, LicensedPhases, RepairPhases, RestorePhases
<1>4. ASSUME NEW v, Update(p, noted(v)),
             v = sys[i] \/ (i \in seen'[p].hidden /\ i \in ToSet(Names) /\ v \in Without(sys[i]))
      PROVE  Reads(p)
  <2> DEFINE r == noted(v)
  <2>1. /\ i \in Items /\ TodoFits("capture", Tail(task[p].todo))
        /\ Tail(task[p].todo) \in Seq(Items)
        /\ ToSet(task[p].todo) \subseteq {i} \cup ToSet(Tail(task[p].todo))
    BY <1>1, FitsHeadAndTail, HeadAndTail DEF Tasks, TodoFits
  <2>2. Saved(i, v) \in ValueOf(i)
    <3>1. v \in ValueOf(i)
      <4>1. sys[i] \in ValueOf(i)
        BY <2>1 DEF Typed, Settings
      <4>2. i \in ToSet(Names) => ValueOf(i) = Seq(RuleKinds)
        BY ValuesByKind
      <4> QED BY <1>4, <4>1, <4>2, WithoutAreRules
    <3> QED BY <2>1, <3>1, SavedTyped
  <2>3. [task[p].snap EXCEPT ![i] = Saved(i, v)] \in Settings
    BY <1>1, <2>1, <2>2, WriteSetting DEF Records
  <2> HIDE DEF i
  <2>4. /\ r \in Records /\ r.pc = "capture" /\ r.todo = Tail(task[p].todo)
        /\ r.snap = [task[p].snap EXCEPT ![i] = Saved(i, v)]
    BY <1>1, <2>1, <2>3 DEF Records
  <2>5. r \in Tasks
    BY <2>1, <2>4 DEF Tasks
  <2>6. Update(p, r)
    BY <1>4
  <2> HIDE DEF r, noted
  <2>7. Collects(p, r)
    <3>1. task[p].snap \in Settings
      BY <1>1 DEF Records
    <3>2. DOMAIN task[p].snap = Items
      BY <3>1 DEF Settings
    <3>3. ASSUME NEW j \in Items, j \notin ToSet(r.todo), r.snap[j] # Saved(j, sys[j]), j # i
          PROVE  j \notin ToSet(task[p].todo) /\ r.snap[j] = task[p].snap[j]
      BY <2>1, <2>4, <3>2, <3>3
    <3>4. \/ r.snap[i] = Saved(i, sys[i])
          \/ i \in seen'[p].hidden /\ \E w \in Without(sys[i]) : r.snap[i] = Saved(i, w)
      BY <1>4, <2>1, <2>4, <3>2
    <3>5. QED
      BY <1>1, <3>3, <3>4 DEF Collects
  <2>8. QED
    BY <1>1, <1>2, <2>4, <2>5, <2>6, <2>7, ReadsTo
       DEF Active, Phases, LicensedPhases, RepairPhases, RestorePhases
<1>5. PICK works \in BOOLEAN :
        /\ Walks(p, works)
        /\ \/ works /\ Update(p, noted(sys[i]))
           \/ ~works /\ Update(p, GiveUp(p))
           \/ /\ ~works /\ i \in ToSet(Names)
              /\ \E v \in Without(sys[i]) : Update(p, noted(v))
  BY Zenon DEF Capture
<1>6. ~works /\ i \in ToSet(Names) => i \in seen'[p].hidden
  <2>1. seen[p] \in Observations /\ seen \in [Proc -> Observations]
    BY DEF Typed
  <2> DEFINE h == seen[p].hidden \cup ({i} \cap ToSet(Names))
             c == seen[p].clean /\ works
  <2>2. ~works => seen' = [seen EXCEPT ![p] = [seen[p] EXCEPT !.clean = c, !.hidden = h]]
    BY <1>5 DEF Walks, CallsOn
  <2> HIDE DEF c, h
  <2>3. ~works => seen'[p].hidden = h
    BY <2>1, <2>2 DEF Observations
  <2> QED BY <2>3 DEF h
<1> HIDE DEF noted, i
<1>7. QED
  BY <1>3, <1>4, <1>5, <1>6

LEMMA SaveBackupSaves ==
  ASSUME Typed, NEW p \in Proc, SaveBackup(p)
  PROVE  Saves(p) \/ Reads(p)
<1>1. /\ task[p] \in Tasks /\ task[p].pc = "save" /\ task[p].todo = <<>>
      /\ RestUnchanged /\ UNCHANGED <<sys, ftpExposed, own>>
  BY DEF Typed, Tasks, TodoFits, SaveBackup
<1>2. Observed(p)
  BY CallsTyped DEF SaveBackup
<1>3. CASE Update(p, GiveUp(p)) /\ UNCHANGED <<backup, unsaved>>
  BY <1>1, <1>2, <1>3, GiveUpTyped, ReadsTo
     DEF Active, Phases, LicensedPhases, RepairPhases, RestorePhases, HostUnchanged
<1>4. CASE /\ backup.status = "absent"
           /\ backup' = [status |-> "valid", snap |-> task[p].snap]
           /\ unsaved' = seen[p].hidden
           /\ Update(p, [Goto(p, "compat") EXCEPT !.changed = TRUE, !.snap = NoSettings])
  <2> DEFINE g == Goto(p, "compat")
             t == [g EXCEPT !.changed = TRUE, !.snap = NoSettings]
  <2>1. g \in Tasks /\ g.pc = "compat"
    BY <1>1, AtTyped, GotoTyped DEF Phases
  <2> HIDE DEF g
  <2>2. g \in Records /\ TodoFits("compat", g.todo)
    BY <2>1 DEF Tasks
  <2>3. t \in Records /\ t.pc = "compat" /\ t.todo = g.todo
    BY <2>1, <2>2, NoSettingsTyped DEF Records
  <2>4. t \in Tasks
    BY <2>2, <2>3 DEF Tasks
  <2>5. Update(p, t)
    BY <1>4 DEF g
  <2> HIDE DEF t
  <2>6. GoesOn(p, t)
    BY <1>1, <1>2, <2>3, <2>5 DEF GoesOn, Active, Phases, RestUnchanged
  <2>7. QED
    BY <1>1, <1>4, <2>3, <2>4, <2>6 DEF Saves
<1>5. QED
  BY <1>3, <1>4 DEF SaveBackup

LEMMA InspectReads ==
  ASSUME Typed, NEW p \in Proc, InspectScanCompatibility(p)
  PROVE  Reads(p)
<1>1. task[p] \in Tasks /\ task[p].pc = "compat" /\ HostUnchanged /\ RestUnchanged
  BY DEF Typed, InspectScanCompatibility
<1>2. PICK works \in BOOLEAN, found \in BOOLEAN :
        Calls(p, works) /\ Update(p, [Goto(p, "profiles") EXCEPT !.preserve = found])
  BY DEF InspectScanCompatibility
<1> DEFINE g == Goto(p, "profiles")
<1>3. g \in Tasks /\ g.pc = "profiles"
  BY <1>1, AtTyped, GotoTyped DEF Phases
<1>4. Observed(p)
  BY <1>2, CallsTyped
<1> HIDE DEF g
<1>5. [g EXCEPT !.preserve = found] \in Tasks /\ [g EXCEPT !.preserve = found].pc = "profiles"
  BY <1>3, FieldsTyped, Zenon
<1>6. Update(p, [g EXCEPT !.preserve = found])
  BY <1>2 DEF g
<1>7. QED
  BY <1>1, <1>4, <1>5, <1>6, ReadsTo
     DEF Active, Phases, LicensedPhases, RepairPhases, RestorePhases

LEMMA EnumerateReads ==
  ASSUME Typed, NEW p \in Proc, EnumerateNetbios(p)
  PROVE  Reads(p)
<1>1. task[p] \in Tasks /\ task[p].pc = "adapters" /\ HostUnchanged /\ RestUnchanged
  BY DEF Typed, EnumerateNetbios
<1>2. Observed(p)
  BY CallsTyped DEF EnumerateNetbios
<1> DEFINE g == Goto(p, "netbios")
           some == \E a \in ToSet(Present(sys)) : sys[a] # "disabled"
           t == [g EXCEPT !.todo = Present(sys), !.changed = @ \/ some]
<1>3. g \in Tasks /\ g.pc = "netbios"
  BY <1>1, AtTyped, GotoTyped DEF Phases
<1>4. Update(p, GiveUp(p)) \/ Update(p, t)
  BY DEF EnumerateNetbios
<1>5. Present(sys) \in Seq(ToSet(Adapters)) /\ Present(sys) \in Seq(Items)
  <2>1. Present(sys) \in Seq(ToSet(Adapters))
    BY PresentTyped
  <2>2. ToSet(Adapters) \subseteq Items
    BY ItemKinds
  <2>3. QED
    BY <2>1, <2>2
<1> HIDE DEF g, some
<1>6. t \in Records /\ t.pc = "netbios" /\ t.todo = Present(sys)
  BY <1>3, <1>5 DEF Tasks, Records
<1>7. t \in Tasks
  BY <1>5, <1>6 DEF Tasks, TodoFits
<1> HIDE DEF t
<1>8. QED
  BY <1>1, <1>2, <1>4, <1>6, <1>7, GiveUpTyped, ReadsTo
     DEF Active, Phases, LicensedPhases, RepairPhases, RestorePhases

LEMMA ListDoneReads ==
  ASSUME Typed, NEW p \in Proc, ListDone(p)
  PROVE  Reads(p)
<1> DEFINE pc == task[p].pc
           next == NextPhase[pc]
           g == Goto(p, next)
           t == [g EXCEPT !.todo = IF next = "restoreNetbios" THEN Present(task[p].snap) ELSE @,
                          !.snap = IF next = "after" THEN NoSettings ELSE @]
<1>1. /\ task[p] \in Tasks /\ pc \in ListPhases /\ task[p].todo = <<>>
      /\ HostUnchanged /\ RestUnchanged /\ Observed(p)
  BY DEF Typed, ListDone, Observed
<1>2. /\ pc \in Active
      /\ next \in {"save", "legacy", "rules", "services", "rdp", "adapters", "after",
                   "removeRules", "addRules", "restoreServices", "restoreRdp", "restoreNetbios"}
      /\ next = "save" <=> pc = "capture"
      /\ next \in LicensedPhases => pc \in LicensedPhases
  BY <1>1 DEF ListPhases, NextPhase, Active, Phases, LicensedPhases, RepairPhases, RestorePhases
<1>3. g \in Tasks /\ g.pc = next /\ g.snap = task[p].snap
  BY <1>1, <1>2, AtTyped, GotoTyped DEF Phases
<1>4. Update(p, t)
  BY DEF ListDone
<1>5. Present(task[p].snap) \in Seq(ToSet(Adapters)) /\ Present(task[p].snap) \in Seq(Items)
  <2>1. Present(task[p].snap) \in Seq(ToSet(Adapters))
    BY PresentTyped
  <2>2. ToSet(Adapters) \subseteq Items
    BY ItemKinds
  <2>3. QED
    BY <2>1, <2>2
<1> HIDE DEF g, next
<1>6. /\ t \in Records /\ t.pc = next
      /\ t.todo = IF next = "restoreNetbios" THEN Present(task[p].snap) ELSE g.todo
      /\ t.snap = IF next = "after" THEN NoSettings ELSE g.snap
  BY <1>2, <1>3, <1>5, NoSettingsTyped DEF Tasks, Records
<1>7. TodoFits(next, t.todo)
  <2>1. CASE next = "restoreNetbios"
    BY <1>5, <1>6, <2>1 DEF TodoFits
  <2>2. CASE next # "restoreNetbios"
    BY <1>3, <1>6, <2>2 DEF Tasks
  <2>3. QED
    BY <2>1, <2>2
<1>8. t \in Tasks
  BY <1>6, <1>7 DEF Tasks
<1> HIDE DEF t
<1>9. next \in {"capture", "save"} => Collects(p, t)
  <2>1. ToSet(<<>>) = {}
    BY DEF ToSet
  <2>2. QED
    BY <1>1, <1>2, <1>3, <1>6, <2>1 DEF Collects
<1>10. QED
  BY <1>1, <1>2, <1>4, <1>6, <1>8, <1>9, ReadsTo DEF Active, Phases

LEMMA FirewallReads ==
  ASSUME Typed, NEW p \in Proc, FirewallUnavailable(p)
  PROVE  Reads(p)
<1>1. /\ task[p] \in Tasks /\ HostUnchanged /\ RestUnchanged
      /\ task[p].pc \in {"profiles", "legacy", "restoreProfiles", "removeRules"}
  BY DEF Typed, FirewallUnavailable
<1>2. PICK phase \in {"services", "restoreServices"} :
        Update(p, [Goto(p, phase) EXCEPT !.success = FALSE])
  BY DEF FirewallUnavailable
<1> DEFINE g == Goto(p, phase)
<1>3. g \in Tasks /\ g.pc = phase
  BY <1>1, AtTyped, GotoTyped DEF Phases
<1>4. Observed(p)
  BY CallsTyped DEF FirewallUnavailable
<1> HIDE DEF g
<1>5. [g EXCEPT !.success = FALSE] \in Tasks /\ [g EXCEPT !.success = FALSE].pc = phase
  BY <1>3, FieldsTyped, Zenon
<1>6. Update(p, [g EXCEPT !.success = FALSE])
  BY <1>2 DEF g
<1>7. QED
  BY <1>1, <1>4, <1>5, <1>6, ReadsTo
     DEF Active, Phases, LicensedPhases, RepairPhases, RestorePhases

LEMMA ReportingReads ==
  ASSUME Typed, NEW p \in Proc, AuditAfter(p) \/ Report(p) \/ Upload(p) \/ Pause(p)
  PROVE  Reads(p)
<1>1. /\ task[p] \in Tasks /\ task[p] \in Records /\ HostUnchanged /\ RestUnchanged
      /\ task[p].pc \in {"after", "report", "upload", "pause"}
  BY DEF Typed, Tasks, AuditAfter, Report, Upload, Pause
<1>2. Observed(p)
  <2>1. CASE AuditAfter(p) \/ Report(p)
    BY <2>1, CallsTyped DEF AuditAfter, Report
  <2>2. CASE Upload(p) \/ Pause(p)
    BY <2>2 DEF Typed, Upload, Pause, Observed
  <2>3. QED
    BY <2>1, <2>2
<1>3. ASSUME NEW phase \in {"report", "pause", "upload", "exit"}
      PROVE  Goto(p, phase) \in Tasks /\ Goto(p, phase).pc = phase
  BY <1>1, AtTyped, GotoTyped DEF Phases
<1>4. ASSUME NEW phase \in {"report", "exit"}, NEW c \in {0, 1, 3, 5, 6, 7, 8}
      PROVE  /\ [Goto(p, phase) EXCEPT !.code = c] \in Tasks
             /\ [Goto(p, phase) EXCEPT !.code = c].pc = phase
  <2> DEFINE g == Goto(p, phase)
  <2>1. g \in Tasks /\ g.pc = phase
    BY <1>3
  <2> HIDE DEF g
  <2>2. [g EXCEPT !.code = c] \in Tasks /\ [g EXCEPT !.code = c].pc = phase
    BY <2>1, FieldsTyped, Zenon
  <2>3. QED
    BY <2>2 DEF g
<1>5. PICK t \in Tasks : Update(p, t) /\ t.pc \in {"report", "pause", "upload", "exit"}
  <2>1. CASE AuditAfter(p)
    <3>1. \/ Update(p, Abort(p))
          \/ \E c \in {0, 1, 3} : Update(p, [Goto(p, "report") EXCEPT !.code = c])
      <4> DEFINE Ends(compliant) ==
            Update(p, [Goto(p, "report") EXCEPT !.code = Verdict(p, compliant)])
      <4>1. \/ \E works \in BOOLEAN : Ends(works /\ ScopeCompliant(sys, ftpExposed))
            \/ \E read \in Misread(sys) \cup {sys}, exposed \in BOOLEAN :
                 Ends(ScopeCompliant(read, exposed))
            \/ Update(p, Abort(p))
        BY <2>1 DEF AuditAfter
      <4>2. ASSUME NEW compliant, Ends(compliant)
            PROVE  \E c \in {0, 1, 3} : Update(p, [Goto(p, "report") EXCEPT !.code = c])
        <5>1. Verdict(p, compliant) \in {0, 1, 3}
          BY DEF Verdict
        <5>2. QED
          BY <4>2, <5>1, Zenon
      <4> HIDE DEF Ends
      <4>3. QED
        BY <4>1, <4>2
    <3>2. QED
      BY <1>4, <3>1, AbortTyped
  <2>2. CASE Report(p)
    <3>1. \/ Update(p, Abort(p))
          \/ \E next \in {"pause", "upload", "exit"} : Update(p, Goto(p, next))
      BY <2>2 DEF Report
    <3>2. QED
      BY <1>3, <3>1, AbortTyped
  <2>3. CASE Upload(p)
    <3>1. \/ Update(p, Goto(p, "exit"))
          \/ task[p].attempt < 2 /\ Update(p, [task[p] EXCEPT !.attempt = @ + 1])
          \/ \E c \in {6, 7} : Update(p, [Goto(p, "exit") EXCEPT !.code = c])
      <4>1. \/ Update(p, Goto(p, "exit"))
            \/ task[p].attempt < 2 /\ Update(p, [task[p] EXCEPT !.attempt = @ + 1])
            \/ Update(p, [Goto(p, "exit") EXCEPT !.code = IF @ = 0 THEN 6 ELSE 7])
        BY <2>3 DEF Upload
      <4>2. QED
        BY <4>1
    <3>2. CASE task[p].attempt < 2 /\ Update(p, [task[p] EXCEPT !.attempt = @ + 1])
      <4> DEFINE n == task[p].attempt + 1
      <4>1. n \in 0..2
        BY <1>1, <3>2 DEF Records
      <4> HIDE DEF n
      <4>2. [task[p] EXCEPT !.attempt = n] \in Tasks /\ [task[p] EXCEPT !.attempt = n].pc = task[p].pc
        BY <1>1, <4>1, FieldsTyped, Zenon
      <4>3. task[p].pc = "upload"
        BY <2>3 DEF Upload
      <4>4. Update(p, [task[p] EXCEPT !.attempt = n])
        BY <3>2 DEF n
      <4>5. QED
        BY <4>2, <4>3, <4>4
    <3>3. QED
      BY <1>3, <1>4, <3>1, <3>2
  <2>4. CASE Pause(p)
    BY <1>3, <2>4 DEF Pause
  <2>5. QED
    BY <2>1, <2>2, <2>3, <2>4
<1>6. QED
  BY <1>1, <1>2, <1>5, ReadsTo
     DEF Active, Phases, LicensedPhases, RepairPhases, RestorePhases

-----------------------------------------------------------------------------
(* Processes come and go.                                                  *)

Begins(p) ==
  /\ Lock!Acquire(p)
  /\ \E t \in Tasks : t.pc = "before" /\ Update(p, t)
  /\ starts' \in 0..MaxStarts
  /\ seen' \in [Proc -> Observations] /\ \A q \in Proc : q # p => seen'[q] = seen[q]
  /\ UNCHANGED <<sys, ftpExposed, backup, unsaved, faults, others, history>>

IsRefused(p) ==
  /\ Lock!Refuse(p, TRUE) \/ Lock!Fail(p)
  /\ \E t \in Tasks : t.pc = "refused" /\ Update(p, t)
  /\ starts' \in 0..MaxStarts /\ faults' \in 0..MaxFaults
  /\ UNCHANGED <<sys, ftpExposed, backup, unsaved, others, history, seen>>

Leaves(p) ==
  /\ task[p].pc # "out"
  /\ Lock!Release(p)
  /\ Update(p, Idle)
  /\ faults' \in 0..MaxFaults
  /\ seen' \in [Proc -> Observations] /\ \A q \in Proc : q # p => seen'[q] = seen[q]
  /\ UNCHANGED <<sys, ftpExposed, backup, unsaved, starts, others, history>>

LEMMA UnseenTyped == Unseen \in Observations
  BY NoSettingsTyped DEF Unseen, Observations

LEMMA IdleTyped == Idle \in Tasks /\ Idle.pc = "out"
<1>1. Idle \in Records /\ Idle.pc = "out" /\ Idle.todo \in Seq(Items)
  BY NoSettingsTyped DEF Idle, Records, Phases
<1>2. QED
  BY <1>1 DEF Tasks, TodoFits

LEMMA ComingAndGoing ==
  ASSUME Typed, NEW p \in Proc
  PROVE  /\ Start(p) => Begins(p)
         /\ StartRefused(p) \/ StartWithoutMutex(p) => IsRefused(p)
         /\ Exit(p) \/ Kill(p) => Leaves(p)
<1>1. /\ Idle \in Records /\ Idle.todo = <<>> /\ <<>> \in Seq(Items)
      /\ MaxStarts \in Nat /\ MaxFaults \in Nat
  BY IdleTyped, WorkflowAssumption DEF Tasks, Idle
<1>2. ASSUME Start(p) PROVE Begins(p)
  <2>1. PICK j \in Jobs : Update(p, Launched(j))
    BY <1>2 DEF Start
  <2>2. j.tool \in {"onsite", "ftp"} /\ j.mode \in {"audit", "repair", "rollback"}
        /\ j.elevated \in BOOLEAN
    BY WorkflowAssumption DEF Jobs
  <2>3. Launched(j) \in Records /\ Launched(j).pc = "before" /\ Launched(j).todo = <<>>
    BY <1>1, <2>2 DEF Launched, Records, Phases
  <2>4. Launched(j) \in Tasks
    BY <1>1, <2>3 DEF Tasks, TodoFits
  <2>5. starts' \in 0..MaxStarts
    BY <1>1, <1>2 DEF Start, Typed
  <2>6. seen' \in [Proc -> Observations] /\ \A q \in Proc : q # p => seen'[q] = seen[q]
    <3> DEFINE had == backup.status = "valid"
               e == [Unseen EXCEPT !.start = sys, !.hadBackup = had]
    <3>1. seen' = [seen EXCEPT ![p] = e]
      BY <1>2 DEF Start
    <3>2. had \in BOOLEAN /\ sys \in Settings /\ seen \in [Proc -> Observations]
      BY DEF Typed
    <3> HIDE DEF had
    <3>3. e \in Observations
      BY <3>2, UnseenTyped DEF Observations
    <3> HIDE DEF e
    <3> QED BY <3>1, <3>2, <3>3
  <2>7. QED
    BY <1>2, <2>1, <2>3, <2>4, <2>5, <2>6 DEF Begins, Start, HostUnchanged
<1>3. ASSUME StartRefused(p) \/ StartWithoutMutex(p) PROVE IsRefused(p)
  <2> DEFINE t == [Idle EXCEPT !.pc = "refused", !.code = 8]
  <2>1. t \in Records /\ t.pc = "refused" /\ t.todo = <<>>
    BY <1>1 DEF Records, Phases
  <2>2. t \in Tasks
    BY <1>1, <2>1 DEF Tasks, TodoFits
  <2>3. Update(p, t)
    BY <1>3 DEF StartRefused, StartWithoutMutex
  <2>4. starts' \in 0..MaxStarts /\ faults' \in 0..MaxFaults
    BY <1>1, <1>3 DEF StartRefused, StartWithoutMutex, Typed
  <2>5. Lock!Refuse(p, TRUE) \/ Lock!Fail(p)
    BY <1>3 DEF StartRefused, StartWithoutMutex, Lock!Refuse
  <2>6. UNCHANGED <<sys, ftpExposed, backup, unsaved, others, history, seen>>
    BY <1>3 DEF StartRefused, StartWithoutMutex, HostUnchanged
  <2> HIDE DEF t
  <2>7. QED
    BY <2>1, <2>2, <2>3, <2>4, <2>5, <2>6 DEF IsRefused
<1>4. ASSUME Exit(p) \/ Kill(p) PROVE Leaves(p)
  <2>1. faults' \in 0..MaxFaults
    BY <1>1, <1>4 DEF Exit, Kill, Typed
  <2>2. seen' \in [Proc -> Observations] /\ \A q \in Proc : q # p => seen'[q] = seen[q]
    BY <1>4, UnseenTyped DEF Exit, Kill, Gone, Typed
  <2>3. QED
    BY <1>4, <2>1, <2>2 DEF Exit, Kill, Gone, Leaves, HostUnchanged
<1>5. QED
  BY <1>2, <1>3, <1>4

LEMMA ProcessStepClasses ==
  ASSUME Typed, NEW p \in Proc,
         Start(p) \/ StartRefused(p) \/ StartWithoutMutex(p)
           \/ Step(p) \/ Confirm(p) \/ Pause(p) \/ Kill(p)
  PROVE  Reads(p) \/ Writes(p) \/ Saves(p) \/ Begins(p) \/ IsRefused(p) \/ Leaves(p)
  BY ComingAndGoing, SaveBackupSaves, RepairStepsWrite, RestoreStepsWrite, CaptureReads,
     AuditBeforeReads, ConfirmReads, AuthorizeReads, LoadSteps, InspectReads,
     EnumerateReads, ListDoneReads, FirewallReads, ReportingReads
     DEF Step

\* Every step of the system is of one of these classes.
LEMMA StepClasses ==
  ASSUME Typed, [Next]_vars
  PROVE  \/ \E p \in Proc : \/ Reads(p) \/ Writes(p) \/ Saves(p)
                            \/ Begins(p) \/ IsRefused(p) \/ Leaves(p)
         \/ Environment
         \/ UNCHANGED vars
  BY ProcessStepClasses DEF Next

-----------------------------------------------------------------------------
(* Type correctness.                                                       *)

LEMMA InitTyped == Init => Typed
<1> SUFFICES ASSUME Init PROVE Typed
  OBVIOUS
<1>1. sys \in Settings
  BY WorkflowAssumption, SettingsAsSet DEF Init
<1>2. NoBackup \in Backups
  BY NoSettingsTyped DEF NoBackup, Backups
<1>3. QED
  BY <1>1, <1>2, IdleTyped, UnseenTyped, WorkflowAssumption DEF Init, Typed, Lock!Init, Lock!Verdicts

LEMMA UpdateTyped ==
  ASSUME Typed, NEW p \in Proc, NEW t \in Tasks, Update(p, t)
  PROVE  /\ task' \in [Proc -> Tasks] /\ task'[p] = t
         /\ \A q \in Proc : q # p => task'[q] = task[q]
  BY DEF Typed, Update

LEMMA DisturbTyped ==
  ASSUME Typed, NEW i \in Items, Disturb(i)
  PROVE  /\ seen' \in [Proc -> Observations]
         /\ \A q \in Proc : seen'[q].hidden = seen[q].hidden
<1>1. ASSUME NEW q \in Proc
      PROVE  /\ seen'[q] \in Observations
             /\ seen'[q].hidden = seen[q].hidden
  <2>1. seen[q] \in Observations
    BY DEF Typed
  <2> DEFINE d == seen[q].disturbed \cup {i}
             e == [seen[q] EXCEPT !.disturbed = d]
  <2>2. d \in SUBSET Items
    BY <2>1 DEF Observations
  <2>3. seen'[q] = IF task[q].pc = "out" THEN seen[q] ELSE e
    BY DEF Disturb
  <2> HIDE DEF d
  <2>4. e \in Observations /\ e.hidden = seen[q].hidden
    BY <2>1, <2>2 DEF Observations
  <2> HIDE DEF e
  <2> QED BY <2>1, <2>3, <2>4
<1>2. seen' = [q \in Proc |-> seen'[q]]
  BY DEF Disturb
<1>3. QED
  BY <1>1, <1>2

LEMMA EnvironmentTyped ==
  ASSUME Typed, Environment
  PROVE  Typed'
<1>1. MaxOthers \in Nat
  BY WorkflowAssumption
<1>2. ASSUME NEW i \in OthersMayTouch, OthersChange(i) PROVE Typed'
  <2>1. PICK v \in OthersMaySet(i) : sys' = [sys EXCEPT ![i] = v]
    BY <1>2 DEF OthersChange
  <2>2. i \in Items /\ v \in ValueOf(i)
    BY WorkflowAssumption
  <2>3. sys' \in Settings
    BY <2>1, <2>2, WriteSetting DEF Typed
  <2>4. QED
    BY <1>1, <1>2, <2>2, <2>3, DisturbTyped DEF OthersChange, Typed
<1>3. CASE FtpChanges
  BY <1>1, <1>3 DEF FtpChanges, Typed, observers
<1>4. CASE BackupHit
  <2>1. backup' \in Backups
    BY <1>4, NoSettingsTyped DEF BackupHit, Backups
  <2>2. QED
    BY <1>1, <1>4, <2>1 DEF BackupHit, Typed
<1>5. ASSUME NEW i \in ToSet(Services), ServiceStops(i) PROVE Typed'
  <2>1. i \in Items /\ ValueOf(i) = ServiceStates
    BY ItemKinds, ValuesByKind
  <2>2. sys[i] \in ServiceStates
    BY <2>1 DEF Typed, Settings
  <2> DEFINE v == [sys[i] EXCEPT !.run = "stopped"]
  <2>3. v \in ServiceStates
    BY <2>2 DEF ServiceStates, RunStates
  <2>4. sys' = [sys EXCEPT ![i] = v]
    BY <1>5 DEF ServiceStops
  <2> HIDE DEF v
  <2>5. sys' \in Settings
    <3>1. v \in ValueOf(i) /\ sys \in Settings
      BY <2>1, <2>3 DEF Typed
    <3>2. QED
      BY <2>1, <2>4, <3>1, WriteSetting
  <2>6. QED
    BY <1>5, <2>1, <2>5, DisturbTyped DEF ServiceStops, Typed, counters
<1>6. QED
  BY <1>2, <1>3, <1>4, <1>5 DEF Environment

LEMMA NextTyped == Typed /\ [Next]_vars => Typed'
<1> SUFFICES ASSUME Typed, [Next]_vars PROVE Typed'
  OBVIOUS
<1>1. ASSUME NEW p \in Proc, Reads(p) PROVE Typed'
  <2>1. PICK t \in Tasks : GoesOn(p, t) /\ UNCHANGED <<sys, ftpExposed, backup>>
    BY <1>1 DEF Reads
  <2>2. task' \in [Proc -> Tasks]
    BY <2>1, UpdateTyped DEF GoesOn
  <2>3. QED
    BY <2>1, <2>2 DEF GoesOn, Observed, Typed
<1>2. ASSUME NEW p \in Proc, Writes(p) PROVE Typed'
  <2>1. PICK t \in Tasks, i \in Items : \E v \in ValueOf(i) :
          GoesOn(p, t) /\ sys' = [sys EXCEPT ![i] = v] /\ UNCHANGED <<ftpExposed, backup>>
    BY <1>2 DEF Writes
  <2>2. task' \in [Proc -> Tasks]
    BY <2>1, UpdateTyped DEF GoesOn
  <2>3. sys' \in Settings
    <3>1. PICK v \in ValueOf(i) : sys' = [sys EXCEPT ![i] = v]
      BY <2>1
    <3>2. sys \in Settings
      BY DEF Typed
    <3>3. QED
      BY <3>1, <3>2, WriteSetting
  <2>4. QED
    BY <2>1, <2>2, <2>3 DEF GoesOn, Observed, Typed
<1>3. ASSUME NEW p \in Proc, Saves(p) PROVE Typed'
  <2>1. PICK t \in Tasks : GoesOn(p, t) /\ UNCHANGED <<sys, ftpExposed>>
    BY <1>3 DEF Saves
  <2>2. task' \in [Proc -> Tasks]
    BY <2>1, UpdateTyped DEF GoesOn
  <2>3. task[p].snap \in Settings
    BY DEF Typed, Tasks, Records
  <2>4. backup' \in Backups
    BY <1>3, <2>3 DEF Saves, Backups
  <2>5. QED
    BY <2>1, <2>2, <2>4 DEF GoesOn, Observed, Typed
<1>4. ASSUME NEW p \in Proc, Begins(p) \/ IsRefused(p) PROVE Typed'
  <2>1. PICK t \in Tasks : Update(p, t)
    BY <1>4 DEF Begins, IsRefused
  <2>2. task' \in [Proc -> Tasks]
    BY <2>1, UpdateTyped
  <2>3. lock' \in [Proc -> Lock!Verdicts]
    BY <1>4 DEF Begins, IsRefused, Typed, Lock!Acquire, Lock!Refuse, Lock!Fail, Lock!Verdicts
  <2>4. QED
    BY <1>4, <2>2, <2>3 DEF Begins, IsRefused, Typed
<1>5. ASSUME NEW p \in Proc, Leaves(p) PROVE Typed'
  <2>1. task' \in [Proc -> Tasks]
    BY <1>5, IdleTyped, UpdateTyped DEF Leaves
  <2>2. lock' \in [Proc -> Lock!Verdicts]
    BY <1>5 DEF Leaves, Typed, Lock!Release, Lock!Verdicts
  <2>3. QED
    BY <1>5, <2>1, <2>2 DEF Leaves, Typed
<1>6. CASE Environment
  BY <1>6, EnvironmentTyped
<1>7. CASE UNCHANGED vars
  BY <1>7 DEF vars, host, counters, observers, Typed
<1>8. QED
  BY <1>1, <1>2, <1>3, <1>4, <1>5, <1>6, <1>7, StepClasses

(***************************************************************************)
(* Whatever the tools, the other software and the failures do, every       *)
(* setting, backup and process of the workflow stays of its type.          *)
(***************************************************************************)
THEOREM TypeCorrect == Spec => []TypeOK
<1>1. Spec => []Typed
  BY InitTyped, NextTyped, PTL DEF Spec
<1>2. QED
  BY <1>1, TypedImpliesTypeOK, PTL

-----------------------------------------------------------------------------
(* The execution lock.                                                     *)

LockInv == Lock!TypeOK /\ Lock!MutualExclusion

LEMMA LockInit == Lock!Init => LockInv
  BY DEF Lock!Init, LockInv, Lock!TypeOK, Lock!Verdicts, Lock!MutualExclusion

\* Every constructor and destructor of execution_lock.cpp keeps the lock
\* exclusive.
LEMMA LockNext == LockInv /\ [Lock!Next]_lock => LockInv'
<1> SUFFICES ASSUME LockInv, [Lock!Next]_lock PROVE LockInv'
  OBVIOUS
<1> USE DEF LockInv, Lock!TypeOK, Lock!Verdicts, Lock!MutualExclusion
<1>1. CASE UNCHANGED lock
  BY <1>1
<1>2. ASSUME NEW p \in Proc, Lock!Acquire(p) PROVE LockInv'
  BY <1>2 DEF Lock!Acquire, Lock!Handles
<1>3. ASSUME NEW p \in Proc, NEW permitted \in BOOLEAN, Lock!Refuse(p, permitted)
      PROVE  LockInv'
  BY <1>3 DEF Lock!Refuse
<1>4. ASSUME NEW p \in Proc, Lock!Fail(p) PROVE LockInv'
  BY <1>4 DEF Lock!Fail
<1>5. ASSUME NEW p \in Proc, Lock!Release(p) PROVE LockInv'
  BY <1>5 DEF Lock!Release
<1>6. QED
  BY <1>1, <1>2, <1>3, <1>4, <1>5 DEF Lock!Next

(***************************************************************************)
(* The lock is exclusive by itself, for any number of processes: two       *)
(* ExecutionLock objects never both say that they acquired it, although    *)
(* existence and not ownership decides.                                    *)
(***************************************************************************)
THEOREM LockIsExclusive == Lock!Spec => []Lock!MutualExclusion
<1>1. LockInv => Lock!MutualExclusion
  BY DEF LockInv
<1>2. QED
  BY LockInit, LockNext, <1>1, PTL DEF Lock!Spec

Exclusive ==
  /\ Lock!MutualExclusion
  /\ \A p \in Workers : lock[p] = "acquired"

LEMMA InitExclusive == Init => Exclusive
  BY IdleTyped DEF Init, Exclusive, Lock!Init, Lock!MutualExclusion, Workers

LEMMA LockSteps ==
  ASSUME Typed, [Next]_vars
  PROVE  lock' = lock \/ Lock!Next
  BY StepClasses
     DEF Reads, Writes, Saves, GoesOn, Begins, IsRefused, Leaves,
         Environment, OthersChange, FtpChanges, BackupHit, ServiceStops, vars,
         Lock!Next

LEMMA NextExclusive == Typed /\ Exclusive /\ [Next]_vars => Exclusive'
<1> SUFFICES ASSUME Typed, Exclusive, [Next]_vars PROVE Exclusive'
  OBVIOUS
<1>1. Lock!MutualExclusion'
  <2>1. LockInv
    BY DEF LockInv, Lock!TypeOK, Typed, Exclusive
  <2>2. LockInv'
    BY <2>1, LockSteps, LockNext
  <2>3. QED
    BY <2>2 DEF LockInv
<1>2. ASSUME NEW p \in Proc, Reads(p) \/ Writes(p) \/ Saves(p)
      PROVE  \A q \in Workers' : lock'[q] = "acquired"
  <2>1. PICK t \in Tasks : GoesOn(p, t)
    BY <1>2 DEF Reads, Writes, Saves
  <2>2. p \in Workers /\ lock' = lock
    BY <2>1 DEF GoesOn, Active, Workers
  <2>3. \A q \in Proc : q # p => task'[q] = task[q]
    BY <2>1, UpdateTyped DEF GoesOn
  <2>4. QED
    BY <2>2, <2>3 DEF Workers, Exclusive
<1>3. ASSUME NEW p \in Proc, Begins(p) \/ IsRefused(p) \/ Leaves(p)
      PROVE  \A q \in Workers' : lock'[q] = "acquired"
  <2>1. PICK t \in Tasks :
          Update(p, t) /\ (t.pc \in {"out", "refused"} \/ lock'[p] = "acquired")
    BY <1>3, IdleTyped DEF Begins, IsRefused, Leaves, Lock!Acquire, Typed
  <2>2. /\ task'[p] = t
        /\ \A q \in Proc : q # p => task'[q] = task[q]
    BY <2>1, UpdateTyped
  <2>3. \A q \in Proc : q # p => lock'[q] = lock[q]
    BY <1>3 DEF Begins, IsRefused, Leaves, Lock!Acquire, Lock!Refuse, Lock!Fail, Lock!Release,
                Typed
  <2>4. QED
    BY <2>1, <2>2, <2>3 DEF Workers, Exclusive
<1>4. CASE Environment \/ UNCHANGED vars
  <2>1. task' = task /\ lock' = lock
    BY <1>4 DEF Environment, OthersChange, FtpChanges, BackupHit, ServiceStops, vars
  <2>2. QED
    BY <2>1 DEF Exclusive, Workers, Lock!MutualExclusion
<1>5. QED
  BY <1>1, <1>2, <1>3, <1>4, StepClasses DEF Exclusive

LEMMA OneWorker == Exclusive => OneWorkflowAtATime
  BY DEF Exclusive, OneWorkflowAtATime, Workers, Lock!MutualExclusion

(***************************************************************************)
(* The execution lock of execution_lock.cpp keeps any number of started,   *)
(* refused, failing and killed processes from ever overlapping at work.    *)
(***************************************************************************)
THEOREM WorkflowsExclude == Spec => []OneWorkflowAtATime
<1>1. Init => Typed /\ Exclusive
  BY InitTyped, InitExclusive
<1>2. Typed /\ Exclusive /\ [Next]_vars => (Typed /\ Exclusive)'
  BY NextTyped, NextExclusive
<1>3. Spec => [](Typed /\ Exclusive)
  BY <1>1, <1>2, PTL DEF Spec
<1>4. QED
  BY <1>3, OneWorker, PTL

-----------------------------------------------------------------------------
(* The first backup.                                                       *)

LEMMA StepKeepsBackup ==
  ASSUME Typed, [Next]_vars, backup.status # "absent", others' = others
  PROVE  backup' = backup
<1>1. others \in Nat
  BY WorkflowAssumption DEF Typed
<1>2. ASSUME NEW p \in Proc,
             Reads(p) \/ Writes(p) \/ Saves(p) \/ Begins(p) \/ IsRefused(p) \/ Leaves(p)
      PROVE  backup' = backup
  BY <1>2 DEF Reads, Writes, Saves, Begins, IsRefused, Leaves
<1>3. CASE Environment
  BY <1>1, <1>3 DEF Environment, OthersChange, FtpChanges, BackupHit, ServiceStops
<1>4. CASE UNCHANGED vars
  BY <1>4 DEF vars, host
<1>5. QED
  BY <1>2, <1>3, <1>4, StepClasses

(***************************************************************************)
(* No step of the tools replaces, changes or removes a first backup, for   *)
(* any number of runs, failures and kills.                                 *)
(***************************************************************************)
THEOREM FirstBackupIsKept == Spec => FirstBackupKept
<1>1. Typed /\ Typed' /\ [Next]_vars =>
        [backup.status # "absent" /\ others' = others => backup' = backup]_vars
  BY StepKeepsBackup
<1>2. Spec => []Typed
  BY InitTyped, NextTyped, PTL DEF Spec
<1>3. QED
  BY <1>1, <1>2, PTL DEF Spec, FirstBackupKept

-----------------------------------------------------------------------------
(***************************************************************************)
(* Rollback.  CanAlwaysRollBack is not inductive: it says nothing of a     *)
(* process that holds a captured state it has not saved yet, nor why a     *)
(* process that writes has a backup behind it.                             *)
(***************************************************************************)
FirstStateKnown ==
  /\ orig \in InitialSystems
  /\ backup.status = "damaged" => backupLost

\* A saved value shows what setting i was at first, or, of a name with rules
\* that could not be opened, some of them.
Shows(i, value, missing) ==
  \/ value = Saved(i, orig[i])
  \/ i \in missing /\ \E v \in Without(orig[i]) : value = Saved(i, v)

\* As long as there is no backup, the machine is as it was at first; after
\* that, the backup says how it was.
BackupTells ==
  ~backupLost =>
    \A i \in Items \ touched :
      IF backup.status = "valid" THEN Shows(i, backup.snap[i], unsaved)
      ELSE sys[i] = orig[i]

\* Who writes has a backup.
WritersHaveBackup ==
  \A p \in Proc : task[p].pc \in LicensedPhases /\ ~backupLost => backup.status = "valid"

\* What has been captured is the first state.
CaptureIsFirst ==
  \A p \in Proc :
    task[p].pc \in {"capture", "save"} /\ ~backupLost =>
      /\ backup.status # "valid"
      /\ \A i \in Items \ touched :
           i \in ToSet(task[p].todo) \/ Shows(i, task[p].snap[i], seen[p].hidden)

RollbackInv == FirstStateKnown /\ BackupTells /\ WritersHaveBackup /\ CaptureIsFirst

LEMMA InitRollback == Init => RollbackInv
  BY IdleTyped DEF Init, RollbackInv, FirstStateKnown, BackupTells, WritersHaveBackup,
     CaptureIsFirst, NoBackup, LicensedPhases, RepairPhases, RestorePhases

LEMMA RollbackSuffices == RollbackInv => CanAlwaysRollBack
  BY DEF RollbackInv, BackupTells, CanAlwaysRollBack, Shows

\* A worker is alone, so the others neither write nor capture.
LEMMA OthersRest ==
  ASSUME Typed, Exclusive, NEW p \in Proc, task[p].pc \in Active,
         NEW q \in Proc, q # p
  PROVE  task[q].pc \in {"out", "refused"}
  BY DEF Typed, Exclusive, Active, Workers, Lock!MutualExclusion, Tasks, Records

LEMMA ReadsKeepRollback ==
  ASSUME Typed, Exclusive, RollbackInv, NEW p \in Proc, Reads(p)
  PROVE  RollbackInv'
<1>1. PICK t \in Tasks :
        /\ GoesOn(p, t)
        /\ UNCHANGED <<sys, ftpExposed, backup, unsaved>>
        /\ t.pc \in LicensedPhases => task[p].pc \in LicensedPhases \/ backup.status = "valid"
        /\ t.pc \in {"capture", "save"} => Collects(p, t)
  BY Zenon DEF Reads
<1>2. /\ task[p].pc \in Active /\ UNCHANGED <<orig, touched, backupLost>>
      /\ task'[p] = t /\ \A q \in Proc : q # p => task'[q] = task[q]
  BY <1>1, UpdateTyped DEF GoesOn, history
<1>3. \A q \in Proc : q # p => task'[q].pc \in {"out", "refused"}
  BY <1>2, OthersRest
<1>4. FirstStateKnown' /\ BackupTells'
  BY <1>1, <1>2 DEF RollbackInv, FirstStateKnown, BackupTells, Shows
<1>5. WritersHaveBackup'
  BY <1>1, <1>2, <1>3
     DEF RollbackInv, WritersHaveBackup, LicensedPhases, RepairPhases, RestorePhases
<1>6. CaptureIsFirst'
  <2> DEFINE h == seen'[p].hidden
  <2>1. SUFFICES ASSUME t.pc \in {"capture", "save"}, ~backupLost
                 PROVE  /\ backup.status # "valid"
                        /\ \A i \in Items \ touched :
                             i \in ToSet(t.todo) \/ Shows(i, t.snap[i], h)
    BY <1>1, <1>2, <1>3 DEF CaptureIsFirst, Shows
  <2>2. CASE backup.status = "absent" /\ Items \subseteq ToSet(t.todo)
    BY <2>2
  <2>3. CASE /\ task[p].pc \in {"capture", "save"}
             /\ \A i \in Items :
                  \/ i \in ToSet(t.todo) \/ t.snap[i] = Saved(i, sys[i])
                  \/ i \in h /\ \E v \in Without(sys[i]) : t.snap[i] = Saved(i, v)
                  \/ i \notin ToSet(task[p].todo) /\ t.snap[i] = task[p].snap[i]
    <3>1. backup.status # "valid"
      BY <2>1, <2>3 DEF RollbackInv, CaptureIsFirst
    <3>2. \A i \in Items \ touched : sys[i] = orig[i]
      BY <2>1, <3>1 DEF RollbackInv, BackupTells
    <3>3. \A i \in Items \ touched :
            i \in ToSet(task[p].todo) \/ Shows(i, task[p].snap[i], seen[p].hidden)
      BY <2>1, <2>3 DEF RollbackInv, CaptureIsFirst
    <3>4. seen[p].hidden \subseteq h
      BY <1>1 DEF GoesOn, Observed
    <3>5. ASSUME NEW i \in Items \ touched, i \notin ToSet(t.todo)
          PROVE  Shows(i, t.snap[i], h)
      BY <2>3, <3>2, <3>3, <3>4, <3>5 DEF Shows
    <3>6. QED
      BY <3>1, <3>5
  <2>4. QED
    BY <1>1, <2>1, <2>2, <2>3 DEF Collects
<1>7. QED
  BY <1>4, <1>5, <1>6 DEF RollbackInv

LEMMA WritesKeepRollback ==
  ASSUME Typed, Exclusive, RollbackInv, NEW p \in Proc, Writes(p)
  PROVE  RollbackInv'
<1>1. PICK t \in Tasks :
        /\ GoesOn(p, t) /\ t.pc = task[p].pc /\ task[p].pc \in RepairPhases \cup RestorePhases
        /\ UNCHANGED <<ftpExposed, backup, unsaved>>
  BY Zenon DEF Writes
<1>2. /\ task[p].pc \in Active /\ UNCHANGED <<orig, touched, backupLost>>
      /\ task'[p] = t /\ \A q \in Proc : q # p => task'[q] = task[q]
  BY <1>1, UpdateTyped DEF GoesOn, history
<1>3. \A q \in Proc : q # p => task'[q].pc \in {"out", "refused"}
  BY <1>2, OthersRest
<1>4. ~backupLost => backup.status = "valid"
  BY <1>1 DEF RollbackInv, WritersHaveBackup, LicensedPhases
<1>5. FirstStateKnown' /\ BackupTells' /\ WritersHaveBackup'
  BY <1>1, <1>2, <1>4 DEF RollbackInv, FirstStateKnown, BackupTells, WritersHaveBackup, Shows
<1>6. CaptureIsFirst'
  BY <1>1, <1>2, <1>3 DEF CaptureIsFirst, RepairPhases, RestorePhases
<1>7. QED
  BY <1>5, <1>6 DEF RollbackInv

LEMMA SavesKeepRollback ==
  ASSUME Typed, Exclusive, RollbackInv, NEW p \in Proc, Saves(p)
  PROVE  RollbackInv'
<1>1. PICK t \in Tasks :
        /\ GoesOn(p, t) /\ task[p].pc = "save" /\ task[p].todo = <<>> /\ t.pc = "compat"
        /\ backup' = [status |-> "valid", snap |-> task[p].snap]
        /\ unsaved' = seen[p].hidden
        /\ UNCHANGED <<sys, ftpExposed>>
  BY Zenon DEF Saves
<1>2. /\ task[p].pc \in Active /\ UNCHANGED <<orig, touched, backupLost>>
      /\ task'[p] = t /\ \A q \in Proc : q # p => task'[q] = task[q]
  BY <1>1, UpdateTyped DEF GoesOn, history
<1>3. \A q \in Proc : q # p => task'[q].pc \in {"out", "refused"}
  BY <1>2, OthersRest
<1>4. FirstStateKnown' /\ WritersHaveBackup'
  BY <1>1, <1>2 DEF RollbackInv, FirstStateKnown, WritersHaveBackup
<1>5. BackupTells'
  <2>1. ToSet(task[p].todo) = {}
    BY <1>1 DEF ToSet
  <2>2. ~backupLost => \A i \in Items \ touched : Shows(i, task[p].snap[i], unsaved')
    BY <1>1, <2>1 DEF RollbackInv, CaptureIsFirst, Shows
  <2>3. QED
    BY <1>1, <1>2, <2>2 DEF BackupTells, Shows
<1>6. CaptureIsFirst'
  BY <1>1, <1>2, <1>3 DEF CaptureIsFirst
<1>7. QED
  BY <1>4, <1>5, <1>6 DEF RollbackInv

LEMMA OthersKeepRollback ==
  ASSUME Typed, RollbackInv, Environment
  PROVE  RollbackInv'
<1>1. ASSUME NEW i \in OthersMayTouch, OthersChange(i) PROVE RollbackInv'
  <2>1. PICK v : sys' = [sys EXCEPT ![i] = v]
    BY <1>1 DEF OthersChange
  <2>2. \A j \in Items : j # i => sys'[j] = sys[j]
    BY <2>1 DEF Typed, Settings
  <2>3. touched' = touched \cup {i} /\ UNCHANGED <<backup, task, orig, backupLost>>
    BY <1>1 DEF OthersChange
  <2>4. unsaved' = unsaved /\ \A q \in Proc : seen'[q].hidden = seen[q].hidden
    BY <1>1, WorkflowAssumption, DisturbTyped DEF OthersChange
  <2>5. QED
    BY <2>2, <2>3, <2>4 DEF Shows, RollbackInv, FirstStateKnown, BackupTells, WritersHaveBackup, CaptureIsFirst
<1>2. CASE FtpChanges
  BY <1>2 DEF FtpChanges, observers, history, RollbackInv, FirstStateKnown, BackupTells,
              WritersHaveBackup, CaptureIsFirst, Shows
<1>3. CASE BackupHit
  BY <1>3 DEF BackupHit, RollbackInv, FirstStateKnown, BackupTells, WritersHaveBackup,
              CaptureIsFirst, Shows
<1>4. ASSUME NEW i \in ToSet(Services), ServiceStops(i) PROVE RollbackInv'
  <2>1. UNCHANGED <<backup, task, orig, touched, backupLost>> /\ sys[i].run = "stopping"
    BY <1>4 DEF ServiceStops, history
  <2>2. \A j \in Items : j # i => sys'[j] = sys[j]
    BY <1>4 DEF ServiceStops, Typed, Settings
  <2>3. orig[i].run # "stopping"
    BY WorkflowAssumption DEF RollbackInv, FirstStateKnown
  <2>4. sys[i] # orig[i]
    BY <2>1, <2>3
  <2>5. unsaved' = unsaved /\ \A q \in Proc : seen'[q].hidden = seen[q].hidden
    BY <1>4, ItemKinds, DisturbTyped DEF ServiceStops
  <2>6. BackupTells'
    BY <2>1, <2>2, <2>4, <2>5 DEF RollbackInv, BackupTells, Shows
  <2>7. QED
    BY <2>1, <2>5, <2>6 DEF RollbackInv, FirstStateKnown, WritersHaveBackup, CaptureIsFirst, Shows
<1>5. QED
  BY <1>1, <1>2, <1>3, <1>4 DEF Environment

LEMMA NextRollback ==
  ASSUME Typed, Exclusive, RollbackInv, [Next]_vars
  PROVE  RollbackInv'
<1>1. ASSUME NEW p \in Proc, Begins(p) \/ IsRefused(p) \/ Leaves(p) PROVE RollbackInv'
  <2>1. PICK t \in Tasks : Update(p, t) /\ t.pc \in {"before", "refused", "out"}
    BY <1>1, IdleTyped DEF Begins, IsRefused, Leaves
  <2>2. /\ UNCHANGED <<sys, backup, unsaved, orig, touched, backupLost>>
        /\ \A q \in Proc : q # p => seen'[q] = seen[q]
    BY <1>1 DEF Begins, IsRefused, Leaves, history
  <2>3. task'[p] = t /\ \A q \in Proc : q # p => task'[q] = task[q]
    BY <2>1, UpdateTyped
  <2>4. QED
    BY <2>1, <2>2, <2>3
       DEF RollbackInv, Shows, FirstStateKnown, BackupTells, WritersHaveBackup, CaptureIsFirst,
           LicensedPhases, RepairPhases, RestorePhases
<1>2. CASE UNCHANGED vars
  BY <1>2 DEF vars, host, observers, history, RollbackInv, FirstStateKnown, BackupTells,
              WritersHaveBackup, CaptureIsFirst, Shows
<1>3. QED
  BY <1>1, <1>2, ReadsKeepRollback, WritesKeepRollback, SavesKeepRollback,
     OthersKeepRollback, StepClasses

(***************************************************************************)
(* Whatever is killed or fails in the middle of a capture, a repair or a   *)
(* rollback, and however often the tools are run, the first value of every *)
(* setting the tools may have changed is in a valid backup; of a name some *)
(* of whose rules CollectStateRules could not open, the other rules are.   *)
(***************************************************************************)
THEOREM RollbackIsPossible == Spec => []CanAlwaysRollBack
<1>1. Init => Typed /\ Exclusive /\ RollbackInv
  BY InitTyped, InitExclusive, InitRollback
<1>2. Typed /\ Exclusive /\ RollbackInv /\ [Next]_vars => (Typed /\ Exclusive /\ RollbackInv)'
  BY NextTyped, NextExclusive, NextRollback
<1>3. Spec => [](Typed /\ Exclusive /\ RollbackInv)
  BY <1>1, <1>2, PTL DEF Spec
<1>4. QED
  BY <1>3, RollbackSuffices, PTL

-----------------------------------------------------------------------------
(* Refinement.                                                             *)

Licensed == \E p \in Proc : task[p].pc \in LicensedPhases

LEMMA LicenceIsBoolean == Licensed \in BOOLEAN /\ Licensed' \in BOOLEAN
  BY DEF Licensed

\* The worker is alone, before and after its step.
LEMMA WorkerIsAlone ==
  ASSUME Typed, Exclusive, NEW p \in Proc, NEW t \in Tasks, GoesOn(p, t)
  PROVE  /\ Workers = {p} /\ Workers' = {p}
         /\ Licensed <=> task[p].pc \in LicensedPhases
         /\ Licensed' <=> t.pc \in LicensedPhases
         /\ others' = others
<1>1. /\ task'[p] = t /\ task[p].pc \in Active /\ t.pc \in Active /\ others' = others
      /\ \A q \in Proc : q # p => task'[q] = task[q]
  BY UpdateTyped DEF GoesOn
<1>2. \A q \in Proc : q # p => task[q].pc \in {"out", "refused"}
  BY <1>1, OthersRest
<1>3. Workers = {p} /\ Workers' = {p}
  BY <1>1, <1>2 DEF Workers, Active
<1>4. "out" \notin LicensedPhases /\ "refused" \notin LicensedPhases
  BY DEF LicensedPhases, RepairPhases, RestorePhases
<1>5. QED
  BY <1>1, <1>2, <1>3, <1>4 DEF Licensed

LEMMA InitGuarded == Init => Guarded!Init
  BY IdleTyped DEF Init, Guarded!Init, NoBackup, Workers, LicensedPhases, RepairPhases,
     RestorePhases

LEMMA NextGuarded ==
  ASSUME Typed, Exclusive, [Next]_vars
  PROVE  [Guarded!Next]_Guarded!vars
<1> USE DEF Guarded!Next, Guarded!vars
<1>1. ASSUME NEW p \in Proc, Reads(p) PROVE [Guarded!Next]_Guarded!vars
  <2>1. PICK t \in Tasks :
          /\ GoesOn(p, t) /\ UNCHANGED <<sys, backup>>
          /\ t.pc \in LicensedPhases => task[p].pc \in LicensedPhases \/ backup.status = "valid"
    BY <1>1, Zenon DEF Reads
  <2>2. /\ Workers = {p} /\ Workers' = Workers /\ others' = others
        /\ Licensed' /\ ~Licensed => backup.status = "valid"
    BY <2>1, WorkerIsAlone
  <2>3. CASE Licensed' = Licensed
    <3>1. UNCHANGED Guarded!vars
      BY <2>1, <2>2, <2>3 DEF Licensed
    <3>2. QED
      BY <3>1
  <2>4. CASE Licensed /\ ~Licensed'
    BY <2>1, <2>2, <2>4 DEF Licensed, Guarded!Renounce
  <2>5. CASE ~Licensed /\ Licensed'
    BY <2>1, <2>2, <2>5 DEF Licensed, Guarded!FindBackup
  <2>6. QED
    BY <2>3, <2>4, <2>5, LicenceIsBoolean
<1>2. ASSUME NEW p \in Proc, Writes(p) PROVE [Guarded!Next]_Guarded!vars
  <2>1. PICK t \in Tasks, i \in Items :
          /\ GoesOn(p, t) /\ t.pc = task[p].pc
          /\ task[p].pc \in RepairPhases \cup RestorePhases
          /\ \E v \in ValueOf(i) : sys' = [sys EXCEPT ![i] = v]
          /\ UNCHANGED backup
    BY <1>2, Zenon DEF Writes
  <2>2. Workers' = Workers /\ others' = others /\ Licensed /\ Licensed'
    BY <2>1, WorkerIsAlone DEF LicensedPhases
  <2>3. sys' = [sys EXCEPT ![i] = sys'[i]]
    BY <2>1 DEF Typed, Settings
  <2>4. Guarded!Write(i)
    BY <2>1, <2>2, <2>3 DEF Guarded!Write, Licensed
  <2>5. Guarded!Items = Items
    BY DEF Guarded!Items, Guarded!Inventory, Guarded!Names, Guarded!ToSet,
           Items, Inventory, Names, ToSet
  <2>6. QED
    BY <2>4, <2>5
<1>3. ASSUME NEW p \in Proc, Saves(p) PROVE [Guarded!Next]_Guarded!vars
  <2>1. PICK t \in Tasks :
          /\ GoesOn(p, t) /\ task[p].pc = "save" /\ t.pc = "compat"
          /\ backup.status = "absent"
          /\ backup' = [status |-> "valid", snap |-> task[p].snap] /\ UNCHANGED sys
    BY <1>3, Zenon DEF Saves
  <2>2. Workers = {p} /\ Workers' = Workers /\ others' = others /\ ~Licensed /\ Licensed'
    BY <2>1, WorkerIsAlone DEF LicensedPhases, RepairPhases, RestorePhases
  <2>3. Guarded!TakeBackup
    BY <2>1, <2>2 DEF Guarded!TakeBackup, Licensed
  <2>4. QED
    BY <2>3
<1>4. ASSUME NEW p \in Proc, Begins(p) PROVE [Guarded!Next]_Guarded!vars
  <2>1. PICK t \in Tasks : t.pc = "before" /\ Update(p, t)
    BY <1>4 DEF Begins
  <2>2. task'[p] = t /\ \A q \in Proc : q # p => task'[q] = task[q]
    BY <2>1, UpdateTyped
  <2>3. Workers = {}
    BY <1>4 DEF Begins, Lock!Acquire, Lock!Handles, Exclusive, Workers
  <2>4. Workers' = {p} /\ ~Licensed /\ ~Licensed'
    BY <2>1, <2>2, <2>3 DEF Workers, Licensed, LicensedPhases, RepairPhases, RestorePhases
  <2>5. Guarded!Begin(p)
    BY <1>4, <2>3, <2>4 DEF Begins, Guarded!Begin, Licensed
  <2>6. QED
    BY <2>5
<1>5. ASSUME NEW p \in Proc, IsRefused(p) \/ (Leaves(p) /\ p \notin Workers)
      PROVE  UNCHANGED Guarded!vars
  <2>1. PICK t \in Tasks : t.pc \in {"out", "refused"} /\ Update(p, t)
    BY <1>5, IdleTyped DEF IsRefused, Leaves
  <2>2. task'[p] = t /\ \A q \in Proc : q # p => task'[q] = task[q]
    BY <2>1, UpdateTyped
  <2>3. p \notin Workers
    BY <1>5 DEF IsRefused, Lock!Refuse, Lock!Fail, Exclusive
  <2>4. Workers' = Workers /\ Licensed' = Licensed
    BY <2>1, <2>2, <2>3 DEF Workers, Licensed, LicensedPhases, RepairPhases, RestorePhases
  <2>5. QED
    BY <1>5, <2>4 DEF IsRefused, Leaves, Licensed
<1>6. ASSUME NEW p \in Workers, Leaves(p) PROVE [Guarded!Next]_Guarded!vars
  <2>1. p \in Proc /\ task[p].pc \in Active
    BY DEF Workers, Active, Typed, Tasks, Records
  <2>2. \A q \in Proc : q # p => task[q].pc \in {"out", "refused"} /\ task'[q] = task[q]
    BY <1>6, <2>1, OthersRest, IdleTyped, UpdateTyped DEF Leaves
  <2>3. task'[p].pc = "out"
    BY <1>6, <2>1, IdleTyped, UpdateTyped DEF Leaves
  <2>4. Workers # {} /\ Workers' = {} /\ ~Licensed'
    BY <2>1, <2>2, <2>3 DEF Workers, Licensed, LicensedPhases, RepairPhases, RestorePhases
  <2>5. Guarded!End
    BY <1>6, <2>4 DEF Leaves, Guarded!End, Licensed
  <2>6. QED
    BY <2>5
<1>7. CASE Environment
  <2>1. task' = task
    BY <1>7 DEF Environment, OthersChange, FtpChanges, BackupHit, ServiceStops
  <2>2. Workers' = Workers /\ Licensed' = Licensed
    BY <2>1 DEF Workers, Licensed
  <2>3. CASE (\E i \in OthersMayTouch : OthersChange(i)) \/ FtpChanges \/ BackupHit
    <3>1. others' = others + 1
      BY <2>3 DEF OthersChange, FtpChanges, BackupHit
    <3>2. Guarded!Interfere
      BY <2>2, <3>1 DEF Guarded!Interfere, Licensed
    <3>3. QED
      BY <3>2
  <2>4. ASSUME NEW i \in ToSet(Services), ServiceStops(i) PROVE Guarded!ServiceStops(i)
    BY <2>2, <2>4 DEF ServiceStops, Guarded!ServiceStops, Licensed, counters
  <2>5. Guarded!ToSet(Services) = ToSet(Services)
    BY DEF Guarded!ToSet, ToSet
  <2>6. QED
    BY <1>7, <2>3, <2>4, <2>5 DEF Environment
<1>8. CASE UNCHANGED vars
  BY <1>8 DEF vars, host, counters, Workers
<1>9. QED
  BY <1>1, <1>2, <1>3, <1>4, <1>5, <1>6, <1>7, <1>8, StepClasses

(***************************************************************************)
(* The workflow implements GuardedRepair: for any machine and any number   *)
(* of processes, one worker at a time, and no setting written before a     *)
(* valid first backup has been seen or written.                            *)
(***************************************************************************)
THEOREM WorkflowIsGuarded == Spec => WritesAreGuarded
<1>1. Init => Typed /\ Exclusive
  BY InitTyped, InitExclusive
<1>2. Typed /\ Exclusive /\ [Next]_vars => (Typed /\ Exclusive)'
  BY NextTyped, NextExclusive
<1>3. Spec => [](Typed /\ Exclusive)
  BY <1>1, <1>2, PTL DEF Spec
<1>4. QED
  BY <1>3, InitGuarded, NextGuarded, PTL DEF Spec, WritesAreGuarded, Guarded!Spec
-----------------------------------------------------------------------------
(* Progress.  The results a workflow reports say nothing of its middle.    *)
(* What is kept from step to step: what a list has been worked off stays   *)
(* done, and what it has not reached yet is as the process found it.       *)

\* The settings that later phases work through.
Ahead(phase) ==
  CASE phase \in {"profiles", "restoreProfiles"} -> Items \ ToSet(Profiles)
    [] phase = "legacy" ->
         ToSet(RuleNames) \cup ToSet(Services) \cup {RdpPolicy} \cup ToSet(Adapters)
    [] phase = "removeRules" ->
         ToSet(Names) \cup ToSet(Services) \cup {RdpPolicy} \cup ToSet(Adapters)
    [] phase \in {"rules", "addRules"} -> ToSet(Services) \cup {RdpPolicy} \cup ToSet(Adapters)
    [] phase \in {"services", "restoreServices"} -> {RdpPolicy} \cup ToSet(Adapters)
    [] phase \in {"rdp", "adapters", "restoreRdp"} -> ToSet(Adapters)
    [] OTHER -> {}

\* The settings a process is through with.
Waiting(t) == IF t.pc \in RepairPhases \cup RestorePhases THEN ToSet(t.todo) ELSE {}
Worked(t) == Items \ (Ahead(t.pc) \cup Waiting(t))

NotStarted == {"before", "confirm", "authorize"}
EarlyPhases == NotStarted \cup {"load", "capture", "save", "compat"}
LatePhases == RepairPhases \cup {"adapters", "after", "report", "upload", "pause", "exit"}

Undisturbed(e) == Items \ e.disturbed

\* Mode and phase of a process go together.
OnPath(t) ==
  /\ t.mode = "repair" => t.pc \notin RestorePhases
  /\ t.mode = "rollback" => t.pc \in NotStarted \cup {"load"} \cup RestorePhases
                                     \cup {"after", "report", "upload", "pause", "exit"}
  /\ t.pc \in NotStarted => ~t.success

\* A repair that has not written yet: t is its task, e what it has seen.
BeforeRepair(t, e, s, b, lost) ==
  t.mode = "repair" /\ t.pc \in EarlyPhases =>
    /\ \A i \in Undisturbed(e) : s[i] = e.start[i]
    /\ t.changed => t.pc = "compat"
    /\ ~lost => e.hadBackup = IF t.pc = "compat" THEN ~t.changed ELSE b.status = "valid"

Reached(t, e, i, v) ==
  \/ Target(i, v)
  \/ i \in ToSet(Profiles) /\ t.preserve
  \/ i \in e.hidden /\ HardenedButHidden(i, v)

\* A change from one value to another is a correction, if no call has failed.
Corrects(e, i, from, to) == e.clean => ~Target(i, from) /\ Target(i, to)

\* Adapters to be written, which already count as changed.
Listed(t, i) == t.pc = "netbios" /\ i \in ToSet(t.todo)

Repaired(t, e, s) ==
  \A i \in Undisturbed(e) :
    /\ i \in Worked(t) => Reached(t, e, i, s[i])
    /\ Listed(t, i) => s[i] # "gone" /\ (s[i] = "disabled" \/ t.changed)
    /\ s[i] = e.start[i] \/ (t.changed /\ Corrects(e, i, e.start[i], s[i]))

ChangeIsDue(t, e, s) ==
  /\ e.hadBackup \/ t.changed
  /\ t.changed /\ e.hadBackup /\ e.clean /\ e.disturbed = {} =>
       \E i \in Items : s[i] # e.start[i] \/ (Listed(t, i) /\ s[i] # "disabled")

DuringRepair(t, e, s, lost) ==
  t.mode = "repair" /\ t.pc \in LatePhases /\ t.success =>
    Repaired(t, e, s) /\ (lost \/ ChangeIsDue(t, e, s))

\* The saved value is there, for a name perhaps behind rules that could not
\* be opened.
Readded(e, i, v, saved) ==
  \/ v = saved
  \/ i \in e.hidden /\ \E w \in LeftOvers(e.start[i]) : v = w \o saved

\* BroughtBack, of given observations, settings and backup.
Back(i, e, s, saved) ==
  CASE i \in ToSet(Services) ->
         /\ s[i].start = saved[i].start
         /\ e.clean => Saved(i, s[i]) = saved[i]
    [] i \in ToSet(Adapters) ->
         IF saved[i] = "gone" THEN s[i] = e.start[i]
         ELSE s[i] = saved[i] \/ (saved[i] = "none" /\ s[i] = "gone")
    [] OTHER -> Readded(e, i, s[i], saved[i])

BeforeRollback(t, e, s) ==
  t.mode = "rollback" /\ t.pc \in EarlyPhases =>
    \A i \in Undisturbed(e) : s[i] = e.start[i]

\* A rollback works from the backup, one name at a time.
FromBackup(t, b) ==
  /\ t.pc \in RestorePhases /\ b.status = "valid" => t.snap = b.snap
  /\ t.pc \in {"removeRules", "addRules"} =>
       \A j, k \in DOMAIN t.todo : t.todo[j] = t.todo[k] => j = k
  /\ t.pc = "restoreNetbios" => \A a \in ToSet(t.todo) : t.snap[a] # "gone"

\* Names that have lost their rules and not got the saved ones yet.
Emptied(t, i) ==
  \/ t.pc = "removeRules" /\ i \in ToSet(Names) /\ i \notin ToSet(t.todo)
  \/ t.pc = "addRules" /\ i \in ToSet(t.todo)

\* ... but those that could not be opened.
Bare(e, i, v) == v = <<>> \/ (i \in e.hidden /\ v \in LeftOvers(e.start[i]))

\* Names and adapters a rollback has not reached or does not touch.
Untouched(t, i, saved) ==
  \/ i \in ToSet(Adapters) /\ (t.pc \in RestorePhases \ {"restoreNetbios"} \/ saved[i] = "gone")
  \/ t.pc = "restoreProfiles" /\ i \in ToSet(Names)
  \/ t.pc = "removeRules" /\ i \in ToSet(t.todo)

DuringRollback(t, e, s, b) ==
  t.mode = "rollback" /\ t.pc \in RestorePhases \cup {"after"} /\ t.success /\ b.status = "valid" =>
    \A i \in Undisturbed(e) :
      /\ i \in Worked(t) => Back(i, e, s, b.snap)
      /\ Emptied(t, i) => Bare(e, i, s[i])
      /\ Untouched(t, i, b.snap) => s[i] = e.start[i]

\* A saved service is running or not.
SavedServices(snap) == \A i \in ToSet(Services) : snap[i].run # "stopping"

Progress(t, e, s, b, lost) ==
  /\ OnPath(t)
  /\ BeforeRepair(t, e, s, b, lost) /\ DuringRepair(t, e, s, lost)
  /\ BeforeRollback(t, e, s) /\ FromBackup(t, b) /\ DuringRollback(t, e, s, b)
  /\ SavedServices(t.snap)

ProgressInv ==
  /\ SavedServices(backup.snap)
  /\ \A p \in Proc : Progress(task[p], seen[p], sys, backup, backupLost)
-----------------------------------------------------------------------------
(* Progress, step by step of the lists.                                    *)

\* Kinds of settings are apart.
LEMMA KindsApart ==
  /\ ToSet(Profiles) \cap ToSet(Names) = {} /\ ToSet(Profiles) \cap ToSet(Services) = {}
  /\ ToSet(Profiles) \cap ToSet(Adapters) = {} /\ RdpPolicy \notin ToSet(Profiles)
  /\ ToSet(Names) \cap ToSet(Services) = {} /\ ToSet(Names) \cap ToSet(Adapters) = {}
  /\ RdpPolicy \notin ToSet(Names)
  /\ ToSet(Services) \cap ToSet(Adapters) = {} /\ RdpPolicy \notin ToSet(Services)
  /\ RdpPolicy \notin ToSet(Adapters)
  /\ ToSet(RuleNames) \cap ToSet(LegacyNames) = {}
  /\ ToSet(Names) = ToSet(RuleNames) \cup ToSet(LegacyNames)
  /\ Items = ToSet(Profiles) \cup ToSet(Names) \cup ToSet(Services)
               \cup {RdpPolicy} \cup ToSet(Adapters)
  BY ItemKinds, HostAssumption

\* What Target asks of each kind of setting.
LEMMA TargetByKind ==
  /\ \A i \in ToSet(Profiles) : \A v : Target(i, v) <=> v = "on"
  /\ \A i \in ToSet(RuleNames) : \A v : Target(i, v) <=> Len(v) = 1 /\ Matches(v[1])
  /\ \A i \in ToSet(LegacyNames) : \A v : Target(i, v) <=> v = <<>>
  /\ \A i \in ToSet(Services) : \A v : Target(i, v) <=> v = Hardened
  /\ \A v : Target(RdpPolicy, v) <=> v = "deny"
  /\ \A i \in ToSet(Adapters) : \A v : Target(i, v) <=> v \in {"gone", "disabled"}
<1> DEFINE P == ToSet(Profiles) R == ToSet(RuleNames) L == ToSet(LegacyNames)
           S == ToSet(Services) A == ToSet(Adapters)
<1>1. /\ P \cap R = {} /\ P \cap L = {} /\ P \cap S = {} /\ P \cap A = {} /\ RdpPolicy \notin P
      /\ R \cap L = {} /\ R \cap S = {} /\ R \cap A = {} /\ RdpPolicy \notin R
      /\ L \cap S = {} /\ L \cap A = {} /\ RdpPolicy \notin L
      /\ S \cap A = {} /\ RdpPolicy \notin S /\ RdpPolicy \notin A
  BY KindsApart
<1> HIDE DEF P, R, L, S, A
<1>2. \A i, v : Target(i, v) =
        CASE i \in P -> v = "on"
          [] i \in R -> Len(v) = 1 /\ Matches(v[1])
          [] i \in L -> v = <<>>
          [] i \in S -> v = Hardened
          [] i = RdpPolicy -> v = "deny"
          [] OTHER -> v \in {"gone", "disabled"}
  BY Zenon DEF Target, P, R, L, S, A
<1>3. \A i \in P : \A v : Target(i, v) <=> v = "on"
  BY <1>1, <1>2, Zenon
<1>4. \A i \in R : \A v : Target(i, v) <=> Len(v) = 1 /\ Matches(v[1])
  BY <1>1, <1>2, Zenon
<1>5. \A i \in L : \A v : Target(i, v) <=> v = <<>>
  BY <1>1, <1>2, Zenon
<1>6. \A i \in S : \A v : Target(i, v) <=> v = Hardened
  BY <1>1, <1>2, Zenon
<1>7. \A v : Target(RdpPolicy, v) <=> v = "deny"
  BY <1>1, <1>2, Zenon
<1>8. \A i \in A : \A v : Target(i, v) <=> v \in {"gone", "disabled"}
  BY <1>1, <1>2, Zenon
<1> QED BY <1>3, <1>4, <1>5, <1>6, <1>7, <1>8 DEF P, R, L, S, A

\* What Back asks of each kind of setting.
LEMMA BackPlain ==
  ASSUME NEW f, NEW z, NEW was,
         NEW i \in ToSet(Profiles) \cup ToSet(Names) \cup {RdpPolicy}
  PROVE  Back(i, f, z, was) <=> Readded(f, i, z[i], was[i])
<1>1. i \notin ToSet(Services) /\ i \notin ToSet(Adapters)
  BY KindsApart
<1> QED BY <1>1, Zenon DEF Back

LEMMA BackService ==
  ASSUME NEW f, NEW z, NEW was, NEW i \in ToSet(Services)
  PROVE  Back(i, f, z, was) <=>
           /\ z[i].start = was[i].start
           /\ f.clean => Saved(i, z[i]) = was[i]
<1> DEFINE A == ToSet(Adapters)
           X == /\ z[i].start = was[i].start
                /\ f.clean => Saved(i, z[i]) = was[i]
           Y == IF was[i] = "gone" THEN z[i] = f.start[i]
                ELSE z[i] = was[i] \/ (was[i] = "none" /\ z[i] = "gone")
           Z == Readded(f, i, z[i], was[i])
<1>1. Back(i, f, z, was) = CASE i \in ToSet(Services) -> X [] i \in A -> Y [] OTHER -> Z
  BY Zenon DEF Back
<1>2. i \in ToSet(Services) /\ i \notin A
  BY KindsApart
<1> HIDE DEF X, Y, Z, A
<1>3. Back(i, f, z, was) = X
  BY <1>1, <1>2, Zenon
<1> QED BY <1>3 DEF X

LEMMA BackAdapter ==
  ASSUME NEW f, NEW z, NEW was, NEW i \in ToSet(Adapters)
  PROVE  Back(i, f, z, was) <=>
           IF was[i] = "gone" THEN z[i] = f.start[i]
           ELSE z[i] = was[i] \/ (was[i] = "none" /\ z[i] = "gone")
<1>1. i \notin ToSet(Services)
  BY KindsApart
<1> QED BY <1>1, Zenon DEF Back

\* Back asks less once a call has failed.
LEMMA BackWeaker ==
  ASSUME NEW e, NEW s, NEW saved, NEW e2, NEW s2, NEW i \in Items,
         e2.start = e.start, e2.clean => e.clean, e.hidden \subseteq e2.hidden, s2[i] = s[i],
         Back(i, e, s, saved)
  PROVE  Back(i, e2, s2, saved)
<1> DEFINE P == ToSet(Profiles) \cup ToSet(Names) \cup {RdpPolicy}
<1>1. CASE i \in P
  <2>1. Readded(e, i, s[i], saved[i])
    BY <1>1, BackPlain
  <2>2. Readded(e2, i, s2[i], saved[i])
    BY <2>1 DEF Readded
  <2> QED BY <1>1, <2>2, BackPlain
<1>2. CASE i \in ToSet(Services)
  <2>1. /\ s[i].start = saved[i].start
        /\ e.clean => Saved(i, s[i]) = saved[i]
    BY <1>2, BackService
  <2>2. /\ s2[i].start = saved[i].start
        /\ e2.clean => Saved(i, s2[i]) = saved[i]
    BY <2>1
  <2> QED BY <1>2, <2>2, BackService
<1>3. CASE i \in ToSet(Adapters)
  <2>1. IF saved[i] = "gone" THEN s[i] = e.start[i]
        ELSE s[i] = saved[i] \/ (saved[i] = "none" /\ s[i] = "gone")
    BY <1>3, BackAdapter
  <2>2. IF saved[i] = "gone" THEN s2[i] = e2.start[i]
        ELSE s2[i] = saved[i] \/ (saved[i] = "none" /\ s2[i] = "gone")
    BY <2>1
  <2> QED BY <1>3, <2>2, BackAdapter
<1> QED BY <1>1, <1>2, <1>3, KindsApart

\* Which settings are ahead of each phase.
LEMMA AheadByPhase ==
  /\ Ahead("profiles") = Items \ ToSet(Profiles)
  /\ Ahead("restoreProfiles") = Items \ ToSet(Profiles)
  /\ Ahead("legacy") = ToSet(RuleNames) \cup ToSet(Services) \cup {RdpPolicy} \cup ToSet(Adapters)
  /\ Ahead("removeRules") = ToSet(Names) \cup ToSet(Services) \cup {RdpPolicy} \cup ToSet(Adapters)
  /\ Ahead("rules") = ToSet(Services) \cup {RdpPolicy} \cup ToSet(Adapters)
  /\ Ahead("addRules") = ToSet(Services) \cup {RdpPolicy} \cup ToSet(Adapters)
  /\ Ahead("services") = {RdpPolicy} \cup ToSet(Adapters)
  /\ Ahead("restoreServices") = {RdpPolicy} \cup ToSet(Adapters)
  /\ Ahead("rdp") = ToSet(Adapters) /\ Ahead("adapters") = ToSet(Adapters)
  /\ Ahead("restoreRdp") = ToSet(Adapters)
  /\ \A phase \in {"netbios", "restoreNetbios", "after", "report", "upload", "pause", "exit"} :
       Ahead(phase) = {}
<1>1. Ahead("profiles") = Items \ ToSet(Profiles) /\ Ahead("restoreProfiles") = Items \ ToSet(Profiles)
  BY Zenon DEF Ahead
<1>2. Ahead("legacy") = ToSet(RuleNames) \cup ToSet(Services) \cup {RdpPolicy} \cup ToSet(Adapters)
  BY Zenon DEF Ahead
<1>3. Ahead("removeRules") = ToSet(Names) \cup ToSet(Services) \cup {RdpPolicy} \cup ToSet(Adapters)
  BY Zenon DEF Ahead
<1>4. /\ Ahead("rules") = ToSet(Services) \cup {RdpPolicy} \cup ToSet(Adapters)
      /\ Ahead("addRules") = ToSet(Services) \cup {RdpPolicy} \cup ToSet(Adapters)
  BY Zenon DEF Ahead
<1>5. /\ Ahead("services") = {RdpPolicy} \cup ToSet(Adapters)
      /\ Ahead("restoreServices") = {RdpPolicy} \cup ToSet(Adapters)
  BY Zenon DEF Ahead
<1>6. /\ Ahead("rdp") = ToSet(Adapters) /\ Ahead("adapters") = ToSet(Adapters)
      /\ Ahead("restoreRdp") = ToSet(Adapters)
  BY Zenon DEF Ahead
<1>7. ASSUME NEW phase \in {"netbios", "restoreNetbios", "after", "report", "upload", "pause", "exit"}
      PROVE  Ahead(phase) = {}
  BY Zenon DEF Ahead
<1> QED BY <1>1, <1>2, <1>3, <1>4, <1>5, <1>6, <1>7

\* Progress is not lost when others change settings, which disturbs them, or
\* hit the backup, nor when a call fails.
LEMMA ProgressUndisturbed ==
  ASSUME NEW t, NEW e, NEW s, NEW b, NEW lost \in BOOLEAN, Progress(t, e, s, b, lost),
         NEW e2, NEW s2, NEW b2, NEW lost2 \in BOOLEAN,
         e2.start = e.start, e2.hadBackup = e.hadBackup,
         e.disturbed \subseteq e2.disturbed, e2.clean => e.clean,
         e.hidden \subseteq e2.hidden,
         \A i \in Items \ e2.disturbed : s2[i] = s[i],
         b2 = b \/ (b2.status # "valid" /\ lost2),
         lost => lost2
  PROVE  Progress(t, e2, s2, b2, lost2)
<1> USE DEF Undisturbed
<1>1. \A i \in Undisturbed(e2) : i \in Undisturbed(e) /\ s2[i] = s[i]
  OBVIOUS
<1>2. BeforeRepair(t, e2, s2, b2, lost2)
  BY <1>1 DEF Progress, BeforeRepair
<1>3. DuringRepair(t, e2, s2, lost2)
  <2> SUFFICES ASSUME t.mode = "repair", t.pc \in LatePhases, t.success
               PROVE  Repaired(t, e2, s2) /\ (lost2 \/ ChangeIsDue(t, e2, s2))
    BY DEF DuringRepair
  <2>1. Repaired(t, e, s) /\ (lost \/ ChangeIsDue(t, e, s))
    BY DEF Progress, DuringRepair
  <2>2. Repaired(t, e2, s2)
    BY <1>1, <2>1 DEF Repaired, Reached, Corrects
  <2>3. ASSUME ChangeIsDue(t, e, s) PROVE ChangeIsDue(t, e2, s2)
    <3>1. e2.hadBackup \/ t.changed
      BY <2>3 DEF ChangeIsDue
    <3>2. ASSUME t.changed, e2.hadBackup, e2.clean, e2.disturbed = {}
          PROVE  \E i \in Items : s2[i] # e2.start[i] \/ (Listed(t, i) /\ s2[i] # "disabled")
      <4>1. e.disturbed = {} /\ \A i \in Items : s2[i] = s[i]
        BY <3>2
      <4>2. PICK i \in Items : s[i] # e.start[i] \/ (Listed(t, i) /\ s[i] # "disabled")
        BY <2>3, <3>2, <4>1 DEF ChangeIsDue
      <4> QED BY <4>1, <4>2
    <3> QED BY <3>1, <3>2 DEF ChangeIsDue
  <2> QED BY <2>1, <2>2, <2>3
<1>4. BeforeRollback(t, e2, s2) /\ FromBackup(t, b2) /\ OnPath(t) /\ SavedServices(t.snap)
  BY <1>1 DEF Progress, BeforeRollback, FromBackup
<1>5. DuringRollback(t, e2, s2, b2)
  <2> SUFFICES ASSUME t.mode = "rollback", t.pc \in RestorePhases \cup {"after"}, t.success,
                      b2.status = "valid", NEW i \in Undisturbed(e2)
               PROVE  /\ i \in Worked(t) => Back(i, e2, s2, b2.snap)
                      /\ Emptied(t, i) => Bare(e2, i, s2[i])
                      /\ Untouched(t, i, b2.snap) => s2[i] = e2.start[i]
    BY DEF DuringRollback
  <2>1. /\ b2 = b
        /\ i \in Worked(t) => Back(i, e, s, b.snap)
        /\ Emptied(t, i) => Bare(e, i, s[i])
        /\ Untouched(t, i, b.snap) => s[i] = e.start[i]
    BY <1>1 DEF Progress, DuringRollback
  <2>2. s2[i] = s[i]
    BY <1>1
  <2>3. Back(i, e, s, b.snap) => Back(i, e2, s2, b.snap)
    BY <2>2, BackWeaker
  <2>4. Bare(e, i, s[i]) => Bare(e2, i, s2[i])
    BY <2>2 DEF Bare
  <2> QED BY <2>1, <2>2, <2>3, <2>4
<1> QED BY <1>2, <1>3, <1>4, <1>5 DEF Progress
-----------------------------------------------------------------------------
(* Progress, between two settings.                                         *)

\* The adapters that are not gone are exactly those on the list.
LEMMA PresentElements ==
  ASSUME NEW s
  PROVE  ToSet(Present(s)) = {a \in ToSet(Adapters) : s[a] # "gone"}
<1> DEFINE A == ToSet(Adapters)
           S == {a \in A : s[a] # "gone"}
           n == Cardinality(S)
<1>1. IsFiniteSet(A)
  <2>1. Adapters \in [1..Len(Adapters) -> A] /\ Len(Adapters) \in Nat
    BY HostAssumption
  <2>2. \A a \in A : \E k \in 1..Len(Adapters) : Adapters[k] = a
    BY <2>1 DEF ToSet
  <2>3. Adapters \in Surjection(1..Len(Adapters), A)
    BY <2>1, <2>2 DEF Surjection
  <2>4. IsFiniteSet(1..Len(Adapters))
    BY <2>1, FS_Interval
  <2> QED BY <2>3, <2>4, FS_Surjection
<1> HIDE DEF A
<1>2. IsFiniteSet(S)
  BY <1>1, FS_Subset
<1> HIDE DEF S
<1>3. n \in Nat /\ ExistsBijection(1..n, S)
  BY <1>2, FS_CardinalityType
<1>4. \E f \in [1..n -> S] : IsInjective(f)
  BY <1>3 DEF ExistsBijection, Bijection, Injection
<1>5. SetToSeq(S) \in [1..n -> S] /\ IsInjective(SetToSeq(S))
  BY <1>4, Zenon DEF SetToSeq
<1>6. SetToSeq(S) \in Injection(1..n, S)
  BY <1>5 DEF Injection
<1>7. Cardinality(1..n) = n
  <2>1. IsFiniteSet(1..n) /\ Cardinality(1..n) = IF 1 > n THEN 0 ELSE n - 1 + 1
    BY <1>3, FS_Interval
  <2> QED BY <1>3, <2>1
<1>8. SetToSeq(S) \in Surjection(1..n, S)
  BY <1>2, <1>6, <1>7, FS_Injection
<1>9. ToSet(SetToSeq(S)) = S
  <2>1. DOMAIN SetToSeq(S) = 1..n /\ \A k \in 1..n : SetToSeq(S)[k] \in S
    BY <1>5
  <2>2. \A x \in S : \E k \in 1..n : SetToSeq(S)[k] = x
    BY <1>8 DEF Surjection
  <2> QED BY <2>1, <2>2 DEF ToSet
<1> QED BY <1>9 DEF Present, S, A

\* The phases are told apart.
LEMMA PhaseSets ==
  /\ EarlyPhases \cap LatePhases = {} /\ NotStarted \subseteq EarlyPhases
  /\ EarlyPhases \cap (RepairPhases \cup RestorePhases \cup {"after"}) = {}
  /\ LatePhases \cap RestorePhases = {} /\ RepairPhases \subseteq LatePhases
  /\ "addRules" \in RestorePhases /\ "restoreNetbios" \in RestorePhases
  /\ "out" \notin EarlyPhases \cup LatePhases \cup RestorePhases
  /\ "refused" \notin EarlyPhases \cup LatePhases \cup RestorePhases
  BY DEF EarlyPhases, LatePhases, NotStarted, RepairPhases, RestorePhases

\* Nothing is asked of a process that does not work.
LEMMA RestingProgress ==
  ASSUME NEW t, NEW e, NEW s, NEW b, NEW lost,
         t.pc \in {"out", "refused"}, t.mode \notin {"repair", "rollback"},
         SavedServices(t.snap)
  PROVE  Progress(t, e, s, b, lost)
<1>1. t.pc \notin EarlyPhases \cup LatePhases \cup RestorePhases
  BY PhaseSets
<1>2. t.pc \notin NotStarted /\ t.pc # "addRules" /\ t.pc # "restoreNetbios"
  BY <1>1, PhaseSets
<1> QED BY <1>1, <1>2 DEF Progress, OnPath, BeforeRepair, DuringRepair, BeforeRollback,
          FromBackup, DuringRollback

LEMMA StartedProgress ==
  ASSUME NEW t, NEW e, NEW s, NEW b, NEW lost \in BOOLEAN,
         t.pc = "before", ~t.success, ~t.changed, SavedServices(t.snap),
         e.start = s, e.hadBackup = (b.status = "valid")
  PROVE  Progress(t, e, s, b, lost)
<1>1. /\ t.pc \in NotStarted /\ t.pc \in EarlyPhases /\ t.pc \notin LatePhases
      /\ t.pc \notin RestorePhases /\ t.pc # "after" /\ t.pc # "compat"
      /\ t.pc # "addRules" /\ t.pc # "restoreNetbios"
  BY DEF EarlyPhases, LatePhases, NotStarted, RepairPhases, RestorePhases
<1> QED BY <1>1 DEF Progress, OnPath, BeforeRepair, DuringRepair, BeforeRollback,
          FromBackup, DuringRollback

\* A process that does not report success.
LEMMA FailedProgress ==
  ASSUME NEW u, NEW e, NEW s, NEW b, NEW lost,
         u.pc \in {"after", "report", "upload", "pause", "exit"}, ~u.success,
         SavedServices(u.snap)
  PROVE  Progress(u, e, s, b, lost)
<1>1. /\ u.pc \notin EarlyPhases /\ u.pc \notin NotStarted /\ u.pc \notin RestorePhases
      /\ u.pc # "addRules" /\ u.pc # "restoreNetbios"
  BY DEF EarlyPhases, NotStarted, RestorePhases
<1> QED BY <1>1 DEF Progress, OnPath, BeforeRepair, DuringRepair, BeforeRollback,
          FromBackup, DuringRollback

LEMMA FirewallFailedProgress ==
  ASSUME NEW t, NEW u, NEW e, NEW s, NEW b, NEW lost, Progress(t, e, s, b, lost),
         u.mode = t.mode, u.snap = t.snap, ~u.success,
         \/ t.pc \in RepairPhases /\ u.pc = "services"
         \/ t.pc \in RestorePhases /\ u.pc = "restoreServices"
  PROVE  Progress(u, e, s, b, lost)
<1>1. /\ u.pc \notin EarlyPhases /\ u.pc \notin NotStarted
      /\ u.pc # "addRules" /\ u.pc # "restoreNetbios"
      /\ u.pc \in RestorePhases <=> t.pc \in RestorePhases
      /\ t.pc \notin RestorePhases => t.pc \in RepairPhases
      /\ \A x \in RepairPhases : x \notin NotStarted \cup {"load"} \cup RestorePhases
                                     \cup {"after", "report", "upload", "pause", "exit"}
  BY DEF EarlyPhases, NotStarted, RepairPhases, RestorePhases
<1>2. OnPath(u)
  BY <1>1 DEF Progress, OnPath
<1> QED BY <1>1, <1>2 DEF Progress, BeforeRepair, DuringRepair, BeforeRollback,
          FromBackup, DuringRollback

\* Before anything is written.
LEMMA EarlyProgress ==
  ASSUME NEW t, NEW u, NEW e, NEW s, NEW b, NEW lost, Progress(t, e, s, b, lost),
         u.mode = t.mode, u.changed = t.changed, SavedServices(u.snap),
         \/ t.pc \in NotStarted /\ u.pc \in NotStarted /\ ~u.success
         \/ t.pc \in NotStarted /\ u.pc = "load"
         \/ t.mode = "repair" /\ t.pc = "load" /\ u.pc = "capture"
         \/ t.mode = "repair" /\ t.pc = "load" /\ b.status = "valid" /\ u.pc = "compat"
         \/ t.pc = "capture" /\ u.pc \in {"capture", "save"}
  PROVE  Progress(u, e, s, b, lost)
<1>1. /\ u.pc \in EarlyPhases /\ t.pc \in EarlyPhases /\ u.pc \notin LatePhases
      /\ u.pc \notin RestorePhases /\ u.pc # "after" /\ t.pc # "compat"
      /\ u.pc # "removeRules" /\ u.pc # "addRules" /\ u.pc # "restoreNetbios"
      /\ "load" \notin NotStarted /\ "capture" \notin NotStarted
      /\ "save" \notin NotStarted /\ "compat" \notin NotStarted
  BY DEF EarlyPhases, LatePhases, NotStarted, RepairPhases, RestorePhases
<1>2. OnPath(u)
  <2>1. "capture" \notin NotStarted \cup {"load"} \cup RestorePhases
                           \cup {"after", "report", "upload", "pause", "exit"}
    BY DEF NotStarted, RestorePhases
  <2> QED BY <1>1, <2>1 DEF Progress, OnPath
<1>3. BeforeRepair(u, e, s, b, lost)
  BY <1>1 DEF Progress, BeforeRepair
<1>4. BeforeRollback(u, e, s)
  BY <1>1 DEF Progress, BeforeRollback
<1> QED BY <1>1, <1>2, <1>3, <1>4 DEF Progress, DuringRepair, FromBackup, DuringRollback

\* The backup has just been created.
LEMMA SavedProgress ==
  ASSUME NEW t, NEW u, NEW e, NEW s, NEW b, NEW b2, NEW lost, Progress(t, e, s, b, lost),
         t.pc = "save", u.pc = "compat", u.mode = t.mode, u.changed,
         SavedServices(u.snap), b.status = "absent", e.hadBackup \in BOOLEAN
  PROVE  Progress(u, e, s, b2, lost)
<1>1. /\ u.pc \in EarlyPhases /\ t.pc \in EarlyPhases /\ u.pc \notin LatePhases
      /\ u.pc \notin RestorePhases /\ u.pc # "after" /\ u.pc \notin NotStarted
      /\ u.pc # "removeRules" /\ u.pc # "addRules" /\ u.pc # "restoreNetbios"
      /\ t.pc \notin NotStarted \cup {"load"} \cup RestorePhases
                       \cup {"after", "report", "upload", "pause", "exit"}
  BY DEF EarlyPhases, LatePhases, NotStarted, RepairPhases, RestorePhases
<1>2. OnPath(u)
  BY <1>1 DEF Progress, OnPath
<1>3. BeforeRepair(u, e, s, b2, lost)
  BY <1>1 DEF Progress, BeforeRepair
<1>4. BeforeRollback(u, e, s)
  BY <1>1 DEF Progress, BeforeRollback
<1> QED BY <1>1, <1>2, <1>3, <1>4 DEF Progress, DuringRepair, FromBackup, DuringRollback
-----------------------------------------------------------------------------
(* Progress of a repair.                                                   *)

LEMMA ReachedMono ==
  ASSUME NEW t, NEW u, u.preserve = t.preserve, NEW e, NEW i, NEW v, Reached(t, e, i, v)
  PROVE  Reached(u, e, i, v)
  BY DEF Reached

\* The repair begins.
LEMMA RepairBegins ==
  ASSUME NEW t, NEW u, NEW e, NEW s, NEW b, NEW lost \in BOOLEAN, Progress(t, e, s, b, lost),
         t.pc = "compat", u.pc = "profiles", u.mode = t.mode, u.changed = t.changed,
         u.snap = t.snap, u.todo = Profiles, e.hadBackup \in BOOLEAN, t.changed \in BOOLEAN
  PROVE  Progress(u, e, s, b, lost)
<1>1. /\ u.pc \notin EarlyPhases /\ t.pc \in EarlyPhases /\ u.pc \in LatePhases
      /\ u.pc \notin RestorePhases /\ u.pc # "after" /\ u.pc \notin NotStarted
      /\ u.pc \in RepairPhases
      /\ u.pc # "removeRules" /\ u.pc # "addRules" /\ u.pc # "restoreNetbios" /\ u.pc # "netbios"
      /\ t.pc \notin NotStarted \cup {"load"} \cup RestorePhases
                       \cup {"after", "report", "upload", "pause", "exit"}
  BY DEF EarlyPhases, LatePhases, NotStarted, RepairPhases, RestorePhases
<1>2. OnPath(u)
  BY <1>1 DEF Progress, OnPath
<1>3. DuringRepair(u, e, s, lost)
  <2> SUFFICES ASSUME u.mode = "repair" PROVE Repaired(u, e, s) /\ (lost \/ ChangeIsDue(u, e, s))
    BY DEF DuringRepair
  <2>1. /\ \A i \in Undisturbed(e) : s[i] = e.start[i]
        /\ ~lost => e.hadBackup = ~t.changed
    BY <1>1 DEF Progress, BeforeRepair
  <2>2. Worked(u) = {}
    <3>1. Ahead(u.pc) = Items \ ToSet(Profiles) /\ Waiting(u) = ToSet(Profiles)
      BY <1>1, AheadByPhase DEF Waiting
    <3> QED BY <3>1 DEF Worked
  <2>3. \A i : ~Listed(u, i)
    BY <1>1 DEF Listed
  <2>4. Repaired(u, e, s)
    BY <2>1, <2>2, <2>3 DEF Repaired
  <2>5. ~lost => ChangeIsDue(u, e, s)
    BY <2>1 DEF ChangeIsDue
  <2> QED BY <2>4, <2>5
<1> QED BY <1>1, <1>2, <1>3 DEF Progress, BeforeRepair, BeforeRollback, FromBackup, DuringRollback

\* A list of a repair is worked off, or the repair is over: nothing counts
\* as done that was not done before.
LEMMA RepairGoesOn ==
  ASSUME NEW t, NEW u, NEW e, NEW s, NEW b, NEW lost \in BOOLEAN, Progress(t, e, s, b, lost),
         t.pc \in LatePhases, u.pc \in LatePhases, u.mode = t.mode,
         u.pc \in RepairPhases \cup {"adapters"} => t.pc \in RepairPhases \cup {"adapters"},
         u.success = t.success, u.changed = t.changed, u.preserve = t.preserve,
         SavedServices(u.snap), u.pc # "after" \/ t.mode # "rollback",
         Worked(u) \subseteq Worked(t),
         \A i : ~Listed(u, i), \A i : ~Listed(t, i)
  PROVE  Progress(u, e, s, b, lost)
<1>1. /\ u.pc \notin EarlyPhases /\ u.pc \notin NotStarted /\ u.pc \notin RestorePhases
      /\ u.pc # "removeRules" /\ u.pc # "addRules" /\ u.pc # "restoreNetbios"
      /\ \/ u.pc \in RepairPhases \cup {"adapters"}
         \/ u.pc \in {"after", "report", "upload", "pause", "exit"}
      /\ \A x \in RepairPhases \cup {"adapters"} :
           x \notin NotStarted \cup {"load"} \cup RestorePhases
                 \cup {"after", "report", "upload", "pause", "exit"}
  BY DEF EarlyPhases, LatePhases, NotStarted, RepairPhases, RestorePhases
<1>2. OnPath(u)
  BY <1>1 DEF Progress, OnPath
<1>3. DuringRepair(u, e, s, lost)
  <2> SUFFICES ASSUME u.mode = "repair", u.success
               PROVE  Repaired(u, e, s) /\ (lost \/ ChangeIsDue(u, e, s))
    BY DEF DuringRepair
  <2>1. Repaired(t, e, s) /\ (lost \/ ChangeIsDue(t, e, s))
    BY DEF Progress, DuringRepair
  <2>2. Repaired(u, e, s)
    BY <2>1, ReachedMono DEF Repaired
  <2>3. ChangeIsDue(t, e, s) => ChangeIsDue(u, e, s)
    BY DEF ChangeIsDue
  <2> QED BY <2>1, <2>2, <2>3
<1> QED BY <1>1, <1>2, <1>3 DEF Progress, BeforeRepair, BeforeRollback, FromBackup, DuringRollback

\* The adapters are listed.
LEMMA AdaptersListed ==
  ASSUME NEW t, NEW u, NEW e, NEW s, NEW b, NEW lost \in BOOLEAN, Progress(t, e, s, b, lost),
         t.changed \in BOOLEAN,
         t.pc = "adapters", u.pc = "netbios", u.mode = t.mode, u.success = t.success,
         u.preserve = t.preserve, u.snap = t.snap, u.todo = Present(s),
         u.changed = (t.changed \/ \E a \in ToSet(Present(s)) : s[a] # "disabled")
  PROVE  Progress(u, e, s, b, lost)
<1>1. /\ u.pc \notin EarlyPhases /\ u.pc \notin NotStarted /\ u.pc \notin RestorePhases
      /\ u.pc # "removeRules" /\ u.pc # "addRules" /\ u.pc # "restoreNetbios" /\ u.pc # "after"
      /\ u.pc \in LatePhases /\ t.pc \in LatePhases /\ t.pc # "netbios" /\ u.pc \in RepairPhases
      /\ t.pc \notin RepairPhases \cup RestorePhases
      /\ t.pc \notin NotStarted \cup {"load"} \cup RestorePhases
                       \cup {"after", "report", "upload", "pause", "exit"}
  BY DEF EarlyPhases, LatePhases, NotStarted, RepairPhases, RestorePhases
<1>2. OnPath(u)
  BY <1>1 DEF Progress, OnPath
<1> DEFINE L == {a \in ToSet(Adapters) : s[a] # "gone"}
<1>3. /\ ToSet(u.todo) = L
      /\ Worked(t) = Items \ ToSet(Adapters)
      /\ Worked(u) = Items \ L
      /\ \A i : Listed(u, i) <=> i \in L
      /\ \A i : ~Listed(t, i)
  <2>1. ToSet(u.todo) = L
    BY PresentElements
  <2>2. Ahead(t.pc) = ToSet(Adapters) /\ Waiting(t) = {} /\ Ahead(u.pc) = {} /\ Waiting(u) = L
    BY <1>1, <2>1, AheadByPhase DEF Waiting
  <2> QED BY <1>1, <2>1, <2>2 DEF Worked, Listed
<1>4. u.changed <=> t.changed \/ \E a \in L : s[a] # "disabled"
  BY <1>3
<1>5. DuringRepair(u, e, s, lost)
  <2> SUFFICES ASSUME u.mode = "repair", u.success
               PROVE  Repaired(u, e, s) /\ (lost \/ ChangeIsDue(u, e, s))
    BY DEF DuringRepair
  <2>1. Repaired(t, e, s) /\ (lost \/ ChangeIsDue(t, e, s))
    BY <1>1 DEF Progress, DuringRepair
  <2>2. ASSUME NEW i \in Undisturbed(e)
        PROVE  /\ i \in Worked(u) => Reached(u, e, i, s[i])
               /\ Listed(u, i) => s[i] # "gone" /\ (s[i] = "disabled" \/ u.changed)
               /\ s[i] = e.start[i] \/ (u.changed /\ Corrects(e, i, e.start[i], s[i]))
    <3>1. /\ i \in Worked(t) => Reached(t, e, i, s[i])
          /\ s[i] = e.start[i] \/ (t.changed /\ Corrects(e, i, e.start[i], s[i]))
      BY <2>1 DEF Repaired
    <3>2. ASSUME i \in Worked(u) PROVE Reached(u, e, i, s[i])
      <4>1. CASE i \in ToSet(Adapters)
        <5>1. s[i] = "gone"
          BY <1>3, <3>2, <4>1
        <5> QED BY <4>1, <5>1, TargetByKind DEF Reached
      <4>2. CASE i \notin ToSet(Adapters)
        BY <1>3, <3>1, <3>2, <4>2, ReachedMono
      <4> QED BY <4>1, <4>2
    <3>3. Listed(u, i) => s[i] # "gone" /\ (s[i] = "disabled" \/ u.changed)
      BY <1>3, <1>4
    <3> QED BY <1>4, <3>1, <3>2, <3>3
  <2>3. Repaired(u, e, s)
    BY <2>2 DEF Repaired
  <2>4. ASSUME ChangeIsDue(t, e, s) PROVE ChangeIsDue(u, e, s)
    <3>1. e.hadBackup \/ u.changed
      BY <1>4, <2>4 DEF ChangeIsDue
    <3>2. ASSUME u.changed, e.hadBackup, e.clean, e.disturbed = {}
          PROVE  \E i \in Items : s[i] # e.start[i] \/ (Listed(u, i) /\ s[i] # "disabled")
      <4>1. CASE t.changed
        BY <1>3, <2>4, <3>2, <4>1 DEF ChangeIsDue
      <4>2. CASE \E a \in L : s[a] # "disabled"
        BY <1>3, <4>2, KindsApart
      <4> QED BY <1>4, <3>2, <4>1, <4>2
    <3> QED BY <3>1, <3>2 DEF ChangeIsDue
  <2> QED BY <2>1, <2>3, <2>4
<1> QED BY <1>1, <1>2, <1>5 DEF Progress, BeforeRepair, BeforeRollback, FromBackup, DuringRollback

-----------------------------------------------------------------------------
(* A single attempt of a repair.                                           *)

\* What a successful attempt in phase t.pc does to setting i of value v.
RepairsWell(t, e, i, v, o) ==
  o.ok =>
    /\ Reached(t, e, i, o.val)
    /\ IF t.pc = "netbios" THEN o.val = "disabled" /\ ~o.changed
       ELSE /\ o.val = v \/ (o.changed /\ Corrects(e, i, v, o.val))
            /\ e.clean /\ o.changed => o.val # v

LEMMA RepairAttempt ==
  ASSUME NEW t \in Tasks, NEW e, NEW s \in Settings, NEW b, NEW lost \in BOOLEAN,
         Progress(t, e, s, b, lost),
         t.pc \in RepairPhases, t.todo # <<>>,
         NEW o \in OutcomesIn(ValueOf(Head(t.todo))),
         RepairsWell(t, e, Head(t.todo), s[Head(t.todo)], o)
  PROVE  Progress(Tried(t, o.ok, o.changed), e, [s EXCEPT ![Head(t.todo)] = o.val], b, lost)
<1> DEFINE i == Head(t.todo)
           v == s[i]
           u == Tried(t, o.ok, o.changed)
           s2 == [s EXCEPT ![i] = o.val]
<1>1. t \in Records /\ TodoFits(t.pc, t.todo) /\ t.todo \in Seq(Items)
  BY DEF Tasks, TodoFits
<1>2. /\ i \in Items /\ i \in ToSet(t.todo)
      /\ ToSet(Tail(t.todo)) \subseteq ToSet(t.todo)
      /\ ToSet(t.todo) \subseteq {i} \cup ToSet(Tail(t.todo))
  BY <1>1, HeadAndTail
<1>3. /\ u.pc = t.pc /\ u.mode = t.mode /\ u.preserve = t.preserve /\ u.snap = t.snap
      /\ u.todo = Tail(t.todo) /\ u.success = (t.success /\ o.ok)
      /\ u.changed = (t.changed \/ o.changed)
  BY <1>1 DEF Tried, Records
<1>4. s2[i] = o.val /\ \A j \in Items : j # i => s2[j] = s[j]
  BY <1>2 DEF Settings
<1>5. o.ok \in BOOLEAN /\ o.changed \in BOOLEAN /\ t.success \in BOOLEAN /\ t.changed \in BOOLEAN
  BY <1>1 DEF OutcomesIn, Records
<1>6. /\ t.pc \notin EarlyPhases /\ t.pc \in LatePhases /\ t.pc \notin RestorePhases
      /\ t.pc # "after" /\ t.pc # "removeRules" /\ t.pc # "addRules" /\ t.pc # "restoreNetbios" /\ t.pc \notin NotStarted
  BY DEF EarlyPhases, LatePhases, NotStarted, RepairPhases, RestorePhases
<1>7. t.pc = "netbios" => i \in ToSet(Adapters)
  BY <1>1, FitsHeadAndTail
<1> HIDE DEF u, s2, i
<1>8. /\ Worked(u) \subseteq Worked(t) \cup {i}
      /\ \A j : Listed(u, j) => Listed(t, j)
      /\ \A j : Listed(t, j) => j = i \/ Listed(u, j)
      /\ Listed(t, i) <=> t.pc = "netbios"
  <2>1. Waiting(u) = ToSet(u.todo) /\ Waiting(t) = ToSet(t.todo)
    BY <1>3 DEF Waiting
  <2> QED BY <1>2, <1>3, <2>1 DEF Worked, Listed
<1>9. OnPath(u)
  BY <1>3, <1>6 DEF Progress, OnPath
<1>10. DuringRepair(u, e, s2, lost)
  <2> SUFFICES ASSUME u.mode = "repair", u.success
               PROVE  Repaired(u, e, s2) /\ (lost \/ ChangeIsDue(u, e, s2))
    BY DEF DuringRepair
  <2>1. t.success /\ o.ok
    BY <1>3, <1>5
  <2>2. Repaired(t, e, s) /\ (lost \/ ChangeIsDue(t, e, s))
    BY <1>3, <1>6, <2>1 DEF Progress, DuringRepair
  <2>3. /\ Reached(t, e, i, o.val)
        /\ t.pc = "netbios" => o.val = "disabled" /\ ~o.changed
        /\ t.pc # "netbios" =>
             /\ o.val = v \/ (o.changed /\ Corrects(e, i, v, o.val))
             /\ e.clean /\ o.changed => o.val # v
    BY <2>1 DEF RepairsWell, i
  <2>4. ASSUME i \in Undisturbed(e)
        PROVE  /\ v = e.start[i] \/ (t.changed /\ Corrects(e, i, e.start[i], v))
               /\ t.pc = "netbios" => v # "gone" /\ (v = "disabled" \/ t.changed)
    BY <1>8, <2>2, <2>4 DEF Repaired
  <2>5. ASSUME i \in Undisturbed(e)
        PROVE  o.val = v \/ (u.changed /\ Corrects(e, i, v, o.val))
    <3>1. CASE t.pc = "netbios"
      <4>1. v # "gone" /\ (v = "disabled" \/ t.changed) /\ o.val = "disabled"
        BY <2>3, <2>4, <2>5, <3>1
      <4>2. (Target(i, v) <=> v \in {"gone", "disabled"}) /\ Target(i, o.val)
        BY <1>7, <3>1, <4>1, TargetByKind
      <4> QED BY <1>3, <4>1, <4>2 DEF Corrects
    <3>2. CASE t.pc # "netbios"
      BY <1>3, <2>3, <3>2
    <3> QED BY <3>1, <3>2
  <2>6. ASSUME NEW j \in Undisturbed(e)
        PROVE  /\ j \in Worked(u) => Reached(u, e, j, s2[j])
               /\ Listed(u, j) => s2[j] # "gone" /\ (s2[j] = "disabled" \/ u.changed)
               /\ s2[j] = e.start[j] \/ (u.changed /\ Corrects(e, j, e.start[j], s2[j]))
    <3>1. CASE j = i
      <4>1. Reached(u, e, j, s2[j])
        BY <1>3, <1>4, <2>3, <3>1, ReachedMono
      <4>2. Listed(u, j) => s2[j] # "gone" /\ (s2[j] = "disabled" \/ u.changed)
        BY <1>4, <1>8, <2>3, <3>1
      <4>3. s2[j] = e.start[j] \/ (u.changed /\ Corrects(e, j, e.start[j], s2[j]))
        BY <1>3, <1>4, <2>4, <2>5, <3>1 DEF Corrects
      <4> QED BY <4>1, <4>2, <4>3
    <3>2. CASE j # i
      <4>1. /\ s2[j] = s[j]
            /\ j \in Worked(u) => j \in Worked(t)
            /\ Listed(u, j) => Listed(t, j)
            /\ t.changed => u.changed
        BY <1>3, <1>4, <1>8, <3>2 DEF Undisturbed
      <4>2. /\ j \in Worked(t) => Reached(t, e, j, s[j])
            /\ Listed(t, j) => s[j] # "gone" /\ (s[j] = "disabled" \/ t.changed)
            /\ s[j] = e.start[j] \/ (t.changed /\ Corrects(e, j, e.start[j], s[j]))
        BY <2>2 DEF Repaired
      <4>3. Reached(t, e, j, s[j]) => Reached(u, e, j, s[j])
        BY <1>3, ReachedMono
      <4> QED BY <4>1, <4>2, <4>3
    <3> QED BY <3>1, <3>2
  <2>7. Repaired(u, e, s2)
    BY <2>6 DEF Repaired
  <2>8. ASSUME ChangeIsDue(t, e, s) PROVE ChangeIsDue(u, e, s2)
    <3>1. e.hadBackup \/ u.changed
      BY <1>3, <2>8 DEF ChangeIsDue
    <3>2. ASSUME u.changed, e.hadBackup, e.clean, e.disturbed = {}
          PROVE  \E j \in Items : s2[j] # e.start[j] \/ (Listed(u, j) /\ s2[j] # "disabled")
      <4>0. i \in Undisturbed(e)
        BY <1>2, <3>2 DEF Undisturbed
      <4>1. CASE t.changed
        <5>1. PICK j \in Items : s[j] # e.start[j] \/ (Listed(t, j) /\ s[j] # "disabled")
          BY <2>8, <3>2, <4>1 DEF ChangeIsDue
        <5>2. CASE j # i
          BY <1>4, <1>8, <5>1, <5>2
        <5>3. CASE j = i /\ v # e.start[i]
          <6>1. Target(i, v) /\ ~Target(i, e.start[i])
            BY <2>4, <3>2, <4>0, <5>3 DEF Corrects
          <6>2. o.val = v
            BY <2>5, <3>2, <4>0, <6>1 DEF Corrects
          <6> QED BY <1>2, <1>4, <5>3, <6>2
        <5>4. CASE j = i /\ v = e.start[i]
          <6>1. Listed(t, i) /\ v # "disabled"
            BY <5>1, <5>4
          <6>2. o.val = "disabled"
            BY <1>8, <2>3, <6>1
          <6> QED BY <1>2, <1>4, <5>4, <6>1, <6>2
        <5> QED BY <5>2, <5>3, <5>4
      <4>2. CASE ~t.changed
        <5>1. o.changed /\ t.pc # "netbios"
          BY <1>3, <1>5, <2>3, <3>2, <4>2
        <5>2. o.val # v /\ v = e.start[i]
          BY <2>3, <2>4, <3>2, <4>0, <4>2, <5>1
        <5> QED BY <1>2, <1>4, <5>2
      <4> QED BY <1>5, <4>1, <4>2
    <3> QED BY <3>1, <3>2 DEF ChangeIsDue
  <2> QED BY <2>2, <2>7, <2>8
<1>11. SavedServices(u.snap)
  BY <1>3 DEF Progress
<1>12. BeforeRepair(u, e, s2, b, lost) /\ BeforeRollback(u, e, s2) /\ FromBackup(u, b)
         /\ DuringRollback(u, e, s2, b)
  BY <1>3, <1>6 DEF BeforeRepair, BeforeRollback, FromBackup, DuringRollback
<1> QED BY <1>9, <1>10, <1>11, <1>12 DEF Progress, u, s2, i
-----------------------------------------------------------------------------
(* Single attempts, in view of progress.                                   *)

LEMMA ProfileRepairedWell ==
  ASSUME NEW t, NEW i \in ToSet(Profiles), NEW v \in {"on", "off"}, NEW works \in BOOLEAN,
         NEW e, t.pc # "netbios", t.preserve \in BOOLEAN,
         NEW o \in RepairProfile(v, t.preserve, works)
  PROVE  RepairsWell(t, e, i, v, o)
<1>1. \A w : Target(i, w) <=> w = "on"
  BY TargetByKind
<1>2. o.ok => \/ v = "off" /\ ~t.preserve /\ o.val = "on" /\ o.changed
              \/ (v = "on" \/ t.preserve) /\ o.val = v /\ ~o.changed
  BY DEF RepairProfile, Outcome
<1> QED BY <1>1, <1>2 DEF RepairsWell, Reached, Corrects

LEMMA LegacyRemovedWell ==
  ASSUME NEW t, NEW i \in ToSet(LegacyNames), NEW v, NEW works \in BOOLEAN,
         NEW e, t.pc # "netbios", e.clean => works, ~works => i \in e.hidden,
         NEW o \in RemoveAll(v, works)
  PROVE  RepairsWell(t, e, i, v, o)
<1>1. \A w : Target(i, w) <=> w = <<>>
  BY TargetByKind
<1>2. CASE works
  <2>1. o.val = <<>> /\ o.changed = (v # <<>>)
    BY <1>2 DEF RemoveAll, Outcome
  <2> QED BY <1>1, <2>1 DEF RepairsWell, Reached, Corrects
<1>3. CASE ~works
  <2>1. ~e.clean /\ i \in e.hidden /\ HardenedButHidden(i, o.val)
    BY <1>3 DEF HardenedButHidden
  <2>2. o.ok => o.val = v \/ o.changed
    <3> DEFINE change == v # <<>>
    <3>1. \/ o = Outcome(v, FALSE, FALSE)
          \/ \E w \in LeftOvers(v) : o = Outcome(w, FALSE, change)
          \/ \E w \in LeftOvers(v) : o = Outcome(w, TRUE, w # v)
      BY <1>3, Zenon DEF RemoveAll
    <3> HIDE DEF change
    <3>2. ASSUME NEW w, o = Outcome(w, FALSE, change) \/ o = Outcome(w, FALSE, FALSE)
          PROVE  ~o.ok
      BY <3>2 DEF Outcome
    <3>3. ASSUME NEW w, o = Outcome(w, TRUE, w # v)
          PROVE  o.val = v \/ o.changed
      <4> DEFINE c == w # v
      <4>1. o = Outcome(w, TRUE, c)
        BY <3>3
      <4> HIDE DEF c
      <4>2. o.val = w /\ o.changed = c
        BY <4>1 DEF Outcome
      <4> QED BY <4>2 DEF c
    <3> QED BY <3>1, <3>2, <3>3
  <2> QED BY <2>1, <2>2 DEF RepairsWell, Reached, Corrects
<1> QED BY <1>2, <1>3

LEMMA RuleEnsuredWell ==
  ASSUME NEW t, NEW i \in ToSet(RuleNames), NEW v \in Seq(RuleKinds), NEW works \in BOOLEAN,
         NEW e, t.pc # "netbios", e.clean => works, ~works => i \in e.hidden,
         NEW o \in EnsureRule(v, works)
  PROVE  RepairsWell(t, e, i, v, o)
<1> DEFINE good(w) == Len(w) = 1 /\ Matches(w[1])
<1>1. \A w : Target(i, w) <=> good(w)
  BY TargetByKind
<1>2. good(<<"block">>) /\ Matches("block")
  BY DEF Matches
<1> HIDE DEF good
<1>3. CASE works
  <2>1. EnsureRule(v, works) = IF good(v) THEN {Outcome(v, TRUE, FALSE)}
                               ELSE {Outcome(<<"block">>, TRUE, TRUE)}
    BY <1>3, Zenon DEF EnsureRule, good
  <2>2. CASE good(v)
    <3>1. o.val = v /\ ~o.changed
      BY <2>1, <2>2 DEF Outcome
    <3> QED BY <1>1, <2>2, <3>1 DEF RepairsWell, Reached
  <2>3. CASE ~good(v)
    <3>1. o.val = <<"block">> /\ o.changed
      BY <2>1, <2>3 DEF Outcome
    <3>2. good(o.val) /\ o.val # v
      BY <1>2, <2>3, <3>1
    <3> QED BY <1>1, <2>3, <3>1, <3>2 DEF RepairsWell, Reached, Corrects
  <2> QED BY <2>2, <2>3
<1>4. CASE ~works
  <2> SUFFICES ASSUME o.ok
               PROVE  (o.val = v \/ o.changed) /\ \E k \in DOMAIN o.val : Matches(o.val[k])
    BY <1>4 DEF RepairsWell, Reached, Corrects, HardenedButHidden
  <2>1. EnsureRule(v, works) = RemoveAndAdd(v) \cup UNION {KeepOrCorrect(v, k) : k \in DOMAIN v}
    BY <1>4, Zenon DEF EnsureRule
  <2>2. ASSUME NEW w \in LeftOvers(v), o = Outcome(w \o <<"block">>, TRUE, TRUE)
        PROVE  o.changed /\ \E k \in DOMAIN o.val : Matches(o.val[k])
    <3>1. w \in Seq(RuleKinds)
      BY LeftOversAreRules
    <3>2. o.val = w \o <<"block">> /\ o.changed
      BY <2>2 DEF Outcome
    <3>3. Len(w) + 1 \in DOMAIN o.val /\ o.val[Len(w) + 1] = "block"
      BY <3>1, <3>2
    <3> QED BY <1>2, <3>2, <3>3
  <2>3. ASSUME o \in RemoveAndAdd(v)
        PROVE  \E w \in LeftOvers(v) : o = Outcome(w \o <<"block">>, TRUE, TRUE)
    <3>1. ASSUME NEW w, o = Outcome(w, FALSE, FALSE) PROVE FALSE
      BY <3>1 DEF Outcome
    <3> QED BY <2>3, <3>1 DEF RemoveAndAdd
  <2>4. ASSUME NEW k \in DOMAIN v, o \in KeepOrCorrect(v, k)
        PROVE  (o.val = v \/ o.changed) /\ \E j \in DOMAIN o.val : Matches(o.val[j])
    <3>1. ASSUME NEW w, o = Outcome(w, FALSE, FALSE) PROVE FALSE
      BY <3>1 DEF Outcome
    <3> DEFINE w == [v EXCEPT ![k] = "block"]
    <3>2. w[k] = "block" /\ k \in DOMAIN w
      OBVIOUS
    <3> HIDE DEF w
    <3>3. \/ Matches(v[k]) /\ (o = Outcome(v, TRUE, FALSE) \/ o = Outcome(v, TRUE, TRUE))
          \/ o = Outcome(w, TRUE, TRUE)
      BY <2>4, <3>1, Zenon DEF KeepOrCorrect, w
    <3>4. \/ Matches(v[k]) /\ o.val = v
          \/ o.val = w /\ o.changed
      BY <3>3 DEF Outcome
    <3> QED BY <1>2, <3>2, <3>4
  <2> QED BY <2>1, <2>2, <2>3, <2>4
<1> QED BY <1>3, <1>4

LEMMA ServiceDisabledWell ==
  ASSUME NEW t, NEW i \in ToSet(Services), NEW v \in ServiceStates, NEW works \in BOOLEAN,
         NEW e, t.pc # "netbios",
         NEW o \in DisableService(v, works)
  PROVE  RepairsWell(t, e, i, v, o)
<1> DEFINE change == v # Hardened
           tried == ConfigureService(v, "disabled", FALSE, works)
           done == {Outcome(r.val, r.ok /\ r.val = Hardened, change) : r \in tried}
           unread == {Outcome(r.val, FALSE, change) : r \in tried}
<1>1. \A w : Target(i, w) <=> w = Hardened
  BY TargetByKind
<1>2. DisableService(v, works) =
        IF works THEN done ELSE done \cup unread \cup {Outcome(v, FALSE, FALSE)}
  BY Zenon DEF DisableService
<1>3. /\ \A x \in done : x.ok => x.val = Hardened /\ x.changed = change
      /\ \A x \in unread : ~x.ok
      /\ ~Outcome(v, FALSE, FALSE).ok
  <2>1. /\ \A x \in done : \E r \in tried : x = Outcome(r.val, r.ok /\ r.val = Hardened, change)
        /\ \A x \in unread : \E r \in tried : x = Outcome(r.val, FALSE, change)
    OBVIOUS
  <2> HIDE DEF tried, change, done, unread
  <2>2. ASSUME NEW x, NEW r, x = Outcome(r.val, r.ok /\ r.val = Hardened, change), x.ok
        PROVE  x.val = Hardened /\ x.changed = change
    <3> DEFINE fine == r.ok /\ r.val = Hardened
    <3>0. x = Outcome(r.val, fine, change)
      BY <2>2
    <3> HIDE DEF fine
    <3>1. x.val = r.val /\ x.ok = fine /\ x.changed = change
      BY <3>0 DEF Outcome
    <3>2. r.ok /\ r.val = Hardened
      BY <2>2, <3>1, Zenon DEF fine
    <3> QED BY <3>1, <3>2
  <2>3. ASSUME NEW x, NEW w, NEW c, x = Outcome(w, FALSE, c) PROVE ~x.ok
    BY <2>3 DEF Outcome
  <2>4. \A x \in unread : ~x.ok
    BY <2>1, <2>3
  <2>5. \A x \in done : x.ok => x.val = Hardened /\ x.changed = change
    BY <2>1, <2>2
  <2> QED BY <2>3, <2>4, <2>5
<1> HIDE DEF done, unread
<1>4. o.ok => o.val = Hardened /\ o.changed = change
  BY <1>2, <1>3
<1> QED BY <1>1, <1>4 DEF RepairsWell, Reached, Corrects

LEMMA RdpDeniedWell ==
  ASSUME NEW t, NEW v, NEW works \in BOOLEAN, NEW e, t.pc # "netbios",
         NEW o \in DenyRdp(v, works)
  PROVE  RepairsWell(t, e, RdpPolicy, v, o)
<1>1. \A w : Target(RdpPolicy, w) <=> w = "deny"
  BY TargetByKind
<1> DEFINE change == v # "deny"
<1>2. DenyRdp(v, works) =
        IF works THEN {Outcome("deny", TRUE, change)}
        ELSE {Outcome(v, FALSE, FALSE), Outcome(v, FALSE, change), Outcome("deny", FALSE, change)}
  BY Zenon DEF DenyRdp
<1>3. o.ok => o.val = "deny" /\ o.changed = change
  <2> HIDE DEF change
  <2>1. \/ o = Outcome("deny", TRUE, change) \/ o = Outcome(v, FALSE, FALSE)
        \/ o = Outcome(v, FALSE, change) \/ o = Outcome("deny", FALSE, change)
    BY <1>2, Zenon
  <2> QED BY <2>1 DEF Outcome
<1> QED BY <1>1, <1>3 DEF RepairsWell, Reached, Corrects

LEMMA NetbiosDisabledWell ==
  ASSUME NEW t, NEW i \in ToSet(Adapters), NEW v, NEW works \in BOOLEAN,
         NEW e, t.pc = "netbios",
         NEW o \in DisableNetbios(v, works)
  PROVE  RepairsWell(t, e, i, v, o)
<1>1. Target(i, "disabled")
  BY TargetByKind
<1>2. o.ok => o.val = "disabled" /\ ~o.changed
  BY DEF DisableNetbios, Outcome
<1> QED BY <1>1, <1>2 DEF RepairsWell, Reached, Corrects

\* What a successful attempt of a rollback leaves of setting i, which had
\* value v.
RestoresWell(t, e, i, v, o) ==
  o.ok =>
    /\ t.pc = "removeRules" => o.val = <<>> \/ (i \in e.hidden /\ o.val \in LeftOvers(v))
    /\ t.pc = "addRules" => o.val = v \o t.snap[i] /\ (v = <<>> => o.val = t.snap[i])
    /\ t.pc \in {"restoreProfiles", "restoreRdp"} => o.val = t.snap[i]
    /\ t.pc = "restoreServices" =>
         o.val.start = t.snap[i].start /\ (e.clean => Saved(i, o.val) = t.snap[i])
    /\ t.pc = "restoreNetbios" =>
         o.val = t.snap[i] \/ (t.snap[i] = "none" /\ o.val = "gone")

LEMMA PlainRestoredWell ==
  ASSUME NEW t, NEW i, NEW v, NEW works \in BOOLEAN, NEW e, NEW o,
         ~works /\ t.pc = "removeRules" => i \in e.hidden,
         \/ t.pc = "restoreProfiles" /\ o \in RestoreProfile(v, t.snap[i], works)
         \/ t.pc = "removeRules" /\ o \in RemoveAll(v, works)
         \/ t.pc = "restoreNetbios" /\ o \in RestoreDword(v, t.snap[i], works)
         \/ /\ t.pc = "restoreRdp" /\ v # "gone"
            /\ o \in RestoreDword(v, t.snap[i], works)
  PROVE  RestoresWell(t, e, i, v, o)
<1>1. CASE t.pc = "restoreProfiles" /\ o \in RestoreProfile(v, t.snap[i], works)
  <2>1. o.ok => o.val = t.snap[i]
    BY <1>1 DEF RestoreProfile, Outcome
  <2> QED BY <1>1, <2>1 DEF RestoresWell
<1>2. CASE t.pc = "removeRules" /\ o \in RemoveAll(v, works)
  <2>1. o.ok => o.val = <<>> \/ (~works /\ o.val \in LeftOvers(v))
    <3>1. CASE works
      BY <1>2, <3>1 DEF RemoveAll, Outcome
    <3>2. CASE ~works
      <4> DEFINE change == v # <<>>
      <4>1. \/ o = Outcome(v, FALSE, FALSE)
            \/ \E w \in LeftOvers(v) : o = Outcome(w, FALSE, change)
            \/ \E w \in LeftOvers(v) : o = Outcome(w, TRUE, w # v)
        BY <1>2, <3>2, Zenon DEF RemoveAll
      <4> HIDE DEF change
      <4> QED BY <3>2, <4>1 DEF Outcome
    <3> QED BY <3>1, <3>2
  <2> QED BY <1>2, <2>1 DEF RestoresWell
<1>3. CASE t.pc \in {"restoreRdp", "restoreNetbios"} /\ o \in RestoreDword(v, t.snap[i], works)
  <2>1. o.ok => o.val = t.snap[i] \/ (t.snap[i] = "none" /\ v = "gone" /\ o.val = "gone")
    BY <1>3 DEF RestoreDword, Outcome
  <2>2. t.pc = "restoreRdp" => v # "gone"
    BY <1>3
  <2> QED BY <1>3, <2>1, <2>2 DEF RestoresWell
<1> QED BY <1>1, <1>2, <1>3

LEMMA RulesRestoredWell ==
  ASSUME NEW t, NEW i, NEW v, NEW works \in BOOLEAN, NEW e, t.pc = "addRules",
         t.snap[i] \in Seq(RuleKinds), NEW o \in AddSavedRules(v, t.snap[i], works)
  PROVE  RestoresWell(t, e, i, v, o)
<1>1. ASSUME o.ok PROVE o.val = v \o t.snap[i]
  <2>1. CASE works
    BY <2>1 DEF AddSavedRules, Outcome
  <2>2. CASE ~works
    BY <1>1, <2>2 DEF AddSavedRules, Outcome
  <2> QED BY <2>1, <2>2
<1>2. v = <<>> => v \o t.snap[i] = t.snap[i]
  OBVIOUS
<1> QED BY <1>1, <1>2 DEF RestoresWell

\* ConfigureService reports success for the saved start type, and, if every
\* call works, for the saved run state.
LEMMA ConfiguredWell ==
  ASSUME NEW v \in ServiceStates, NEW type \in StartTypes, NEW run \in BOOLEAN,
         NEW works \in BOOLEAN, NEW o \in ConfigureService(v, type, run, works), o.ok
  PROVE  /\ o.val.start = type
         /\ works => (o.val.run = "stopped" <=> ~run)
<1> DEFINE demandFirst == run /\ type = "disabled"
           tries == IF works THEN {TRUE} ELSE BOOLEAN
           first(c) == IF ~c THEN v.start ELSE IF demandFirst THEN "demand" ELSE type
           last(c, d) == IF demandFirst /\ d THEN "disabled" ELSE first(c)
           moves(c) == IF run THEN StartOutcomes(v.run, first(c), works)
                       ELSE StopOutcomes(v.run, works)
<1>1. \/ \E c, d \in tries : \E m \in moves(c) :
           /\ o.val = [start |-> last(c, d), run |-> m[1]]
           /\ o.ok = (c /\ m[2] /\ (demandFirst => d))
      \/ ~works /\ o = [val |-> v, ok |-> FALSE]
  BY Zenon DEF ConfigureService
<1>2. PICK c \in tries, d \in tries : \E m \in moves(c) :
           /\ o.val = [start |-> last(c, d), run |-> m[1]]
           /\ o.ok = (c /\ m[2] /\ (demandFirst => d))
  <2>1. ~(~works /\ o = [val |-> v, ok |-> FALSE])
    OBVIOUS
  <2> HIDE DEF tries, first, last, moves, demandFirst
  <2> QED BY <1>1, <2>1
<1>3. PICK m \in moves(c) :
           /\ o.val = [start |-> last(c, d), run |-> m[1]]
           /\ o.ok = (c /\ m[2] /\ (demandFirst => d))
  BY <1>2
<1>4. c \in BOOLEAN /\ d \in BOOLEAN
  BY <1>2
<1>5. o.val.start = last(c, d) /\ o.val.run = m[1] /\ c /\ m[2] /\ (demandFirst => d)
  <2> HIDE DEF tries, first, last, moves, demandFirst
  <2>1. o.val.start = last(c, d) /\ o.val.run = m[1]
    BY <1>3
  <2>2. c /\ m[2] /\ (demandFirst => d)
    BY <1>3, Zenon
  <2> QED BY <2>1, <2>2
<1>6. last(c, d) = type
  BY <1>4, <1>5
<1>7. works => (m[1] = "stopped" <=> ~run)
  <2>1. CASE run /\ works
    <3>1. m \in StartOutcomes(v.run, first(c), works)
      BY <1>3, <2>1
    <3>2. (m = <<v.run, TRUE>> /\ v.run # "stopped") \/ m = <<"running", TRUE>>
      <4> HIDE DEF first
      <4>1. CASE v.run # "stopped"
        BY <2>1, <3>1, <4>1 DEF StartOutcomes
      <4>2. CASE v.run = "stopped"
        BY <2>1, <3>1, <4>2 DEF StartOutcomes
      <4> QED BY <4>1, <4>2
    <3>3. m[1] # "stopped"
      <4>1. <<v.run, TRUE>>[1] = v.run /\ <<"running", TRUE>>[1] = "running"
        OBVIOUS
      <4> QED BY <3>2, <4>1
    <3> QED BY <2>1, <3>3
  <2>2. CASE ~run /\ works
    <3>1. m \in StopOutcomes(v.run, works)
      BY <1>3, <2>2
    <3>2. v.run \in {"running", "stopping", "stopped"}
      BY DEF ServiceStates, RunStates
    <3>3. StopOutcomes(v.run, works) \subseteq {<<"stopped", TRUE>>, <<"stopped", FALSE>>}
      <4>1. v.run = "stopped" => StopOutcomes(v.run, works) = {<<"stopped", TRUE>>}
        BY Zenon DEF StopOutcomes
      <4>2. v.run = "running" => StopOutcomes(v.run, works) = {<<"stopped", TRUE>>}
        <5> SUFFICES ASSUME v.run = "running" PROVE StopOutcomes(v.run, works) = {<<"stopped", TRUE>>}
          OBVIOUS
        <5>1. v.run # "stopped"
          OBVIOUS
        <5> QED BY <2>2, <5>1, Zenon DEF StopOutcomes
      <4>3. v.run = "stopping" =>
              StopOutcomes(v.run, works) = {<<"stopped", TRUE>>, <<"stopped", FALSE>>}
        <5> SUFFICES ASSUME v.run = "stopping"
                     PROVE  StopOutcomes(v.run, works) = {<<"stopped", TRUE>>, <<"stopped", FALSE>>}
          OBVIOUS
        <5>1. v.run # "stopped" /\ v.run # "running"
          OBVIOUS
        <5> QED BY <2>2, <5>1, Zenon DEF StopOutcomes
      <4> QED BY <3>2, <4>1, <4>2, <4>3
    <3>4. m[1] = "stopped"
      <4>1. <<"stopped", TRUE>>[1] = "stopped" /\ <<"stopped", FALSE>>[1] = "stopped"
        OBVIOUS
      <4>2. m = <<"stopped", TRUE>> \/ m = <<"stopped", FALSE>>
        BY <3>1, <3>3
      <4> QED BY <4>1, <4>2
    <3> QED BY <2>2, <3>4
  <2> QED BY <2>1, <2>2
<1> HIDE DEF last, first, moves, tries, demandFirst
<1> QED BY <1>5, <1>6, <1>7

LEMMA ServiceRestoredWell ==
  ASSUME NEW t, NEW i \in ToSet(Services), NEW v \in ServiceStates, NEW works \in BOOLEAN,
         NEW e, e.clean => works, t.pc = "restoreServices",
         t.snap[i] \in ServiceStates, t.snap[i].run # "stopping",
         NEW o \in RestoreService(v, t.snap[i], works)
  PROVE  RestoresWell(t, e, i, v, o)
<1> DEFINE was == t.snap[i]
           run == was.run = "running"
<1>1. PICK r \in ConfigureService(v, was.start, run, works) : o = Outcome(r.val, r.ok, TRUE)
  BY Zenon DEF RestoreService
<1>2. o.val = r.val /\ o.ok = r.ok
  BY <1>1 DEF Outcome
<1>3. was.start \in StartTypes /\ run \in BOOLEAN /\ was.run \in {"running", "stopped"}
      /\ was = [start |-> was.start, run |-> was.run]
  BY DEF ServiceStates, RunStates
<1>4. ASSUME o.ok
      PROVE  /\ o.val.start = was.start
             /\ works => (o.val.run = "stopped" <=> ~run)
  <2>1. r.ok
    BY <1>2, <1>4
  <2> HIDE DEF run, was
  <2>2. r.val.start = was.start /\ (works => (r.val.run = "stopped" <=> ~run))
    BY <1>1, <1>3, <2>1, ConfiguredWell
  <2> QED BY <1>2, <2>2
<1>5. Saved(i, o.val) = [start |-> o.val.start, run |-> SavedRun(o.val.run)]
  BY KindsApart, Zenon DEF Saved
<1>6. ASSUME o.ok, e.clean PROVE Saved(i, o.val) = was
  <2>1. SavedRun(o.val.run) = was.run
    BY <1>3, <1>4, <1>6 DEF SavedRun
  <2> QED BY <1>3, <1>4, <1>5, <1>6, <2>1
<1> QED BY <1>4, <1>6 DEF RestoresWell
-----------------------------------------------------------------------------
(* Progress of a rollback.                                                 *)

\* The phases of a rollback are neither those of a repair nor before it.
LEMMA RollbackPhases ==
  /\ \A phase \in RestorePhases \cup {"after"} :
       /\ phase \notin EarlyPhases /\ phase \notin NotStarted
       /\ phase \in LatePhases => phase = "after"
       /\ phase \notin RepairPhases
  /\ \A phase \in RestorePhases : phase # "after"
  BY DEF EarlyPhases, LatePhases, NotStarted, RepairPhases, RestorePhases

LEMMA RollbackBegins ==
  ASSUME NEW t, NEW u, NEW e, NEW s, NEW b, NEW lost \in BOOLEAN, Progress(t, e, s, b, lost),
         t.pc = "load", t.mode = "rollback", u.pc = "restoreProfiles", u.mode = t.mode,
         u.snap = b.snap, u.todo = Profiles, SavedServices(b.snap)
  PROVE  Progress(u, e, s, b, lost)
<1>1. /\ u.pc \in RestorePhases /\ u.pc # "addRules" /\ u.pc # "restoreNetbios"
      /\ u.pc # "removeRules" /\ t.pc \in EarlyPhases
  BY DEF EarlyPhases, RestorePhases
<1>2. u.pc \notin EarlyPhases /\ u.pc \notin LatePhases /\ u.pc \notin NotStarted
  BY <1>1, RollbackPhases
<1>3. OnPath(u)
  BY <1>1, <1>2 DEF Progress, OnPath
<1>4. \A i \in Undisturbed(e) : s[i] = e.start[i]
  BY <1>1 DEF Progress, BeforeRollback
<1>5. Worked(u) = {}
  <2>1. Ahead(u.pc) = Items \ ToSet(Profiles) /\ Waiting(u) = ToSet(Profiles)
    BY <1>1, AheadByPhase DEF Waiting
  <2> QED BY <2>1 DEF Worked
<1>6. \A i : ~Emptied(u, i)
  BY <1>1 DEF Emptied
<1>7. DuringRollback(u, e, s, b)
  BY <1>4, <1>5, <1>6 DEF DuringRollback
<1> QED BY <1>1, <1>2, <1>3, <1>7
        DEF Progress, BeforeRepair, DuringRepair, BeforeRollback, FromBackup

\* A list of a rollback is worked off.
LEMMA RollbackGoesOn ==
  ASSUME NEW t, NEW u, NEW e, NEW s, NEW b, NEW lost \in BOOLEAN, Progress(t, e, s, b, lost),
         t.pc \in RestorePhases, u.pc \in RestorePhases \cup {"after"}, u.mode = t.mode,
         u.success = t.success, SavedServices(u.snap), FromBackup(u, b),
         \A i : Emptied(u, i) => Emptied(t, i),
         \A i, saved : Untouched(u, i, saved) => Untouched(t, i, saved),
         b.status = "valid" =>
           \A i \in Worked(u) : i \in Worked(t) \/ (i \in ToSet(Adapters) /\ b.snap[i] = "gone")
  PROVE  Progress(u, e, s, b, lost)
<1>1. u.pc \notin EarlyPhases /\ u.pc \notin NotStarted /\ t.mode # "repair"
  BY RollbackPhases DEF Progress, OnPath
<1>2. OnPath(u)
  BY <1>1 DEF Progress, OnPath
<1>3. DuringRollback(u, e, s, b)
  <2> SUFFICES ASSUME u.mode = "rollback", u.success, b.status = "valid", NEW i \in Undisturbed(e)
               PROVE  /\ i \in Worked(u) => Back(i, e, s, b.snap)
                      /\ Emptied(u, i) => Bare(e, i, s[i])
                      /\ Untouched(u, i, b.snap) => s[i] = e.start[i]
    BY DEF DuringRollback
  <2>1. /\ i \in Worked(t) => Back(i, e, s, b.snap)
        /\ Emptied(t, i) => Bare(e, i, s[i])
        /\ Untouched(t, i, b.snap) => s[i] = e.start[i]
    BY DEF Progress, DuringRollback
  <2>2. ASSUME i \in Worked(u), i \notin Worked(t) PROVE Back(i, e, s, b.snap)
    <3>1. i \in ToSet(Adapters) /\ b.snap[i] = "gone"
      BY <2>2
    <3>2. s[i] = e.start[i]
      BY <2>1, <3>1 DEF Untouched
    <3> QED BY <3>1, <3>2, BackAdapter
  <2> QED BY <2>1, <2>2
<1> QED BY <1>1, <1>2, <1>3
        DEF Progress, BeforeRepair, DuringRepair, BeforeRollback

\* Where a list of a rollback leads, and what is on the next one.
LEMMA RollbackLists ==
  /\ NextPhase["restoreProfiles"] = "removeRules" /\ NextPhase["removeRules"] = "addRules"
  /\ NextPhase["addRules"] = "restoreServices" /\ NextPhase["restoreServices"] = "restoreRdp"
  /\ NextPhase["restoreRdp"] = "restoreNetbios" /\ NextPhase["restoreNetbios"] = "after"
  /\ WorkList("removeRules") = Names /\ WorkList("addRules") = Names
  /\ WorkList("restoreServices") = Services /\ WorkList("restoreRdp") = <<RdpPolicy>>
<1>1. /\ NextPhase["restoreProfiles"] = "removeRules" /\ NextPhase["removeRules"] = "addRules"
      /\ NextPhase["addRules"] = "restoreServices" /\ NextPhase["restoreServices"] = "restoreRdp"
      /\ NextPhase["restoreRdp"] = "restoreNetbios" /\ NextPhase["restoreNetbios"] = "after"
  BY DEF NextPhase
<1>2. WorkList("removeRules") = Names /\ WorkList("addRules") = Names
  BY Zenon DEF WorkList
<1>3. WorkList("restoreServices") = Services /\ WorkList("restoreRdp") = <<RdpPolicy>>
  BY Zenon DEF WorkList
<1> QED BY <1>1, <1>2, <1>3

\* The lists of a rollback, one after the other.
LEMMA RollbackListDone ==
  ASSUME NEW t, NEW u, NEW e, NEW s, NEW b, NEW lost \in BOOLEAN, Progress(t, e, s, b, lost),
         t.pc \in RestorePhases, t.todo = <<>>, u.pc = NextPhase[t.pc],
         u.mode = t.mode, u.success = t.success,
         u.todo = IF u.pc = "restoreNetbios" THEN Present(t.snap) ELSE WorkList(u.pc),
         u.snap = IF u.pc = "after" THEN NoSettings ELSE t.snap,
         SavedServices(NoSettings)
  PROVE  Progress(u, e, s, b, lost)
<1> DEFINE P == ToSet(Profiles) N == ToSet(Names) S == ToSet(Services) A == ToSet(Adapters)
<1>1. /\ P \cap N = {} /\ P \cap S = {} /\ P \cap A = {} /\ RdpPolicy \notin P
      /\ N \cap S = {} /\ N \cap A = {} /\ RdpPolicy \notin N
      /\ S \cap A = {} /\ RdpPolicy \notin S /\ RdpPolicy \notin A
      /\ Items = P \cup N \cup S \cup {RdpPolicy} \cup A
  BY KindsApart
<1>2. Worked(t) = Items \ Ahead(t.pc)
  <2>1. Waiting(t) = {}
    BY DEF Waiting, ToSet
  <2> QED BY <2>1 DEF Worked
<1>3. SavedServices(u.snap) /\ (b.status = "valid" => t.snap = b.snap)
  BY DEF Progress, FromBackup
<1>4. \A i : i \notin ToSet(t.todo)
  BY DEF ToSet
<1>5. CASE t.pc = "restoreProfiles"
  <2>1. u.pc = "removeRules" /\ u.todo = Names /\ u.snap = t.snap
    BY <1>5, RollbackLists
  <2>2. u.pc \in RestorePhases /\ Waiting(u) = N
    BY <2>1 DEF RestorePhases, Waiting
  <2>3. Worked(u) = P /\ Worked(t) = P
    <3>1. Ahead(u.pc) = N \cup S \cup {RdpPolicy} \cup A /\ Ahead(t.pc) = Items \ P
      BY <1>5, <2>1, AheadByPhase
    <3> QED BY <1>1, <1>2, <2>2, <3>1 DEF Worked
  <2>4. FromBackup(u, b)
    BY <1>3, <2>1, HostAssumption DEF FromBackup
  <2>5. ASSUME NEW i PROVE ~Emptied(u, i)
    BY <2>1 DEF Emptied
  <2>6. ASSUME NEW i, NEW saved, Untouched(u, i, saved) PROVE Untouched(t, i, saved)
    BY <1>5, <2>1, <2>6 DEF Untouched, RestorePhases
  <2> HIDE DEF P, N, S, A
  <2> QED BY <1>3, <2>2, <2>3, <2>4, <2>5, <2>6, RollbackGoesOn
<1>6. CASE t.pc = "removeRules"
  <2>1. u.pc = "addRules" /\ u.todo = Names /\ u.snap = t.snap
    BY <1>6, RollbackLists
  <2>2. u.pc \in RestorePhases /\ Waiting(u) = N
    BY <2>1 DEF RestorePhases, Waiting
  <2>3. Worked(u) = P /\ Worked(t) = P
    <3>1. /\ Ahead(u.pc) = S \cup {RdpPolicy} \cup A
          /\ Ahead(t.pc) = N \cup S \cup {RdpPolicy} \cup A
      BY <1>6, <2>1, AheadByPhase
    <3> QED BY <1>1, <1>2, <2>2, <3>1 DEF Worked
  <2>4. FromBackup(u, b)
    BY <1>3, <2>1, HostAssumption DEF FromBackup
  <2>5. \A i : Emptied(u, i) => Emptied(t, i)
    BY <1>4, <1>6, <2>1 DEF Emptied
  <2>6. \A i, saved : Untouched(u, i, saved) => Untouched(t, i, saved)
    BY <1>6, <2>1 DEF Untouched, RestorePhases
  <2> HIDE DEF P, N, S, A
  <2> QED BY <1>3, <2>2, <2>3, <2>4, <2>5, <2>6, RollbackGoesOn
<1>7. CASE t.pc = "addRules"
  <2>1. u.pc = "restoreServices" /\ u.todo = Services /\ u.snap = t.snap
    BY <1>7, RollbackLists
  <2>2. u.pc \in RestorePhases /\ Waiting(u) = S
    BY <2>1 DEF RestorePhases, Waiting
  <2>3. Worked(u) = Worked(t)
    <3>1. /\ Ahead(u.pc) = {RdpPolicy} \cup A
          /\ Ahead(t.pc) = S \cup {RdpPolicy} \cup A
      BY <1>7, <2>1, AheadByPhase
    <3> QED BY <1>2, <2>2, <3>1 DEF Worked
  <2>4. FromBackup(u, b)
    BY <1>3, <2>1 DEF FromBackup
  <2>5. \A i : ~Emptied(u, i)
    BY <2>1 DEF Emptied
  <2>6. \A i, saved : Untouched(u, i, saved) => Untouched(t, i, saved)
    BY <1>7, <2>1 DEF Untouched, RestorePhases
  <2> HIDE DEF P, N, S, A
  <2> QED BY <1>3, <2>2, <2>3, <2>4, <2>5, <2>6, RollbackGoesOn
<1>8. CASE t.pc = "restoreServices"
  <2>1. u.pc = "restoreRdp" /\ u.todo = <<RdpPolicy>> /\ u.snap = t.snap
    BY <1>8, RollbackLists
  <2>2. u.pc \in RestorePhases /\ Waiting(u) = {RdpPolicy}
    BY <2>1 DEF RestorePhases, Waiting, ToSet
  <2>3. Worked(u) = Worked(t)
    <3>1. Ahead(u.pc) = A /\ Ahead(t.pc) = {RdpPolicy} \cup A
      BY <1>8, <2>1, AheadByPhase
    <3> QED BY <1>2, <2>2, <3>1 DEF Worked
  <2>4. FromBackup(u, b)
    BY <1>3, <2>1 DEF FromBackup
  <2>5. \A i : ~Emptied(u, i)
    BY <2>1 DEF Emptied
  <2>6. \A i, saved : Untouched(u, i, saved) => Untouched(t, i, saved)
    BY <1>8, <2>1 DEF Untouched, RestorePhases
  <2> HIDE DEF P, N, S, A
  <2> QED BY <1>3, <2>2, <2>3, <2>4, <2>5, <2>6, RollbackGoesOn
<1>9. CASE t.pc = "restoreRdp"
  <2>1. u.pc = "restoreNetbios" /\ u.todo = Present(t.snap) /\ u.snap = t.snap
    BY <1>9, RollbackLists
  <2>2. u.pc \in RestorePhases /\ Waiting(u) = {a \in A : t.snap[a] # "gone"}
    BY <2>1, PresentElements DEF RestorePhases, Waiting
  <2>3. /\ \A i \in Worked(u) : i \in Worked(t) \/ (i \in A /\ t.snap[i] = "gone")
    <3>1. Ahead(u.pc) = {} /\ Ahead(t.pc) = A
      BY <1>9, <2>1, AheadByPhase
    <3> QED BY <1>2, <2>2, <3>1 DEF Worked
  <2>4. FromBackup(u, b)
    BY <1>3, <2>1, PresentElements DEF FromBackup
  <2>5. \A i : ~Emptied(u, i)
    BY <2>1 DEF Emptied
  <2>6. \A i, saved : Untouched(u, i, saved) => Untouched(t, i, saved)
    BY <1>9, <2>1 DEF Untouched, RestorePhases
  <2>7. b.status = "valid" =>
          \A i \in Worked(u) : i \in Worked(t) \/ (i \in A /\ b.snap[i] = "gone")
    BY <1>3, <2>3
  <2> QED BY <1>3, <2>2, <2>4, <2>5, <2>6, <2>7, RollbackGoesOn
<1>10. CASE t.pc = "restoreNetbios"
  <2>1. u.pc = "after"
    BY <1>10, RollbackLists
  <2>2. u.pc \notin RestorePhases /\ Worked(t) = Items /\ Worked(u) \subseteq Items
    BY <1>2, <1>10, <2>1, AheadByPhase DEF RestorePhases, Worked
  <2>3. FromBackup(u, b)
    BY <2>1, <2>2 DEF FromBackup
  <2>4. \A i : ~Emptied(u, i)
    BY <2>1 DEF Emptied
  <2>5. \A i, saved : Untouched(u, i, saved) => Untouched(t, i, saved)
    BY <2>1, <2>2 DEF Untouched
  <2> HIDE DEF P, N, S, A
  <2> QED BY <1>3, <2>1, <2>2, <2>3, <2>4, <2>5, RollbackGoesOn
<1> QED BY <1>5, <1>6, <1>7, <1>8, <1>9, <1>10 DEF RestorePhases

\* An attempt of a rollback.
LEMMA RollbackAttempt ==
  ASSUME NEW t \in Tasks, NEW e, NEW s \in Settings, NEW b, NEW lost \in BOOLEAN,
         Progress(t, e, s, b, lost),
         t.pc \in RestorePhases, t.todo # <<>>,
         NEW o \in OutcomesIn(ValueOf(Head(t.todo))),
         RestoresWell(t, e, Head(t.todo), s[Head(t.todo)], o)
  PROVE  Progress(Tried(t, o.ok, o.changed), e, [s EXCEPT ![Head(t.todo)] = o.val], b, lost)
<1> DEFINE i == Head(t.todo)
           v == s[i]
           u == Tried(t, o.ok, o.changed)
           s2 == [s EXCEPT ![i] = o.val]
<1>1. t \in Records /\ TodoFits(t.pc, t.todo) /\ t.todo \in Seq(Items)
  BY DEF Tasks, TodoFits
<1>2. /\ i \in Items /\ i \in ToSet(t.todo)
      /\ ToSet(Tail(t.todo)) \subseteq ToSet(t.todo)
      /\ ToSet(t.todo) \subseteq {i} \cup ToSet(Tail(t.todo))
  BY <1>1, HeadAndTail
<1>3. /\ u.pc = t.pc /\ u.mode = t.mode /\ u.snap = t.snap
      /\ u.todo = Tail(t.todo) /\ u.success = (t.success /\ o.ok)
  BY <1>1 DEF Tried, Records
<1>4. s2[i] = o.val /\ \A j \in Items : j # i => s2[j] = s[j]
  BY <1>2 DEF Settings
<1>5. o.ok \in BOOLEAN /\ t.success \in BOOLEAN
  BY <1>1 DEF OutcomesIn, Records
<1>6. /\ t.pc \notin EarlyPhases /\ t.pc \notin NotStarted /\ t.pc # "after"
      /\ t.pc \notin LatePhases /\ t.mode # "repair"
  BY RollbackPhases DEF Progress, OnPath
<1>7. /\ t.pc = "restoreProfiles" => i \in ToSet(Profiles)
      /\ t.pc \in {"removeRules", "addRules"} => i \in ToSet(Names)
      /\ t.pc = "restoreServices" => i \in ToSet(Services)
      /\ t.pc = "restoreRdp" => i = RdpPolicy
      /\ t.pc = "restoreNetbios" => i \in ToSet(Adapters)
  BY <1>1, FitsHeadAndTail
<1>8. FromBackup(u, b) /\ FromBackup(t, b)
  <2>1. FromBackup(t, b)
    BY DEF Progress
  <2>2. ASSUME t.pc \in {"removeRules", "addRules"}, NEW j \in DOMAIN Tail(t.todo), NEW k \in DOMAIN Tail(t.todo),
               Tail(t.todo)[j] = Tail(t.todo)[k]
        PROVE  j = k
    <3>1. /\ j \in Nat /\ k \in Nat /\ j + 1 \in DOMAIN t.todo /\ k + 1 \in DOMAIN t.todo
          /\ Tail(t.todo)[j] = t.todo[j + 1] /\ Tail(t.todo)[k] = t.todo[k + 1]
      BY <1>1, <2>2
    <3>2. j + 1 = k + 1
      BY <2>1, <2>2, <3>1 DEF FromBackup
    <3> QED BY <3>1, <3>2
  <2> HIDE DEF u
  <2> QED BY <1>2, <1>3, <2>1, <2>2 DEF FromBackup
<1>9. t.pc \in {"removeRules", "addRules"} => i \notin ToSet(Tail(t.todo))
  <2> SUFFICES ASSUME t.pc \in {"removeRules", "addRules"}, NEW k \in DOMAIN Tail(t.todo), Tail(t.todo)[k] = i
               PROVE  FALSE
    BY DEF ToSet
  <2>1. /\ k \in Nat /\ k # 0 /\ k + 1 \in DOMAIN t.todo /\ 1 \in DOMAIN t.todo
        /\ Tail(t.todo)[k] = t.todo[k + 1] /\ i = t.todo[1]
    BY <1>1
  <2>2. k + 1 = 1
    BY <1>8, <2>1 DEF FromBackup
  <2> QED BY <2>1, <2>2
<1> HIDE DEF u, s2, i
<1>10. /\ Worked(u) \subseteq Worked(t) \cup {i}
       /\ \A j : j # i /\ Emptied(u, j) => Emptied(t, j)
       /\ \A j, saved : Untouched(u, j, saved) => Untouched(t, j, saved)
  <2>1. Waiting(u) = ToSet(u.todo) /\ Waiting(t) = ToSet(t.todo)
    BY <1>3 DEF Waiting
  <2>2. Worked(u) \subseteq Worked(t) \cup {i}
    BY <1>2, <1>3, <2>1 DEF Worked
  <2>3. \A j : j # i /\ Emptied(u, j) => Emptied(t, j)
    BY <1>2, <1>3 DEF Emptied
  <2>4. \A j, saved : Untouched(u, j, saved) => Untouched(t, j, saved)
    BY <1>2, <1>3 DEF Untouched
  <2> QED BY <2>2, <2>3, <2>4
<1>11. DuringRollback(u, e, s2, b)
  <2> SUFFICES ASSUME u.mode = "rollback", u.success, b.status = "valid", NEW j \in Undisturbed(e)
               PROVE  /\ j \in Worked(u) => Back(j, e, s2, b.snap)
                      /\ Emptied(u, j) => Bare(e, j, s2[j])
                      /\ Untouched(u, j, b.snap) => s2[j] = e.start[j]
    BY DEF DuringRollback
  <2>1. t.success /\ o.ok
    BY <1>3, <1>5
  <2>2. /\ j \in Worked(t) => Back(j, e, s, b.snap)
        /\ Emptied(t, j) => Bare(e, j, s[j])
        /\ Untouched(t, j, b.snap) => s[j] = e.start[j]
    BY <1>3, <2>1 DEF Progress, DuringRollback
  <2>3. CASE j # i
    <3>1. j \in Items /\ s2[j] = s[j]
      BY <1>4, <2>3 DEF Undisturbed
    <3>2. Back(j, e, s, b.snap) => Back(j, e, s2, b.snap)
      BY <3>1, BackWeaker
    <3> QED BY <1>10, <2>2, <2>3, <3>1, <3>2
  <2>4. CASE j = i
    <3>1. t.snap = b.snap
      BY <1>8 DEF FromBackup
    <3>2. /\ t.pc = "removeRules" => o.val = <<>> \/ (i \in e.hidden /\ o.val \in LeftOvers(v))
          /\ t.pc = "addRules" => o.val = v \o t.snap[i] /\ (v = <<>> => o.val = t.snap[i])
          /\ t.pc \in {"restoreProfiles", "restoreRdp"} => o.val = t.snap[i]
          /\ t.pc = "restoreServices" =>
               o.val.start = t.snap[i].start /\ (e.clean => Saved(i, o.val) = t.snap[i])
          /\ t.pc = "restoreNetbios" =>
               o.val = t.snap[i] \/ (t.snap[i] = "none" /\ o.val = "gone")
      BY <2>1 DEF RestoresWell, i
    <3>3. CASE t.pc \in {"restoreProfiles", "restoreRdp"}
      <4>1. i \in ToSet(Profiles) \cup {RdpPolicy} /\ i \notin ToSet(Adapters)
        BY <1>7, <3>3, KindsApart
      <4>2. s2[i] = b.snap[i]
        BY <1>4, <3>1, <3>2, <3>3
      <4>3. Back(i, e, s2, b.snap)
        BY <4>1, <4>2, BackPlain DEF Readded
      <4>4. ~Emptied(u, i) /\ ~Untouched(u, i, b.snap)
        BY <1>3, <1>7, <3>3, <4>1, KindsApart DEF Emptied, Untouched
      <4> QED BY <2>4, <4>3, <4>4
    <3>4. CASE t.pc = "removeRules"
      <4>1. i \notin Worked(u)
        BY <1>3, <1>7, <3>4, AheadByPhase DEF Worked
      <4>2. ~Untouched(u, i, b.snap)
        BY <1>3, <1>7, <1>9, <3>4, KindsApart DEF Untouched
      <4>3. Bare(e, i, s2[i])
        <5>1. v = e.start[i]
          BY <1>2, <2>2, <2>4, <3>4 DEF Untouched
        <5> QED BY <1>4, <3>2, <3>4, <5>1 DEF Bare
      <4> QED BY <2>4, <4>1, <4>2, <4>3
    <3>5. CASE t.pc = "addRules"
      <4>1. i \in ToSet(Names) /\ i \notin ToSet(Adapters)
        BY <1>7, <3>5, KindsApart
      <4>2. ~Emptied(u, i) /\ ~Untouched(u, i, b.snap)
        BY <1>3, <1>9, <3>5, <4>1 DEF Emptied, Untouched
      <4>3. Emptied(t, i)
        BY <1>2, <3>5 DEF Emptied
      <4>4. Readded(e, i, s2[i], b.snap[i])
        BY <1>4, <2>2, <2>4, <3>1, <3>2, <3>5, <4>3 DEF Bare, Readded
      <4>5. Back(i, e, s2, b.snap)
        BY <4>1, <4>4, BackPlain
      <4> QED BY <2>4, <4>2, <4>5
    <3>6. CASE t.pc = "restoreServices"
      <4>1. i \in ToSet(Services) /\ i \notin ToSet(Adapters)
        BY <1>7, <3>6, KindsApart
      <4>2. ~Emptied(u, i) /\ ~Untouched(u, i, b.snap)
        BY <1>3, <3>6, <4>1 DEF Emptied, Untouched
      <4>3. /\ s2[i].start = b.snap[i].start
            /\ e.clean => Saved(i, s2[i]) = b.snap[i]
        BY <1>4, <3>1, <3>2, <3>6
      <4>4. Back(i, e, s2, b.snap)
        BY <4>1, <4>3, BackService
      <4> QED BY <2>4, <4>2, <4>4
    <3>7. CASE t.pc = "restoreNetbios"
      <4>1. i \in ToSet(Adapters) /\ b.snap[i] # "gone"
        BY <1>2, <1>7, <1>8, <3>1, <3>7 DEF FromBackup
      <4>2. ~Emptied(u, i) /\ ~Untouched(u, i, b.snap)
        BY <1>3, <3>7, <4>1 DEF Emptied, Untouched
      <4>3. s2[i] = b.snap[i] \/ (b.snap[i] = "none" /\ s2[i] = "gone")
        BY <1>4, <3>1, <3>2, <3>7
      <4>4. Back(i, e, s2, b.snap)
        BY <4>1, <4>3, BackAdapter
      <4> QED BY <2>4, <4>2, <4>4
    <3> QED BY <3>3, <3>4, <3>5, <3>6, <3>7 DEF RestorePhases
  <2> QED BY <2>3, <2>4
<1>12. OnPath(u) /\ SavedServices(u.snap)
  BY <1>3, <1>6 DEF Progress, OnPath
<1>13. BeforeRepair(u, e, s2, b, lost) /\ BeforeRollback(u, e, s2) /\ DuringRepair(u, e, s2, lost)
  BY <1>3, <1>6 DEF BeforeRepair, BeforeRollback, DuringRepair
<1> QED BY <1>8, <1>11, <1>12, <1>13 DEF Progress, u, s2, i
-----------------------------------------------------------------------------
(* Progress is kept by every step.                                         *)

Ready ==
  /\ Typed /\ Exclusive
  /\ seen \in [Proc -> Observations] /\ backupLost \in BOOLEAN
  /\ ProgressInv

\* The step of p leaves p as far as it says, on the machine as it is then.
Keeps(p) ==
  \E t \in Tasks :
    Update(p, t) /\ Progress(t, seen'[p], sys', backup', backupLost)

\* A process that does not work is not disturbed by anything.
LEMMA RestStays ==
  ASSUME NEW t, NEW e, NEW s, NEW b, NEW lost, Progress(t, e, s, b, lost),
         t.pc \in {"out", "refused"}, NEW e2, NEW s2, NEW b2, NEW lost2
  PROVE  Progress(t, e2, s2, b2, lost2)
<1>1. t.pc \notin EarlyPhases \cup LatePhases \cup RestorePhases
  BY PhaseSets
<1>2. t.pc \notin NotStarted /\ t.pc # "addRules" /\ t.pc # "restoreNetbios" /\ t.pc # "after"
  BY <1>1, PhaseSets
<1> QED BY <1>1, <1>2 DEF Progress, OnPath, BeforeRepair, DuringRepair, BeforeRollback,
          FromBackup, DuringRollback

LEMMA NothingSaved == SavedServices(NoSettings)
<1> SUFFICES ASSUME NEW i \in ToSet(Services) PROVE NoSettings[i].run # "stopping"
  BY DEF SavedServices
<1> DEFINE P == ToSet(Profiles) N == ToSet(Names) S == ToSet(Services)
           v == NoSettings[i]
<1>1. i \in Items /\ i \in S /\ i \notin P /\ i \notin N /\ i # RdpPolicy
  BY KindsApart
<1>2. v = CASE i \in P -> "off" [] i \in N -> <<>> [] i \in S -> Hardened
            [] i = RdpPolicy -> "none" [] OTHER -> "gone"
  BY <1>1, Zenon DEF NoSettings
<1> HIDE DEF P, N, S, v
<1>3. v = Hardened
  BY <1>1, <1>2, Zenon
<1> QED BY <1>3 DEF Hardened, v

\* What the calls of a step do to what is seen of its process.
LEMMA CallsSeen ==
  ASSUME Ready, NEW p \in Proc,
         (\E works \in BOOLEAN : Calls(p, works) \/ Walks(p, works)) \/ seen' = seen
  PROVE  /\ seen' \in [Proc -> Observations]
         /\ \A q \in Proc : q # p => seen'[q] = seen[q]
         /\ seen'[p].hadBackup \in BOOLEAN /\ seen'[p].clean \in BOOLEAN
         /\ Progress(task[p], seen'[p], sys, backup, backupLost)
<1> DEFINE e == seen[p]
           e2 == seen'[p]
<1>1. /\ Progress(task[p], e, sys, backup, backupLost) /\ e \in Observations
      /\ seen \in [Proc -> Observations] /\ backupLost \in BOOLEAN
  BY DEF Ready, ProgressInv
<1>2. CASE seen' = seen
  BY <1>1, <1>2 DEF Observations
<1>3. ASSUME NEW works \in BOOLEAN, NEW names \in SUBSET Items, CallsOn(p, works, names)
      PROVE  /\ seen' \in [Proc -> Observations]
             /\ \A q \in Proc : q # p => seen'[q] = seen[q]
             /\ seen'[p].hadBackup \in BOOLEAN /\ seen'[p].clean \in BOOLEAN
             /\ Progress(task[p], seen'[p], sys, backup, backupLost)
  <2> DEFINE c == e.clean /\ works
             h == IF works THEN e.hidden ELSE e.hidden \cup names
  <2>1. /\ seen' = [seen EXCEPT ![p] = [e EXCEPT !.clean = c, !.hidden = h]]
        /\ c \in BOOLEAN
    BY <1>3 DEF CallsOn
  <2>2. (c => e.clean) /\ h \in SUBSET Items /\ e.hidden \subseteq h
    BY <1>1 DEF Observations
  <2> HIDE DEF c, h
  <2>3. [e EXCEPT !.clean = c, !.hidden = h] \in Observations
    BY <1>1, <2>1, <2>2 DEF Observations
  <2>4. /\ seen' \in [Proc -> Observations] /\ e2 = [e EXCEPT !.clean = c, !.hidden = h]
        /\ \A q \in Proc : q # p => seen'[q] = seen[q]
    BY <1>1, <2>1, <2>3
  <2>5. /\ e2.start = e.start /\ e2.hadBackup = e.hadBackup /\ e2.disturbed = e.disturbed
        /\ e2.clean = c /\ e2.hidden = h /\ e2 \in Observations
    BY <1>1, <2>3, <2>4 DEF Observations
  <2>6. e2.hadBackup \in BOOLEAN /\ e2.clean \in BOOLEAN
    BY <2>5 DEF Observations
  <2> HIDE DEF e, e2
  <2>7. Progress(task[p], e2, sys, backup, backupLost)
    BY <1>1, <2>2, <2>5, ProgressUndisturbed
  <2> QED BY <2>4, <2>6, <2>7 DEF e2
<1>4. ASSUME NEW works \in BOOLEAN, Calls(p, works) \/ Walks(p, works)
      PROVE  \E names \in SUBSET Items : CallsOn(p, works, names)
  <2>1. ToSet(Names) \subseteq Items
    BY ItemKinds
  <2> QED BY <1>4, <2>1 DEF Calls, Walks
<1> HIDE DEF e, e2
<1> QED BY <1>2, <1>3, <1>4

\* A step that leaves its process clean works; one that walks through rules
\* and does not, may have missed some.
LEMMA CleanCalls ==
  ASSUME Ready, NEW p \in Proc, NEW works \in BOOLEAN, Calls(p, works) \/ Walks(p, works)
  PROVE  /\ seen'[p].clean => works
         /\ Walks(p, works) /\ ~works /\ Head(task[p].todo) \in ToSet(Names) =>
              Head(task[p].todo) \in seen'[p].hidden
<1> DEFINE e == seen[p]
           i == Head(task[p].todo)
<1>1. seen \in [Proc -> Observations] /\ e \in Observations
  BY DEF Ready
<1>2. ASSUME NEW names, CallsOn(p, works, names)
      PROVE  /\ seen'[p].clean => works
             /\ ~works => names \subseteq seen'[p].hidden
  <2> DEFINE c == e.clean /\ works
             h == IF works THEN e.hidden ELSE e.hidden \cup names
  <2>1. seen'[p] = [e EXCEPT !.clean = c, !.hidden = h]
    BY <1>1, <1>2 DEF CallsOn
  <2> HIDE DEF c, h, e
  <2>2. seen'[p].clean = c /\ seen'[p].hidden = h
    BY <1>1, <2>1 DEF Observations
  <2> QED BY <2>2 DEF c, h
<1>3. seen'[p].clean => works
  BY <1>2 DEF Calls, Walks
<1>4. ASSUME Walks(p, works), ~works, i \in ToSet(Names)
      PROVE  i \in seen'[p].hidden
  <2>1. {i} \cap ToSet(Names) \subseteq seen'[p].hidden
    BY <1>2, <1>4 DEF Walks
  <2> QED BY <1>4, <2>1
<1> QED BY <1>3, <1>4

\* The task of a step, as far as progress looks at it.
LEMMA AtFields ==
  ASSUME NEW t \in Tasks, NEW phase \in Phases
  PROVE  LET u == At(t, phase) IN
         /\ u \in Tasks /\ u \in Records /\ u.pc = phase /\ u.todo = WorkList(phase)
         /\ u.mode = t.mode /\ u.success = t.success /\ u.changed = t.changed
         /\ u.preserve = t.preserve /\ u.snap = t.snap /\ u.code = t.code
<1>1. At(t, phase) \in Tasks /\ At(t, phase) \in Records
  BY AtTyped DEF Tasks
<1>2. t \in Records
  BY DEF Tasks
<1> QED BY <1>1, <1>2 DEF At, Records

LEMMA GiveUpKeeps ==
  ASSUME Ready, NEW p \in Proc, Update(p, GiveUp(p))
  PROVE  Keeps(p)
<1> DEFINE g == At(task[p], "after")
           u == GiveUp(p)
<1>1. Typed /\ task[p] \in Tasks /\ "after" \in Phases
  BY DEF Ready, Typed, Phases
<1>2. g \in Records /\ g.pc = "after"
  BY <1>1, AtFields
<1>3. u = [g EXCEPT !.success = FALSE, !.snap = NoSettings]
  BY <1>1, GotoTyped DEF GiveUp
<1>4. u \in Tasks
  BY <1>1, GiveUpTyped
<1> HIDE DEF g
<1>5. u.pc = "after" /\ ~u.success /\ u.snap = NoSettings
  BY <1>2, <1>3 DEF Records
<1> HIDE DEF u
<1>6. SavedServices(u.snap)
  BY <1>5, NothingSaved
<1>7. Progress(u, seen'[p], sys', backup', backupLost)
  BY <1>5, <1>6, FailedProgress
<1> QED BY <1>4, <1>7 DEF Keeps, u

\* After the second audit nothing more is written.
LEMMA EndPhases ==
  ASSUME NEW t, t.pc \in {"after", "report", "upload", "pause", "exit"}
  PROVE  /\ Worked(t) = Items /\ t.pc \in LatePhases
         /\ t.pc \notin RepairPhases \cup {"adapters"}
         /\ \A i : ~Listed(t, i)
<1>1. /\ t.pc \in LatePhases /\ t.pc \notin RepairPhases \cup RestorePhases \cup {"adapters"}
      /\ t.pc # "netbios"
  BY DEF LatePhases, RepairPhases, RestorePhases
<1>2. Ahead(t.pc) = {} /\ Waiting(t) = {}
  BY <1>1, AheadByPhase DEF Waiting
<1> QED BY <1>1, <1>2 DEF Worked, Listed

LEMMA EndGoesOn ==
  ASSUME NEW t, NEW u, NEW e, NEW s, NEW b, NEW lost \in BOOLEAN, Progress(t, e, s, b, lost),
         t.pc \in {"after", "report", "upload", "pause"},
         u.pc \in {"report", "upload", "pause", "exit"},
         u.mode = t.mode, u.success = t.success, u.changed = t.changed,
         u.preserve = t.preserve, u.snap = t.snap
  PROVE  Progress(u, e, s, b, lost)
<1>1. /\ Worked(u) \subseteq Worked(t) /\ t.pc \in LatePhases /\ u.pc \in LatePhases
      /\ u.pc \notin RepairPhases \cup {"adapters"} /\ u.pc # "after"
      /\ \A i : ~Listed(u, i)
      /\ \A i : ~Listed(t, i)
  BY EndPhases
<1>2. SavedServices(u.snap)
  BY DEF Progress
<1> QED BY <1>1, <1>2, RepairGoesOn

LEMMA AbortKeeps ==
  ASSUME Ready, NEW p \in Proc, Update(p, Abort(p)), task[p].pc \in {"before", "after", "report"},
         Progress(task[p], seen'[p], sys, backup, backupLost),
         UNCHANGED <<sys, backup>>
  PROVE  Keeps(p)
<1> DEFINE t == task[p]
           u == Abort(p)
<1>1. Typed /\ t \in Records /\ backupLost \in BOOLEAN
  BY DEF Ready, Typed, Tasks
<1>2. u \in Tasks /\ u.pc \in {"pause", "exit"}
  BY <1>1, AbortTyped
<1>3. /\ u.mode = t.mode /\ u.success = t.success /\ u.changed = t.changed
      /\ u.preserve = t.preserve /\ u.snap = t.snap
  BY <1>1 DEF Abort, Records
<1> HIDE DEF u, t
<1>4. Progress(u, seen'[p], sys, backup, backupLost)
  <2>1. CASE t.pc = "before"
    <3>1. ~u.success /\ SavedServices(u.snap)
      BY <1>3, <2>1 DEF Progress, OnPath, NotStarted, t
    <3> QED BY <1>2, <3>1, FailedProgress
  <2>2. CASE t.pc \in {"after", "report"}
    BY <1>1, <1>2, <1>3, <2>2, EndGoesOn DEF t
  <2> QED BY <2>1, <2>2 DEF t
<1> QED BY <1>2, <1>4 DEF Keeps, u
-----------------------------------------------------------------------------
(* The steps before a repair or a rollback.                                *)

LEMMA AuditBeforeKeeps ==
  ASSUME Ready, NEW p \in Proc, AuditBefore(p)
  PROVE  Keeps(p)
<1> DEFINE t == task[p]
<1>1. /\ Typed /\ t \in Tasks /\ t \in Records /\ t.pc = "before" /\ backupLost \in BOOLEAN
      /\ UNCHANGED <<sys, backup>>
  BY DEF Ready, Typed, Tasks, AuditBefore, HostUnchanged
<1>2. Progress(t, seen'[p], sys, backup, backupLost)
  BY CallsSeen DEF AuditBefore
<1>3. CASE Update(p, Abort(p))
  BY <1>1, <1>2, <1>3, AbortKeeps
<1>4. ASSUME NEW c \in {0, 5}, NEW phase \in {"report", "confirm", "authorize"},
             Update(p, [t EXCEPT !.code = c, !.pc = phase])
      PROVE  Keeps(p)
  <2> DEFINE u == [t EXCEPT !.code = c, !.pc = phase]
  <2>1. u \in Records /\ u.pc = phase /\ u.todo \in Seq(Items)
    BY <1>1 DEF Records, Phases
  <2>2. u \in Tasks
    BY <2>1 DEF Tasks, TodoFits
  <2>3. u.mode = t.mode /\ u.success = t.success /\ u.changed = t.changed /\ u.snap = t.snap
    BY <1>1 DEF Records
  <2> HIDE DEF u, t
  <2>4. ~u.success /\ SavedServices(u.snap) /\ t.pc \in NotStarted
    BY <1>1, <1>2, <2>3 DEF Progress, OnPath, NotStarted
  <2>5. Progress(u, seen'[p], sys, backup, backupLost)
    <3>1. CASE phase = "report"
      BY <2>1, <2>4, <3>1, FailedProgress
    <3>2. CASE phase \in {"confirm", "authorize"}
      <4>1. u.pc \in NotStarted
        BY <2>1, <3>2 DEF NotStarted
      <4> QED BY <1>1, <1>2, <2>3, <2>4, <4>1, EarlyProgress
    <3> QED BY <3>1, <3>2
  <2> QED BY <1>1, <1>4, <2>2, <2>5 DEF Keeps, u
<1>5. \/ Update(p, Abort(p))
      \/ \E failed \in BOOLEAN : Update(p, [t EXCEPT
                  !.code = IF failed THEN 5 ELSE 0,
                  !.pc = IF task[p].mode = "audit" THEN "report"
                         ELSE IF task[p].tool = "onsite" THEN "confirm" ELSE "authorize"])
  BY DEF AuditBefore
<1> HIDE DEF t
<1> QED BY <1>3, <1>4, <1>5

LEMMA ConfirmKeeps ==
  ASSUME Ready, NEW p \in Proc, Confirm(p)
  PROVE  Keeps(p)
<1> DEFINE t == task[p]
<1>1. /\ Typed /\ t \in Tasks /\ t.pc = "confirm" /\ backupLost \in BOOLEAN
      /\ UNCHANGED <<sys, backup>>
  BY DEF Ready, Typed, Confirm, HostUnchanged
<1>2. Progress(t, seen'[p], sys, backup, backupLost)
  BY CallsSeen DEF Confirm
<1>3. PICK answer \in {"authorize", "report"} : Update(p, At(t, answer))
  BY DEF Confirm, Goto, At
<1> DEFINE u == At(t, answer)
<1>4. answer \in Phases
  BY DEF Phases
<1>5. /\ u \in Tasks /\ u.pc = answer /\ u.mode = t.mode /\ u.success = t.success
      /\ u.changed = t.changed /\ u.snap = t.snap
  BY <1>1, <1>4, AtFields
<1> HIDE DEF u, t
<1>6. ~u.success /\ SavedServices(u.snap) /\ t.pc \in NotStarted
  BY <1>1, <1>2, <1>5 DEF Progress, OnPath, NotStarted
<1>7. Progress(u, seen'[p], sys, backup, backupLost)
  <2>1. CASE answer = "report"
    BY <1>5, <1>6, <2>1, FailedProgress
  <2>2. CASE answer = "authorize"
    <3>1. u.pc \in NotStarted
      BY <1>5, <2>2 DEF NotStarted
    <3> QED BY <1>1, <1>2, <1>5, <1>6, <3>1, EarlyProgress
  <2> QED BY <2>1, <2>2
<1> QED BY <1>1, <1>3, <1>5, <1>7 DEF Keeps, u

LEMMA AuthorizeKeeps ==
  ASSUME Ready, NEW p \in Proc, Authorize(p)
  PROVE  Keeps(p)
<1> DEFINE t == task[p]
<1>1. /\ Typed /\ t \in Tasks /\ t.pc = "authorize" /\ backupLost \in BOOLEAN
      /\ UNCHANGED <<sys, backup>>
  BY DEF Ready, Typed, Authorize, HostUnchanged
<1>2. Progress(t, seen'[p], sys, backup, backupLost)
  BY CallsSeen DEF Authorize
<1>3. ~t.success /\ SavedServices(t.snap) /\ t.pc \in NotStarted
  BY <1>1, <1>2 DEF Progress, OnPath, NotStarted
<1>4. CASE Update(p, [Goto(p, "load") EXCEPT !.success = TRUE])
  <2> DEFINE g == At(t, "load")
             u == [g EXCEPT !.success = TRUE]
  <2>1. "load" \in Phases
    BY DEF Phases
  <2>2. /\ g \in Tasks /\ g \in Records /\ g.pc = "load" /\ g.mode = t.mode
        /\ g.changed = t.changed /\ g.snap = t.snap
    BY <1>1, <2>1, AtFields
  <2>3. Update(p, u)
    BY <1>1, <1>4, <2>1, GotoTyped
  <2> HIDE DEF g
  <2>4. u \in Tasks
    BY <2>2, FieldsTyped, Zenon
  <2>5. u.pc = "load" /\ u.mode = t.mode /\ u.changed = t.changed /\ u.snap = t.snap
    BY <2>2 DEF Records
  <2> HIDE DEF u, t
  <2>6. Progress(u, seen'[p], sys, backup, backupLost)
    BY <1>1, <1>2, <1>3, <2>5, EarlyProgress
  <2> QED BY <1>1, <2>3, <2>4, <2>6 DEF Keeps
<1>5. ASSUME NEW phase \in {"report", "after"}, Update(p, [Goto(p, phase) EXCEPT !.code = 3])
      PROVE  Keeps(p)
  <2> DEFINE g == At(t, phase)
             u == [g EXCEPT !.code = 3]
  <2>1. phase \in Phases
    BY DEF Phases
  <2>2. /\ g \in Tasks /\ g \in Records /\ g.pc = phase /\ g.success = t.success
        /\ g.snap = t.snap
    BY <1>1, <2>1, AtFields
  <2>3. Update(p, u)
    BY <1>1, <1>5, <2>1, GotoTyped
  <2> HIDE DEF g
  <2>4. u \in Tasks
    BY <2>2, FieldsTyped, Zenon
  <2>5. u.pc = phase /\ u.success = t.success /\ u.snap = t.snap
    BY <2>2 DEF Records
  <2> HIDE DEF u, t
  <2>6. Progress(u, seen'[p], sys', backup', backupLost)
    BY <1>3, <2>5, FailedProgress
  <2> QED BY <2>3, <2>4, <2>6 DEF Keeps
<1>6. \/ Update(p, [Goto(p, "load") EXCEPT !.success = TRUE])
      \/ \E phase \in {"report", "after"} : Update(p, [Goto(p, phase) EXCEPT !.code = 3])
  BY DEF Authorize
<1> QED BY <1>4, <1>5, <1>6

LEMMA LoadKeeps ==
  ASSUME Ready, NEW p \in Proc, FindBackup(p) \/ LoadBackup(p)
  PROVE  Keeps(p)
<1> DEFINE t == task[p]
<1>1. /\ Typed /\ t \in Tasks /\ t.pc = "load" /\ backupLost \in BOOLEAN
      /\ UNCHANGED <<sys, backup>>
      /\ FindBackup(p) => t.mode = "repair"
      /\ LoadBackup(p) => t.mode = "rollback"
  BY DEF Ready, Typed, FindBackup, LoadBackup, HostUnchanged
<1>2. Progress(t, seen'[p], sys, backup, backupLost)
  BY CallsSeen DEF FindBackup, LoadBackup
<1>3. CASE Update(p, GiveUp(p))
  BY <1>3, GiveUpKeeps
<1>4. ASSUME NEW phase \in {"compat", "capture"}, Update(p, Goto(p, phase)),
             t.mode = "repair", phase = "compat" => backup.status = "valid"
      PROVE  Keeps(p)
  <2> DEFINE u == At(t, phase)
  <2>1. phase \in Phases
    BY DEF Phases
  <2>2. /\ u \in Tasks /\ u.pc = phase /\ u.mode = t.mode /\ u.changed = t.changed
        /\ u.snap = t.snap
    BY <1>1, <2>1, AtFields
  <2>3. Update(p, u)
    BY <1>1, <1>4, <2>1, GotoTyped
  <2> HIDE DEF u, t
  <2>4. SavedServices(u.snap)
    BY <1>2, <2>2 DEF Progress
  <2>5. Progress(u, seen'[p], sys, backup, backupLost)
    BY <1>1, <1>2, <1>4, <2>2, <2>4, EarlyProgress
  <2> QED BY <1>1, <2>2, <2>3, <2>5 DEF Keeps
<1>5. CASE /\ Update(p, [Goto(p, "restoreProfiles") EXCEPT !.snap = backup.snap])
           /\ t.mode = "rollback"
  <2> DEFINE g == At(t, "restoreProfiles")
             u == [g EXCEPT !.snap = backup.snap]
  <2>1. "restoreProfiles" \in Phases /\ backup.snap \in Settings /\ SavedServices(backup.snap)
    BY <1>1 DEF Phases, Typed, Backups, Ready, ProgressInv
  <2>2. /\ g \in Tasks /\ g \in Records /\ g.pc = "restoreProfiles" /\ g.mode = t.mode
        /\ g.todo = WorkList("restoreProfiles")
    BY <1>1, <2>1, AtFields
  <2>3. Update(p, u)
    BY <1>1, <1>5, <2>1, GotoTyped
  <2>4. WorkList("restoreProfiles") = Profiles
    BY Zenon DEF WorkList
  <2> HIDE DEF g
  <2>5. u \in Tasks
    BY <2>1, <2>2, FieldsTyped
  <2>6. u.pc = "restoreProfiles" /\ u.mode = t.mode /\ u.snap = backup.snap /\ u.todo = Profiles
    BY <2>1, <2>2, <2>4 DEF Records
  <2> HIDE DEF u, t
  <2>7. Progress(u, seen'[p], sys, backup, backupLost)
    BY <1>1, <1>2, <1>5, <2>1, <2>6, RollbackBegins
  <2> QED BY <1>1, <2>3, <2>5, <2>7 DEF Keeps
<1>6. \/ Update(p, GiveUp(p))
      \/ backup.status = "valid" /\ Update(p, Goto(p, "compat")) /\ FindBackup(p)
      \/ Update(p, Goto(p, "capture")) /\ FindBackup(p)
      \/ Update(p, [Goto(p, "restoreProfiles") EXCEPT !.snap = backup.snap]) /\ LoadBackup(p)
  BY DEF FindBackup, LoadBackup
<1> QED BY <1>1, <1>3, <1>4, <1>5, <1>6

\* What is saved of a service is never on its way to a stop.
LEMMA SavedIsSettled ==
  ASSUME NEW i \in ToSet(Services), NEW v
  PROVE  Saved(i, v).run # "stopping"
<1>1. Saved(i, v) = [start |-> v.start, run |-> SavedRun(v.run)]
  BY HostAssumption, Zenon DEF Saved
<1> QED BY <1>1 DEF SavedRun

LEMMA CaptureKeeps ==
  ASSUME Ready, NEW p \in Proc, Capture(p)
  PROVE  Keeps(p)
<1> DEFINE t == task[p]
           i == Head(t.todo)
<1>1. /\ Typed /\ t \in Tasks /\ t \in Records /\ t.pc = "capture" /\ t.todo # <<>>
      /\ backupLost \in BOOLEAN /\ UNCHANGED <<sys, backup>> /\ sys \in Settings
      /\ t.snap \in Settings
  BY DEF Ready, Typed, Tasks, Records, Capture, HostUnchanged
<1>2. Progress(t, seen'[p], sys, backup, backupLost)
  BY CallsSeen DEF Capture
<1>3. CASE Update(p, GiveUp(p))
  BY <1>3, GiveUpKeeps
<1>4. ASSUME NEW v, v = sys[i] \/ (i \in ToSet(Names) /\ v \in Without(sys[i])),
             Update(p, [t EXCEPT !.todo = Tail(@), !.snap[i] = Saved(i, v)])
      PROVE  Keeps(p)
  <2> DEFINE snap == [t.snap EXCEPT ![i] = Saved(i, v)]
             u == [t EXCEPT !.todo = Tail(@), !.snap = snap]
  <2>1. i \in Items /\ TodoFits("capture", Tail(t.todo)) /\ Tail(t.todo) \in Seq(Items)
    BY <1>1, FitsHeadAndTail DEF Tasks, TodoFits
  <2>2. Saved(i, v) \in ValueOf(i)
    <3>1. sys[i] \in ValueOf(i)
      BY <1>1, <2>1 DEF Settings
    <3>2. i \in ToSet(Names) => ValueOf(i) = Seq(RuleKinds)
      BY ValuesByKind
    <3>3. v \in ValueOf(i)
      BY <1>4, <3>1, <3>2, WithoutAreRules
    <3> QED BY <2>1, <3>3, SavedTyped
  <2>3. snap \in Settings
    BY <1>1, <2>1, <2>2, WriteSetting
  <2>4. SavedServices(snap)
    <3> SUFFICES ASSUME NEW j \in ToSet(Services) PROVE snap[j].run # "stopping"
      BY DEF SavedServices
    <3>1. j \in Items /\ DOMAIN t.snap = Items
      BY <1>1, KindsApart DEF Settings
    <3>2. t.snap[j].run # "stopping"
      BY <1>2 DEF Progress, SavedServices
    <3>3. CASE j = i
      <4>1. snap[j] = Saved(j, v)
        BY <3>1, <3>3
      <4> QED BY <4>1, SavedIsSettled
    <3>4. CASE j # i
      <4>1. snap[j] = t.snap[j]
        BY <3>1, <3>4
      <4> QED BY <3>2, <4>1
    <3> QED BY <3>3, <3>4
  <2>9. Update(p, u)
    BY <1>4
  <2> HIDE DEF snap, i
  <2>5. /\ u \in Records /\ u.pc = "capture" /\ u.todo = Tail(t.todo) /\ u.snap = snap
        /\ u.mode = t.mode /\ u.changed = t.changed
    BY <1>1, <2>1, <2>3 DEF Records
  <2>6. u \in Tasks
    BY <2>1, <2>5 DEF Tasks
  <2> HIDE DEF u, t
  <2>7. Progress(u, seen'[p], sys, backup, backupLost)
    BY <1>1, <1>2, <2>4, <2>5, EarlyProgress
  <2> QED BY <1>1, <2>6, <2>7, <2>9 DEF Keeps
<1>5. PICK works \in BOOLEAN :
        /\ Walks(p, works)
        /\ \/ works /\ Update(p, [t EXCEPT !.todo = Tail(@), !.snap[i] = Saved(i, sys[i])])
           \/ ~works /\ Update(p, GiveUp(p))
           \/ /\ ~works /\ i \in ToSet(Names)
              /\ \E v \in Without(sys[i]) :
                   Update(p, [t EXCEPT !.todo = Tail(@), !.snap[i] = Saved(i, v)])
  BY Zenon DEF Capture
<1> HIDE DEF t, i
<1> QED BY <1>3, <1>4, <1>5

LEMMA SaveBackupKeeps ==
  ASSUME Ready, NEW p \in Proc, SaveBackup(p)
  PROVE  Keeps(p)
<1> DEFINE t == task[p]
<1>1. /\ Typed /\ t \in Tasks /\ t.pc = "save" /\ backupLost \in BOOLEAN
      /\ UNCHANGED sys
  BY DEF Ready, Typed, SaveBackup
<1>2. Progress(t, seen'[p], sys, backup, backupLost) /\ seen'[p].hadBackup \in BOOLEAN
  BY CallsSeen DEF SaveBackup
<1>3. CASE Update(p, GiveUp(p))
  BY <1>3, GiveUpKeeps
<1>4. CASE /\ backup.status = "absent"
           /\ Update(p, [Goto(p, "compat") EXCEPT !.changed = TRUE, !.snap = NoSettings])
  <2> DEFINE g == At(t, "compat")
             u == [g EXCEPT !.changed = TRUE, !.snap = NoSettings]
  <2>1. "compat" \in Phases
    BY DEF Phases
  <2>2. g \in Tasks /\ g \in Records /\ g.pc = "compat" /\ g.mode = t.mode
    BY <1>1, <2>1, AtFields
  <2>3. Update(p, u)
    BY <1>1, <1>4, <2>1, GotoTyped
  <2> HIDE DEF g
  <2>4. /\ u \in Records /\ u.pc = "compat" /\ u.mode = t.mode /\ u.changed
        /\ u.snap = NoSettings /\ u.todo = g.todo
    BY <2>2, NoSettingsTyped DEF Records
  <2>5. u \in Tasks
    BY <2>2, <2>4 DEF Tasks
  <2> HIDE DEF u, t
  <2>6. SavedServices(u.snap)
    BY <2>4, NothingSaved
  <2>7. Progress(u, seen'[p], sys, backup', backupLost)
    BY <1>1, <1>2, <1>4, <2>4, <2>6, SavedProgress
  <2> QED BY <1>1, <2>3, <2>5, <2>7 DEF Keeps
<1> QED BY <1>3, <1>4 DEF SaveBackup

LEMMA InspectKeeps ==
  ASSUME Ready, NEW p \in Proc, InspectScanCompatibility(p)
  PROVE  Keeps(p)
<1> DEFINE t == task[p]
           g == At(t, "profiles")
<1>1. /\ Typed /\ t \in Tasks /\ t \in Records /\ t.pc = "compat" /\ backupLost \in BOOLEAN
      /\ UNCHANGED <<sys, backup>> /\ "profiles" \in Phases
  BY DEF Ready, Typed, Tasks, Phases, InspectScanCompatibility, HostUnchanged
<1>2. Progress(t, seen'[p], sys, backup, backupLost) /\ seen'[p].hadBackup \in BOOLEAN
  BY CallsSeen DEF InspectScanCompatibility
<1>3. PICK found \in BOOLEAN : Update(p, [Goto(p, "profiles") EXCEPT !.preserve = found])
  BY DEF InspectScanCompatibility
<1> DEFINE u == [g EXCEPT !.preserve = found]
<1>4. /\ g \in Tasks /\ g \in Records /\ g.pc = "profiles" /\ g.mode = t.mode
      /\ g.changed = t.changed /\ g.snap = t.snap /\ g.todo = WorkList("profiles")
  BY <1>1, AtFields
<1>5. WorkList("profiles") = Profiles
  BY Zenon DEF WorkList
<1>6. Update(p, u)
  BY <1>1, <1>3, GotoTyped
<1> HIDE DEF g
<1>7. u \in Tasks
  BY <1>4, FieldsTyped, Zenon
<1>8. /\ u.pc = "profiles" /\ u.mode = t.mode /\ u.changed = t.changed /\ u.snap = t.snap
      /\ u.todo = Profiles /\ t.changed \in BOOLEAN
  BY <1>1, <1>4, <1>5 DEF Records
<1> HIDE DEF u, t
<1>9. Progress(u, seen'[p], sys, backup, backupLost)
  BY <1>1, <1>2, <1>8, RepairBegins
<1> QED BY <1>1, <1>6, <1>7, <1>9 DEF Keeps
-----------------------------------------------------------------------------
(* The attempts of a repair and of a rollback.                             *)

LEMMA AttemptMoves ==
  ASSUME Ready, NEW p \in Proc, NEW outcomes, task[p].todo # <<>>,
         outcomes \subseteq OutcomesIn(ValueOf(Head(task[p].todo))), Attempt(p, outcomes)
  PROVE  \E o \in outcomes :
           /\ o \in OutcomesIn(ValueOf(Head(task[p].todo)))
           /\ Update(p, Tried(task[p], o.ok, o.changed))
           /\ Tried(task[p], o.ok, o.changed) \in Tasks
           /\ sys' = [sys EXCEPT ![Head(task[p].todo)] = o.val]
           /\ backup' = backup
<1>1. PICK o \in outcomes :
        /\ sys' = [sys EXCEPT ![Head(task[p].todo)] = o.val]
        /\ Update(p, Tried(task[p], o.ok, o.changed))
        /\ UNCHANGED <<ftpExposed, backup>>
  BY Zenon DEF Attempt, Tried
<1>2. o \in OutcomesIn(ValueOf(Head(task[p].todo))) /\ o.ok \in BOOLEAN /\ o.changed \in BOOLEAN
  BY DEF OutcomesIn
<1>3. task[p] \in Tasks
  BY DEF Ready, Typed
<1>4. Tried(task[p], o.ok, o.changed) \in Tasks
  BY <1>2, <1>3, TriedTyped
<1> QED BY <1>1, <1>2, <1>4

LEMMA RepairAttemptKeeps ==
  ASSUME Ready, NEW p \in Proc, NEW works \in BOOLEAN, NEW outcomes,
         task[p].pc \in RepairPhases, task[p].todo # <<>>,
         outcomes \subseteq OutcomesIn(ValueOf(Head(task[p].todo))),
         Calls(p, works) \/ Walks(p, works), Attempt(p, outcomes),
         \A o \in outcomes :
           RepairsWell(task[p], seen'[p], Head(task[p].todo), Value(p), o)
  PROVE  Keeps(p)
<1> DEFINE t == task[p]
           i == Head(t.todo)
<1>1. t \in Tasks /\ sys \in Settings /\ backupLost \in BOOLEAN
  BY DEF Ready, Typed
<1>2. Progress(t, seen'[p], sys, backup, backupLost)
  BY CallsSeen
<1>3. PICK o \in outcomes :
        /\ o \in OutcomesIn(ValueOf(i)) /\ Update(p, Tried(t, o.ok, o.changed))
        /\ Tried(t, o.ok, o.changed) \in Tasks
        /\ sys' = [sys EXCEPT ![i] = o.val] /\ backup' = backup
  BY AttemptMoves
<1>4. RepairsWell(t, seen'[p], i, sys[i], o)
  BY DEF Value
<1> HIDE DEF t
<1>5. Progress(Tried(t, o.ok, o.changed), seen'[p], [sys EXCEPT ![i] = o.val], backup, backupLost)
  BY <1>1, <1>2, <1>3, <1>4, RepairAttempt DEF t
<1> QED BY <1>3, <1>5 DEF Keeps

LEMMA RestoreAttemptKeeps ==
  ASSUME Ready, NEW p \in Proc, NEW works \in BOOLEAN, NEW outcomes,
         task[p].pc \in RestorePhases, task[p].todo # <<>>,
         outcomes \subseteq OutcomesIn(ValueOf(Head(task[p].todo))),
         Calls(p, works) \/ Walks(p, works), Attempt(p, outcomes),
         \A o \in outcomes :
           RestoresWell(task[p], seen'[p], Head(task[p].todo), Value(p), o)
  PROVE  Keeps(p)
<1> DEFINE t == task[p]
           i == Head(t.todo)
<1>1. t \in Tasks /\ sys \in Settings /\ backupLost \in BOOLEAN
  BY DEF Ready, Typed
<1>2. Progress(t, seen'[p], sys, backup, backupLost)
  BY CallsSeen
<1>3. PICK o \in outcomes :
        /\ o \in OutcomesIn(ValueOf(i)) /\ Update(p, Tried(t, o.ok, o.changed))
        /\ Tried(t, o.ok, o.changed) \in Tasks
        /\ sys' = [sys EXCEPT ![i] = o.val] /\ backup' = backup
  BY AttemptMoves
<1>4. RestoresWell(t, seen'[p], i, sys[i], o)
  BY DEF Value
<1> HIDE DEF t
<1>5. Progress(Tried(t, o.ok, o.changed), seen'[p], [sys EXCEPT ![i] = o.val], backup, backupLost)
  BY <1>1, <1>2, <1>3, <1>4, RollbackAttempt DEF t
<1> QED BY <1>3, <1>5 DEF Keeps

LEMMA RepairStepsKeep ==
  ASSUME Ready, NEW p \in Proc,
         RepairProfiles(p) \/ RemoveLegacyRules(p) \/ RepairRules(p) \/ RepairServices(p)
           \/ RepairRdp(p) \/ RepairNetbios(p)
  PROVE  Keeps(p)
<1> DEFINE t == task[p]
           i == Head(t.todo)
           V == ValueOf(i)
<1>0. Typed /\ t \in Tasks /\ t.preserve \in BOOLEAN /\ TodoFits(t.pc, t.todo)
  BY DEF Ready, Typed, Tasks, Records
<1>c. ASSUME NEW works \in BOOLEAN, Calls(p, works) \/ Walks(p, works)
      PROVE  seen'[p].clean \in BOOLEAN /\ (seen'[p].clean => works)
  BY <1>c, CallsSeen, CleanCalls
<1>w. ASSUME NEW works \in BOOLEAN, Walks(p, works), ~works, i \in ToSet(Names)
      PROVE  i \in seen'[p].hidden
  BY <1>w, CleanCalls
<1>1. CASE RepairProfiles(p)
  <2>1. PICK works \in BOOLEAN :
          Calls(p, works) /\ Attempt(p, RepairProfile(Value(p), t.preserve, works))
    BY <1>1 DEF RepairProfiles
  <2>2. t.pc = "profiles" /\ t.todo # <<>>
    BY <1>1 DEF RepairProfiles
  <2>3. V = {"on", "off"} /\ Value(p) \in V /\ i \in ToSet(Profiles)
    BY <1>0, <2>2, HeadValues, FitsHeadAndTail
  <2>4. RepairProfile(Value(p), t.preserve, works) \subseteq OutcomesIn(V)
    BY <1>0, <2>3, ProfileOutcomes
  <2>5. \A o \in RepairProfile(Value(p), t.preserve, works) :
          RepairsWell(t, seen'[p], i, Value(p), o)
    BY <1>0, <1>c, <2>1, <2>2, <2>3, ProfileRepairedWell
  <2> QED BY <2>1, <2>2, <2>4, <2>5, RepairAttemptKeeps DEF RepairPhases
<1>2. CASE RemoveLegacyRules(p)
  <2>1. PICK works \in BOOLEAN : Walks(p, works) /\ Attempt(p, RemoveAll(Value(p), works))
    BY <1>2 DEF RemoveLegacyRules
  <2>2. t.pc = "legacy" /\ t.todo # <<>>
    BY <1>2 DEF RemoveLegacyRules
  <2>3. V = Seq(RuleKinds) /\ Value(p) \in V /\ i \in ToSet(LegacyNames)
    BY <1>0, <2>2, HeadValues, FitsHeadAndTail
  <2>4. RemoveAll(Value(p), works) \subseteq OutcomesIn(V)
    BY <2>3, RuleOutcomes
  <2>6. ~works => i \in seen'[p].hidden
    BY <1>w, <2>1, <2>3, KindsApart
  <2>5. \A o \in RemoveAll(Value(p), works) : RepairsWell(t, seen'[p], i, Value(p), o)
    BY <1>c, <2>1, <2>2, <2>3, <2>6, LegacyRemovedWell
  <2> QED BY <2>1, <2>2, <2>4, <2>5, RepairAttemptKeeps DEF RepairPhases
<1>3. CASE RepairRules(p)
  <2>1. PICK works \in BOOLEAN : Walks(p, works) /\ Attempt(p, EnsureRule(Value(p), works))
    BY <1>3 DEF RepairRules
  <2>2. t.pc = "rules" /\ t.todo # <<>>
    BY <1>3 DEF RepairRules
  <2>3. V = Seq(RuleKinds) /\ Value(p) \in V /\ i \in ToSet(RuleNames)
    BY <1>0, <2>2, HeadValues, FitsHeadAndTail
  <2>4. EnsureRule(Value(p), works) \subseteq OutcomesIn(V)
    BY <2>3, RuleOutcomes
  <2>6. ~works => i \in seen'[p].hidden
    BY <1>w, <2>1, <2>3, KindsApart
  <2>5. \A o \in EnsureRule(Value(p), works) : RepairsWell(t, seen'[p], i, Value(p), o)
    BY <1>c, <2>1, <2>2, <2>3, <2>6, RuleEnsuredWell
  <2> QED BY <2>1, <2>2, <2>4, <2>5, RepairAttemptKeeps DEF RepairPhases
<1>4. CASE RepairServices(p)
  <2>1. PICK works \in BOOLEAN : Calls(p, works) /\ Attempt(p, DisableService(Value(p), works))
    BY <1>4 DEF RepairServices
  <2>2. t.pc = "services" /\ t.todo # <<>>
    BY <1>4 DEF RepairServices
  <2>3. V = ServiceStates /\ Value(p) \in V /\ i \in ToSet(Services)
    BY <1>0, <2>2, HeadValues, FitsHeadAndTail
  <2>4. DisableService(Value(p), works) \subseteq OutcomesIn(V)
    BY <2>3, ServiceOutcomes
  <2>5. \A o \in DisableService(Value(p), works) : RepairsWell(t, seen'[p], i, Value(p), o)
    BY <1>c, <2>1, <2>2, <2>3, ServiceDisabledWell
  <2> QED BY <2>1, <2>2, <2>4, <2>5, RepairAttemptKeeps DEF RepairPhases
<1>5. CASE RepairRdp(p)
  <2>1. PICK works \in BOOLEAN : Calls(p, works) /\ Attempt(p, DenyRdp(Value(p), works))
    BY <1>5 DEF RepairRdp
  <2>2. t.pc = "rdp" /\ t.todo # <<>>
    BY <1>5 DEF RepairRdp
  <2>3. V = {"none", "allow", "deny"} /\ Value(p) \in V /\ i = RdpPolicy
    <3>1. V = {"none", "allow", "deny"} /\ Value(p) \in V
      BY <1>0, <2>2, HeadValues
    <3>2. i = RdpPolicy
      BY <1>0, <2>2, FitsHeadAndTail
    <3> QED BY <3>1, <3>2
  <2>4. DenyRdp(Value(p), works) \subseteq OutcomesIn(V)
    BY <2>3, RegistryOutcomes
  <2>5. \A o \in DenyRdp(Value(p), works) : RepairsWell(t, seen'[p], i, Value(p), o)
    BY <1>c, <2>1, <2>2, <2>3, RdpDeniedWell
  <2> QED BY <2>1, <2>2, <2>4, <2>5, RepairAttemptKeeps DEF RepairPhases
<1>6. CASE RepairNetbios(p)
  <2>1. PICK works \in BOOLEAN : Calls(p, works) /\ Attempt(p, DisableNetbios(Value(p), works))
    BY <1>6 DEF RepairNetbios
  <2>2. t.pc = "netbios" /\ t.todo # <<>>
    BY <1>6 DEF RepairNetbios
  <2>3. /\ V = {"gone", "none", "default", "disabled"} /\ Value(p) \in V
        /\ i \in ToSet(Adapters)
    BY <1>0, <2>2, HeadValues, FitsHeadAndTail
  <2>4. DisableNetbios(Value(p), works) \subseteq OutcomesIn(V)
    BY <2>3, RegistryOutcomes
  <2>5. \A o \in DisableNetbios(Value(p), works) : RepairsWell(t, seen'[p], i, Value(p), o)
    BY <1>c, <2>1, <2>2, <2>3, NetbiosDisabledWell
  <2> QED BY <2>1, <2>2, <2>4, <2>5, RepairAttemptKeeps DEF RepairPhases
<1> QED BY <1>1, <1>2, <1>3, <1>4, <1>5, <1>6

LEMMA RestoreStepsKeep ==
  ASSUME Ready, NEW p \in Proc,
         RestoreProfiles(p) \/ RemoveManagedRules(p) \/ AddStateRules(p)
           \/ RestoreServices(p) \/ RestoreDwords(p)
  PROVE  Keeps(p)
<1> DEFINE t == task[p]
           i == Head(t.todo)
           V == ValueOf(i)
<1>0. /\ Typed /\ t \in Tasks /\ TodoFits(t.pc, t.todo) /\ SavedValue(p) = t.snap[i]
      /\ SavedServices(t.snap)
  BY DEF Ready, Typed, Tasks, Records, SavedValue, ProgressInv, Progress
<1>c. ASSUME NEW works \in BOOLEAN, Calls(p, works) \/ Walks(p, works)
      PROVE  seen'[p].clean \in BOOLEAN /\ (seen'[p].clean => works)
  BY <1>c, CallsSeen, CleanCalls
<1>w. ASSUME NEW works \in BOOLEAN, Walks(p, works), ~works, i \in ToSet(Names)
      PROVE  i \in seen'[p].hidden
  BY <1>w, CleanCalls
<1>1. CASE RestoreProfiles(p)
  <2>1. PICK works \in BOOLEAN :
          Calls(p, works) /\ Attempt(p, RestoreProfile(Value(p), SavedValue(p), works))
    BY <1>1 DEF RestoreProfiles
  <2>2. t.pc = "restoreProfiles" /\ t.todo # <<>>
    BY <1>1 DEF RestoreProfiles
  <2>3. V = {"on", "off"} /\ Value(p) \in V /\ SavedValue(p) \in V
    BY <1>0, <2>2, HeadValues
  <2>4. RestoreProfile(Value(p), SavedValue(p), works) \subseteq OutcomesIn(V)
    BY <2>3, ProfileOutcomes
  <2>5. \A o \in RestoreProfile(Value(p), SavedValue(p), works) :
          RestoresWell(t, seen'[p], i, Value(p), o)
    BY <1>0, <2>2, PlainRestoredWell
  <2> QED BY <2>1, <2>2, <2>4, <2>5, RestoreAttemptKeeps DEF RestorePhases
<1>2. CASE RemoveManagedRules(p)
  <2>1. PICK works \in BOOLEAN : Walks(p, works) /\ Attempt(p, RemoveAll(Value(p), works))
    BY <1>2 DEF RemoveManagedRules
  <2>2. t.pc = "removeRules" /\ t.todo # <<>>
    BY <1>2 DEF RemoveManagedRules
  <2>3. V = Seq(RuleKinds) /\ Value(p) \in V
    BY <1>0, <2>2, HeadValues
  <2>4. RemoveAll(Value(p), works) \subseteq OutcomesIn(V)
    BY <2>3, RuleOutcomes
  <2>6. ~works => i \in seen'[p].hidden
    <3>1. i \in ToSet(Names)
      BY <1>0, <2>2, FitsHeadAndTail
    <3> QED BY <1>w, <2>1, <3>1
  <2>5. \A o \in RemoveAll(Value(p), works) : RestoresWell(t, seen'[p], i, Value(p), o)
    BY <2>2, <2>6, PlainRestoredWell
  <2> QED BY <2>1, <2>2, <2>4, <2>5, RestoreAttemptKeeps DEF RestorePhases
<1>3. CASE AddStateRules(p)
  <2>1. PICK works \in BOOLEAN :
          Calls(p, works) /\ Attempt(p, AddSavedRules(Value(p), SavedValue(p), works))
    BY <1>3 DEF AddStateRules
  <2>2. t.pc = "addRules" /\ t.todo # <<>>
    BY <1>3 DEF AddStateRules
  <2>3. V = Seq(RuleKinds) /\ Value(p) \in V /\ SavedValue(p) \in V
    BY <1>0, <2>2, HeadValues
  <2>4. AddSavedRules(Value(p), SavedValue(p), works) \subseteq OutcomesIn(V)
    BY <2>3, RuleOutcomes
  <2>5. \A o \in AddSavedRules(Value(p), SavedValue(p), works) :
          RestoresWell(t, seen'[p], i, Value(p), o)
    BY <1>0, <2>2, <2>3, RulesRestoredWell
  <2> QED BY <2>1, <2>2, <2>4, <2>5, RestoreAttemptKeeps DEF RestorePhases
<1>4. CASE RestoreServices(p)
  <2>1. PICK works \in BOOLEAN :
          Calls(p, works) /\ Attempt(p, RestoreService(Value(p), SavedValue(p), works))
    BY <1>4 DEF RestoreServices
  <2>2. t.pc = "restoreServices" /\ t.todo # <<>>
    BY <1>4 DEF RestoreServices
  <2>3. V = ServiceStates /\ Value(p) \in V /\ SavedValue(p) \in V /\ i \in ToSet(Services)
    BY <1>0, <2>2, HeadValues, FitsHeadAndTail
  <2>4. RestoreService(Value(p), SavedValue(p), works) \subseteq OutcomesIn(V)
    BY <2>3, ServiceOutcomes
  <2>5. t.snap[i].run # "stopping" /\ t.snap[i] \in ServiceStates
    BY <1>0, <2>3 DEF SavedServices
  <2>6. \A o \in RestoreService(Value(p), SavedValue(p), works) :
          RestoresWell(t, seen'[p], i, Value(p), o)
    BY <1>0, <1>c, <2>1, <2>2, <2>3, <2>5, ServiceRestoredWell
  <2> QED BY <2>1, <2>2, <2>4, <2>6, RestoreAttemptKeeps DEF RestorePhases
<1>5. CASE RestoreDwords(p)
  <2>1. PICK works \in BOOLEAN :
          Calls(p, works) /\ Attempt(p, RestoreDword(Value(p), SavedValue(p), works))
    BY <1>5 DEF RestoreDwords
  <2>2. t.pc \in {"restoreRdp", "restoreNetbios"} /\ t.todo # <<>>
    BY <1>5 DEF RestoreDwords
  <2>3. /\ Value(p) \in V /\ SavedValue(p) \in V
        /\ t.pc = "restoreRdp" => Value(p) # "gone"
    <3>1. Value(p) \in V /\ SavedValue(p) \in V
      BY <1>0, <2>2, HeadValues
    <3>2. t.pc = "restoreRdp" => V = {"none", "allow", "deny"}
      BY <1>0, <2>2, HeadValues
    <3> QED BY <3>1, <3>2
  <2>4. RestoreDword(Value(p), SavedValue(p), works) \subseteq OutcomesIn(V)
    BY <2>3, RegistryOutcomes
  <2>5. \A o \in RestoreDword(Value(p), SavedValue(p), works) :
          RestoresWell(t, seen'[p], i, Value(p), o)
    BY <1>0, <2>2, <2>3, PlainRestoredWell
  <2> QED BY <2>1, <2>2, <2>4, <2>5, RestoreAttemptKeeps DEF RestorePhases
<1> QED BY <1>1, <1>2, <1>3, <1>4, <1>5
-----------------------------------------------------------------------------
(* The steps between the lists, and after them.                            *)

LEMMA EnumerateKeeps ==
  ASSUME Ready, NEW p \in Proc, EnumerateNetbios(p)
  PROVE  Keeps(p)
<1> DEFINE t == task[p]
           g == At(t, "netbios")
           some == \E a \in ToSet(Present(sys)) : sys[a] # "disabled"
           u == [g EXCEPT !.todo = Present(sys), !.changed = @ \/ some]
<1>1. /\ Typed /\ t \in Tasks /\ t \in Records /\ t.pc = "adapters" /\ backupLost \in BOOLEAN
      /\ UNCHANGED <<sys, backup>> /\ "netbios" \in Phases
  BY DEF Ready, Typed, Tasks, Phases, EnumerateNetbios, HostUnchanged
<1>2. Progress(t, seen'[p], sys, backup, backupLost)
  BY CallsSeen DEF EnumerateNetbios
<1>3. CASE Update(p, GiveUp(p))
  BY <1>3, GiveUpKeeps
<1>4. CASE Update(p, [Goto(p, "netbios") EXCEPT
                       !.todo = Present(sys),
                       !.changed = @ \/ \E a \in ToSet(Present(sys)) : sys[a] # "disabled"])
  <2>1. /\ g \in Tasks /\ g \in Records /\ g.pc = "netbios" /\ g.mode = t.mode
        /\ g.success = t.success /\ g.changed = t.changed /\ g.preserve = t.preserve
        /\ g.snap = t.snap
    BY <1>1, AtFields
  <2>2. Present(sys) \in Seq(ToSet(Adapters)) /\ Present(sys) \in Seq(Items)
    <3>1. Present(sys) \in Seq(ToSet(Adapters))
      BY PresentTyped
    <3>2. ToSet(Adapters) \subseteq Items
      BY ItemKinds
    <3> QED BY <3>1, <3>2
  <2>3. Update(p, u)
    BY <1>1, <1>4, GotoTyped
  <2>4. some \in BOOLEAN
    OBVIOUS
  <2> HIDE DEF g, some
  <2>5. /\ u \in Records /\ u.pc = "netbios" /\ u.todo = Present(sys) /\ u.mode = t.mode
        /\ u.success = t.success /\ u.preserve = t.preserve /\ u.snap = t.snap
    BY <2>1, <2>2, <2>4 DEF Records
  <2>6. u.changed = (t.changed \/ some)
    <3>1. u.changed = (g.changed \/ some)
      BY <2>1, Zenon DEF Records
    <3> QED BY <2>1, <3>1
  <2>7. u \in Tasks
    BY <2>2, <2>5 DEF Tasks, TodoFits
  <2>8. t.changed \in BOOLEAN
    BY <1>1 DEF Records
  <2> HIDE DEF u, t
  <2>9. u.changed = (t.changed \/ \E a \in ToSet(Present(sys)) : sys[a] # "disabled")
    BY <2>6 DEF some
  <2>10. Progress(u, seen'[p], sys, backup, backupLost)
    BY <1>1, <1>2, <2>5, <2>8, <2>9, AdaptersListed
  <2> QED BY <1>1, <2>3, <2>7, <2>10 DEF Keeps
<1> QED BY <1>3, <1>4 DEF EnumerateNetbios

\* Where a list of a repair leads, and what is on the next one.
LEMMA RepairLists ==
  /\ NextPhase["capture"] = "save"
  /\ NextPhase["profiles"] = "legacy" /\ NextPhase["legacy"] = "rules"
  /\ NextPhase["rules"] = "services" /\ NextPhase["services"] = "rdp"
  /\ NextPhase["rdp"] = "adapters" /\ NextPhase["netbios"] = "after"
  /\ WorkList("legacy") = LegacyNames /\ WorkList("rules") = RuleNames
  /\ WorkList("services") = Services /\ WorkList("rdp") = <<RdpPolicy>>
<1>1. /\ NextPhase["capture"] = "save"
      /\ NextPhase["profiles"] = "legacy" /\ NextPhase["legacy"] = "rules"
      /\ NextPhase["rules"] = "services" /\ NextPhase["services"] = "rdp"
      /\ NextPhase["rdp"] = "adapters" /\ NextPhase["netbios"] = "after"
  BY DEF NextPhase
<1>2. WorkList("legacy") = LegacyNames /\ WorkList("rules") = RuleNames
  BY Zenon DEF WorkList
<1>3. WorkList("services") = Services /\ WorkList("rdp") = <<RdpPolicy>>
  BY Zenon DEF WorkList
<1> QED BY <1>1, <1>2, <1>3

\* What a list was ahead of is still ahead, or on the next list.
LEMMA RepairListDone ==
  ASSUME NEW t, NEW u, t.pc \in RepairPhases, t.todo = <<>>, u.pc = NextPhase[t.pc],
         u.todo = WorkList(u.pc)
  PROVE  /\ u.pc \in LatePhases
         /\ u.pc \in RepairPhases \cup {"adapters", "after"} /\ u.pc # "netbios"
         /\ Worked(u) \subseteq Worked(t)
<1> DEFINE P == ToSet(Profiles) R == ToSet(RuleNames) L == ToSet(LegacyNames)
           S == ToSet(Services) A == ToSet(Adapters)
<1>1. /\ Items = P \cup (R \cup L) \cup S \cup {RdpPolicy} \cup A
  BY KindsApart
<1>2. Worked(t) = Items \ Ahead(t.pc)
  <2>1. Waiting(t) = {}
    BY DEF Waiting, ToSet
  <2> QED BY <2>1 DEF Worked
<1>3. u.pc \in RepairPhases => Waiting(u) = ToSet(u.todo)
  BY DEF Waiting
<1>4. ToSet(<<RdpPolicy>>) = {RdpPolicy}
  BY DEF ToSet
<1>5. CASE t.pc = "profiles"
  <2>1. u.pc = "legacy" /\ u.todo = LegacyNames
    BY <1>5, RepairLists
  <2>2. u.pc \in RepairPhases /\ u.pc \in LatePhases
    BY <2>1 DEF RepairPhases, LatePhases
  <2>3. Ahead(t.pc) = Items \ P /\ Ahead(u.pc) = R \cup S \cup {RdpPolicy} \cup A
    BY <1>5, <2>1, AheadByPhase
  <2> QED BY <1>1, <1>2, <1>3, <2>1, <2>2, <2>3 DEF Worked
<1>6. CASE t.pc = "legacy"
  <2>1. u.pc = "rules" /\ u.todo = RuleNames
    BY <1>6, RepairLists
  <2>2. u.pc \in RepairPhases /\ u.pc \in LatePhases
    BY <2>1 DEF RepairPhases, LatePhases
  <2>3. /\ Ahead(t.pc) = R \cup S \cup {RdpPolicy} \cup A
        /\ Ahead(u.pc) = S \cup {RdpPolicy} \cup A
    BY <1>6, <2>1, AheadByPhase
  <2> QED BY <1>2, <1>3, <2>1, <2>2, <2>3 DEF Worked
<1>7. CASE t.pc = "rules"
  <2>1. u.pc = "services" /\ u.todo = Services
    BY <1>7, RepairLists
  <2>2. u.pc \in RepairPhases /\ u.pc \in LatePhases
    BY <2>1 DEF RepairPhases, LatePhases
  <2>3. /\ Ahead(t.pc) = S \cup {RdpPolicy} \cup A /\ Ahead(u.pc) = {RdpPolicy} \cup A
    BY <1>7, <2>1, AheadByPhase
  <2> QED BY <1>2, <1>3, <2>1, <2>2, <2>3 DEF Worked
<1>8. CASE t.pc = "services"
  <2>1. u.pc = "rdp" /\ u.todo = <<RdpPolicy>>
    BY <1>8, RepairLists
  <2>2. u.pc \in RepairPhases /\ u.pc \in LatePhases
    BY <2>1 DEF RepairPhases, LatePhases
  <2>3. /\ Ahead(t.pc) = {RdpPolicy} \cup A /\ Ahead(u.pc) = A
    BY <1>8, <2>1, AheadByPhase
  <2> QED BY <1>2, <1>3, <1>4, <2>1, <2>2, <2>3 DEF Worked
<1>9. CASE t.pc = "rdp"
  <2>1. u.pc = "adapters" /\ u.pc \in LatePhases
    BY <1>9, RepairLists DEF LatePhases
  <2>2. /\ Ahead(t.pc) = A /\ Ahead(u.pc) = A
    BY <1>9, <2>1, AheadByPhase
  <2> QED BY <1>2, <2>1, <2>2 DEF Worked
<1>10. CASE t.pc = "netbios"
  <2>1. u.pc = "after" /\ u.pc \in LatePhases
    BY <1>10, RepairLists DEF LatePhases
  <2>2. Ahead(t.pc) = {}
    BY <1>10, AheadByPhase
  <2> QED BY <1>2, <2>1, <2>2 DEF Worked
<1> QED BY <1>5, <1>6, <1>7, <1>8, <1>9, <1>10 DEF RepairPhases

LEMMA ListDoneKeeps ==
  ASSUME Ready, NEW p \in Proc, ListDone(p)
  PROVE  Keeps(p)
<1> DEFINE t == task[p]
           next == NextPhase[t.pc]
           g == At(t, next)
           u == [g EXCEPT !.todo = IF next = "restoreNetbios" THEN Present(t.snap) ELSE @,
                          !.snap = IF next = "after" THEN NoSettings ELSE @]
<1>1. /\ Typed /\ t \in Tasks /\ t \in Records /\ t.pc \in ListPhases /\ t.todo = <<>>
      /\ UNCHANGED <<sys, backup>> /\ backupLost \in BOOLEAN
  BY DEF Ready, Typed, Tasks, ListDone, HostUnchanged
<1>2. Progress(t, seen'[p], sys, backup, backupLost)
  BY CallsSeen DEF ListDone
<1>3. /\ t.pc = "capture" \/ t.pc \in RepairPhases \/ t.pc \in RestorePhases
      /\ next \in Phases
  BY <1>1 DEF ListPhases, NextPhase, Phases, RepairPhases, RestorePhases
<1>4. /\ g \in Tasks /\ g \in Records /\ g.pc = next /\ g.todo = WorkList(next)
      /\ g.mode = t.mode /\ g.success = t.success /\ g.changed = t.changed
      /\ g.preserve = t.preserve /\ g.snap = t.snap
  BY <1>1, <1>3, AtFields
<1>5. Update(p, u)
  BY <1>1, <1>3, GotoTyped DEF ListDone
<1>6. Present(t.snap) \in Seq(ToSet(Adapters)) /\ Present(t.snap) \in Seq(Items)
  <2>1. Present(t.snap) \in Seq(ToSet(Adapters))
    BY PresentTyped
  <2>2. ToSet(Adapters) \subseteq Items
    BY ItemKinds
  <2> QED BY <2>1, <2>2
<1> HIDE DEF g, next
<1>7. /\ u \in Records /\ u.pc = next /\ u.mode = t.mode /\ u.success = t.success
      /\ u.changed = t.changed /\ u.preserve = t.preserve
      /\ u.todo = IF next = "restoreNetbios" THEN Present(t.snap) ELSE WorkList(next)
      /\ u.snap = IF next = "after" THEN NoSettings ELSE t.snap
  BY <1>4, <1>6, NoSettingsTyped DEF Records
<1>8. u \in Tasks
  <2>1. CASE next = "restoreNetbios"
    BY <1>6, <1>7, <2>1 DEF Tasks, TodoFits
  <2>2. CASE next # "restoreNetbios"
    BY <1>4, <1>7, <2>2 DEF Tasks
  <2> QED BY <2>1, <2>2
<1>9. next = NextPhase[t.pc]
  BY DEF next
<1> HIDE DEF u, t
<1>10. SavedServices(u.snap)
  BY <1>2, <1>7, NothingSaved DEF Progress
<1>11. Progress(u, seen'[p], sys, backup, backupLost)
  <2>1. CASE t.pc = "capture"
    <3>1. u.pc = "save"
      BY <1>7, <1>9, <2>1, RepairLists
    <3> QED BY <1>1, <1>2, <1>7, <1>10, <2>1, <3>1, EarlyProgress
  <2>2. CASE t.pc \in RepairPhases
    <3>1. next # "restoreNetbios"
      BY <1>9, <2>2, RepairLists DEF RepairPhases
    <3>2. u.todo = WorkList(u.pc) /\ u.pc = NextPhase[t.pc]
      BY <1>7, <1>9, <3>1
    <3>3. /\ u.pc \in LatePhases /\ t.pc \in LatePhases
          /\ u.pc \in RepairPhases \cup {"adapters", "after"} /\ u.pc # "netbios"
          /\ Worked(u) \subseteq Worked(t)
      BY <1>1, <2>2, <3>2, RepairListDone, PhaseSets
    <3>4. \A i : ~Listed(u, i) /\ ~Listed(t, i)
      BY <1>1, <3>3 DEF Listed, ToSet
    <3>5. t.mode # "rollback"
      BY <1>2, <2>2 DEF Progress, OnPath, RepairPhases, RestorePhases, NotStarted
    <3> QED BY <1>1, <1>2, <1>7, <1>10, <2>2, <3>3, <3>4, <3>5, RepairGoesOn
  <2>3. CASE t.pc \in RestorePhases
    <3>1. /\ u.pc = NextPhase[t.pc]
          /\ u.todo = IF u.pc = "restoreNetbios" THEN Present(t.snap) ELSE WorkList(u.pc)
          /\ u.snap = IF u.pc = "after" THEN NoSettings ELSE t.snap
      BY <1>7, <1>9
    <3> QED BY <1>1, <1>2, <1>7, <2>3, <3>1, NothingSaved, RollbackListDone
  <2> QED BY <1>3, <2>1, <2>2, <2>3 DEF t
<1> QED BY <1>1, <1>5, <1>8, <1>11 DEF Keeps

LEMMA FirewallKeeps ==
  ASSUME Ready, NEW p \in Proc, FirewallUnavailable(p)
  PROVE  Keeps(p)
<1> DEFINE t == task[p]
           phase == IF t.pc \in RepairPhases THEN "services" ELSE "restoreServices"
           g == At(t, phase)
           u == [g EXCEPT !.success = FALSE]
<1>1. /\ Typed /\ t \in Tasks /\ UNCHANGED <<sys, backup>> /\ phase \in Phases
      /\ t.pc \in {"profiles", "legacy", "restoreProfiles", "removeRules"}
  BY DEF Ready, Typed, FirewallUnavailable, HostUnchanged, Phases
<1>2. Progress(t, seen'[p], sys, backup, backupLost)
  BY CallsSeen DEF FirewallUnavailable
<1>3. \/ t.pc \in RepairPhases /\ phase = "services"
      \/ t.pc \in RestorePhases /\ phase = "restoreServices"
  BY <1>1 DEF RepairPhases, RestorePhases
<1>4. g \in Tasks /\ g \in Records /\ g.pc = phase /\ g.mode = t.mode /\ g.snap = t.snap
  BY <1>1, AtFields
<1>5. Update(p, u)
  BY <1>1, GotoTyped DEF FirewallUnavailable
<1> HIDE DEF g, phase
<1>6. u \in Tasks
  BY <1>4, FieldsTyped, Zenon
<1>7. u.pc = phase /\ u.mode = t.mode /\ u.snap = t.snap /\ ~u.success
  BY <1>4 DEF Records
<1> HIDE DEF u, t
<1>8. Progress(u, seen'[p], sys, backup, backupLost)
  BY <1>2, <1>3, <1>7, FirewallFailedProgress
<1> QED BY <1>1, <1>5, <1>6, <1>8 DEF Keeps

LEMMA ReportingKeeps ==
  ASSUME Ready, NEW p \in Proc, AuditAfter(p) \/ Report(p) \/ Upload(p) \/ Pause(p)
  PROVE  Keeps(p)
<1> DEFINE t == task[p]
<1>1. /\ Typed /\ t \in Tasks /\ t \in Records /\ UNCHANGED <<sys, backup>>
      /\ t.pc \in {"after", "report", "upload", "pause"} /\ backupLost \in BOOLEAN
  BY DEF Ready, Typed, Tasks, AuditAfter, Report, Upload, Pause, HostUnchanged
<1>2. Progress(t, seen'[p], sys, backup, backupLost)
  <2>1. CASE AuditAfter(p) \/ Report(p)
    BY <2>1, CallsSeen DEF AuditAfter, Report
  <2>2. CASE Upload(p) \/ Pause(p)
    BY <2>2, CallsSeen DEF Upload, Pause
  <2> QED BY <2>1, <2>2
<1>3. ASSUME Update(p, Abort(p)), t.pc \in {"after", "report"} PROVE Keeps(p)
  BY <1>1, <1>2, <1>3, AbortKeeps
<1>4. ASSUME NEW u \in Tasks, Update(p, u), u.pc \in {"report", "upload", "pause", "exit"},
             u.mode = t.mode, u.success = t.success, u.changed = t.changed,
             u.preserve = t.preserve, u.snap = t.snap
      PROVE  Keeps(p)
  <2>1. Progress(u, seen'[p], sys, backup, backupLost)
    BY <1>1, <1>2, <1>4, EndGoesOn
  <2> QED BY <1>1, <1>4, <2>1 DEF Keeps
<1>5. ASSUME NEW phase \in {"report", "upload", "pause", "exit"}, Update(p, Goto(p, phase))
      PROVE  Keeps(p)
  <2> DEFINE g == At(t, phase)
  <2>1. phase \in Phases
    BY DEF Phases
  <2>2. /\ g \in Tasks /\ g.pc = phase /\ g.mode = t.mode /\ g.success = t.success
        /\ g.changed = t.changed /\ g.preserve = t.preserve /\ g.snap = t.snap
    BY <1>1, <2>1, AtFields
  <2>3. Update(p, g)
    BY <1>1, <1>5, <2>1, GotoTyped
  <2> HIDE DEF g, t
  <2> QED BY <1>4, <2>2, <2>3
<1>6. ASSUME NEW phase \in {"report", "exit"}, NEW c \in {0, 1, 3, 6, 7},
             Update(p, [Goto(p, phase) EXCEPT !.code = c])
      PROVE  Keeps(p)
  <2> DEFINE g == At(t, phase)
             u == [g EXCEPT !.code = c]
  <2>1. phase \in Phases
    BY DEF Phases
  <2>2. /\ g \in Tasks /\ g \in Records /\ g.pc = phase /\ g.mode = t.mode
        /\ g.success = t.success
        /\ g.changed = t.changed /\ g.preserve = t.preserve /\ g.snap = t.snap
    BY <1>1, <2>1, AtFields
  <2>3. Update(p, u)
    BY <1>1, <1>6, <2>1, GotoTyped
  <2> HIDE DEF g
  <2>4. u \in Tasks
    BY <2>2, FieldsTyped, Zenon
  <2>5. /\ u.pc = phase /\ u.mode = t.mode /\ u.success = t.success
        /\ u.changed = t.changed /\ u.preserve = t.preserve /\ u.snap = t.snap
    BY <2>2 DEF Records
  <2> HIDE DEF u, t
  <2> QED BY <1>4, <2>3, <2>4, <2>5
<1>7. CASE AuditAfter(p)
  <2> DEFINE Ends(compliant) ==
        Update(p, [Goto(p, "report") EXCEPT !.code = Verdict(p, compliant)])
  <2>1. \/ \E works \in BOOLEAN : Ends(works /\ ScopeCompliant(sys, ftpExposed))
        \/ \E read \in Misread(sys) \cup {sys}, exposed \in BOOLEAN :
             Ends(ScopeCompliant(read, exposed))
        \/ Update(p, Abort(p))
    BY <1>7 DEF AuditAfter
  <2>2. ASSUME NEW compliant, Ends(compliant) PROVE Keeps(p)
    <3>1. Verdict(p, compliant) \in {0, 1, 3}
      BY DEF Verdict
    <3>2. \E c \in {0, 1, 3, 6, 7} : Update(p, [Goto(p, "report") EXCEPT !.code = c])
      BY <2>2, <3>1, Zenon
    <3> QED BY <1>6, <3>2
  <2>3. t.pc = "after"
    BY <1>7 DEF AuditAfter
  <2> HIDE DEF Ends
  <2> QED BY <1>3, <2>1, <2>2, <2>3
<1>8. CASE Report(p)
  <2>1. \/ Update(p, Abort(p))
        \/ \E next \in {"pause", "upload", "exit"} : Update(p, Goto(p, next))
    BY <1>8 DEF Report
  <2>2. t.pc = "report"
    BY <1>8 DEF Report
  <2> QED BY <1>3, <1>5, <2>1, <2>2
<1>9. CASE Upload(p)
  <2>1. \/ Update(p, Goto(p, "exit"))
        \/ task[p].attempt < 2 /\ Update(p, [task[p] EXCEPT !.attempt = @ + 1])
        \/ \E c \in {6, 7} : Update(p, [Goto(p, "exit") EXCEPT !.code = c])
    <3>1. \/ Update(p, Goto(p, "exit"))
          \/ task[p].attempt < 2 /\ Update(p, [task[p] EXCEPT !.attempt = @ + 1])
          \/ Update(p, [Goto(p, "exit") EXCEPT !.code = IF @ = 0 THEN 6 ELSE 7])
      BY <1>9 DEF Upload
    <3> QED BY <3>1
  <2>2. CASE task[p].attempt < 2 /\ Update(p, [task[p] EXCEPT !.attempt = @ + 1])
    <3> DEFINE n == t.attempt + 1
               u == [t EXCEPT !.attempt = n]
    <3>1. n \in 0..2
      BY <1>1, <2>2 DEF Records
    <3>2. Update(p, u)
      BY <2>2
    <3>3. t.pc = "upload"
      BY <1>9 DEF Upload
    <3> HIDE DEF n
    <3>4. u \in Tasks
      BY <1>1, <3>1, FieldsTyped, Zenon
    <3>5. /\ u.pc = t.pc /\ u.mode = t.mode /\ u.success = t.success
          /\ u.changed = t.changed /\ u.preserve = t.preserve /\ u.snap = t.snap
      BY <1>1 DEF Records
    <3> HIDE DEF u, t
    <3> QED BY <1>4, <3>2, <3>3, <3>4, <3>5
  <2> QED BY <1>5, <1>6, <2>1, <2>2
<1>10. CASE Pause(p)
  BY <1>5, <1>10 DEF Pause
<1> QED BY <1>7, <1>8, <1>9, <1>10
-----------------------------------------------------------------------------
(* Every step of the system.                                               *)

LEMMA WorkStepKeeps ==
  ASSUME Ready, NEW p \in Proc, Step(p) \/ Confirm(p) \/ Pause(p), ~Exit(p)
  PROVE  /\ Keeps(p)
         /\ (\E works \in BOOLEAN : Calls(p, works) \/ Walks(p, works)) \/ seen' = seen
<1>1. Keeps(p)
  BY AuditBeforeKeeps, ConfirmKeeps, AuthorizeKeeps, LoadKeeps, CaptureKeeps, SaveBackupKeeps,
     InspectKeeps, RepairStepsKeep, RestoreStepsKeep, EnumerateKeeps, ListDoneKeeps,
     FirewallKeeps, ReportingKeeps DEF Step
<1>2. \/ AuditBefore(p) \/ FindBackup(p) \/ Capture(p) \/ SaveBackup(p) \/ LoadBackup(p)
      \/ InspectScanCompatibility(p) \/ EnumerateNetbios(p)
      => \E works \in BOOLEAN : Calls(p, works) \/ Walks(p, works)
  BY DEF AuditBefore, FindBackup, Capture, SaveBackup, LoadBackup, InspectScanCompatibility,
         EnumerateNetbios
<1>3. \/ RepairProfiles(p) \/ RemoveLegacyRules(p) \/ RepairRules(p) \/ RepairServices(p)
      \/ RepairRdp(p) \/ RepairNetbios(p)
      => \E works \in BOOLEAN : Calls(p, works) \/ Walks(p, works)
  BY DEF RepairProfiles, RemoveLegacyRules, RepairRules, RepairServices, RepairRdp, RepairNetbios
<1>4. \/ RestoreProfiles(p) \/ RemoveManagedRules(p) \/ AddStateRules(p)
      \/ RestoreServices(p) \/ RestoreDwords(p)
      => \E works \in BOOLEAN : Calls(p, works) \/ Walks(p, works)
  BY DEF RestoreProfiles, RemoveManagedRules, AddStateRules, RestoreServices, RestoreDwords
<1>5. FirewallUnavailable(p) \/ AuditAfter(p) \/ Report(p) =>
        \E works \in BOOLEAN : Calls(p, works) \/ Walks(p, works)
  BY DEF FirewallUnavailable, AuditAfter, Report
<1>6. Confirm(p) \/ Authorize(p) \/ ListDone(p) \/ Upload(p) \/ Pause(p) => seen' = seen
  BY DEF Confirm, Authorize, ListDone, Upload, Pause
<1> QED BY <1>1, <1>2, <1>3, <1>4, <1>5, <1>6 DEF Step

\* What a worker does to the host does not concern the processes at rest.
LEMMA WorkKeepsProgress ==
  ASSUME Ready, NEW p \in Proc, Step(p) \/ Confirm(p) \/ Pause(p), ~Exit(p)
  PROVE  ProgressInv' /\ seen' \in [Proc -> Observations] /\ backupLost' = backupLost
<1>1. Typed /\ Exclusive /\ SavedServices(backup.snap)
  BY DEF Ready, ProgressInv
<1>2. Keeps(p) /\ ((\E works \in BOOLEAN : Calls(p, works) \/ Walks(p, works)) \/ seen' = seen)
  BY WorkStepKeeps
<1>3. seen' \in [Proc -> Observations]
  BY <1>2, CallsSeen
<1>4. PICK t \in Tasks : Update(p, t) /\ Progress(t, seen'[p], sys', backup', backupLost)
  BY <1>2 DEF Keeps
<1>5. task'[p] = t /\ \A q \in Proc : q # p => task'[q] = task[q]
  BY <1>1, <1>4, UpdateTyped
<1>6. Reads(p) \/ Writes(p) \/ Saves(p)
  BY <1>1, SaveBackupSaves, RepairStepsWrite, RestoreStepsWrite, CaptureReads,
     AuditBeforeReads, ConfirmReads, AuthorizeReads, LoadSteps, InspectReads,
     EnumerateReads, ListDoneReads, FirewallReads, ReportingReads DEF Step
<1>7. backupLost' = backupLost /\ task[p].pc \in Active
  BY <1>6 DEF Reads, Writes, Saves, GoesOn, history
<1>8. SavedServices(backup'.snap)
  <2>1. CASE Reads(p) \/ Writes(p)
    <3>1. backup' = backup
      BY <2>1 DEF Reads, Writes
    <3> QED BY <1>1, <3>1
  <2>2. CASE Saves(p)
    <3>1. backup'.snap = task[p].snap
      BY <2>2 DEF Saves
    <3>2. SavedServices(task[p].snap)
      BY DEF Ready, ProgressInv, Progress
    <3> QED BY <3>1, <3>2
  <2> QED BY <1>6, <2>1, <2>2
<1>9. ASSUME NEW q \in Proc
      PROVE  Progress(task'[q], seen'[q], sys', backup', backupLost')
  <2>1. CASE q = p
    BY <1>4, <1>5, <1>7, <2>1
  <2>2. CASE q # p
    <3>1. task[q].pc \in {"out", "refused"} /\ task'[q] = task[q]
      BY <1>1, <1>5, <1>7, <2>2, OthersRest
    <3>2. Progress(task[q], seen[q], sys, backup, backupLost)
      BY DEF Ready, ProgressInv
    <3> QED BY <3>1, <3>2, RestStays
  <2> QED BY <2>1, <2>2
<1> QED BY <1>3, <1>7, <1>8, <1>9 DEF ProgressInv

\* A process that comes or goes has nothing behind it.
LEMMA ComingKeepsProgress ==
  ASSUME Ready, NEW p \in Proc,
         Start(p) \/ StartRefused(p) \/ StartWithoutMutex(p) \/ Exit(p) \/ Kill(p)
  PROVE  ProgressInv' /\ seen' \in [Proc -> Observations] /\ backupLost' = backupLost
<1>1. /\ Typed /\ sys \in Settings /\ seen \in [Proc -> Observations] /\ backupLost \in BOOLEAN
      /\ SavedServices(backup.snap) /\ SavedServices(NoSettings) /\ Idle \in Records
      /\ Idle.success = FALSE /\ Idle.changed = FALSE /\ Idle.snap = NoSettings
      /\ Idle.mode = "none" /\ Idle.pc = "out"
  BY IdleTyped, NothingSaved DEF Ready, Typed, ProgressInv, Tasks, Idle
<1>2. UNCHANGED <<sys, backup, backupLost>>
  BY DEF Start, StartRefused, StartWithoutMutex, Exit, Kill, Gone, HostUnchanged, history
<1>3. PICK t \in Tasks, e \in Observations :
        /\ Update(p, t) /\ seen' = [seen EXCEPT ![p] = e]
        /\ Progress(t, e, sys, backup, backupLost)
  <2>1. CASE Start(p)
    <3>1. PICK j \in Jobs : Update(p, Launched(j))
      BY <2>1 DEF Start
    <3> DEFINE u == Launched(j)
               had == backup.status = "valid"
               e == [Unseen EXCEPT !.start = sys, !.hadBackup = had]
    <3>2. PICK v \in Tasks : v.pc = "before" /\ Update(p, v)
      BY <1>1, <2>1, ComingAndGoing DEF Begins
    <3>3. u = v
      BY <1>1, <3>1, <3>2 DEF Typed, Update
    <3>4. ~u.success /\ ~u.changed /\ u.snap = NoSettings
      BY <1>1, Zenon DEF Launched, Records
    <3>5. had \in BOOLEAN
      OBVIOUS
    <3>6. seen' = [seen EXCEPT ![p] = e]
      BY <2>1 DEF Start
    <3> HIDE DEF u, had
    <3>7. e \in Observations /\ e.start = sys /\ e.hadBackup = had
      BY <1>1, <3>5 DEF Observations, Unseen
    <3> HIDE DEF e
    <3>8. SavedServices(u.snap)
      BY <1>1, <3>4
    <3>9. Progress(u, e, sys, backup, backupLost)
      BY <1>1, <3>2, <3>3, <3>4, <3>7, <3>8, StartedProgress DEF had
    <3> QED BY <3>2, <3>3, <3>6, <3>7, <3>9
  <2>2. CASE StartRefused(p) \/ StartWithoutMutex(p)
    <3> DEFINE u == [Idle EXCEPT !.pc = "refused", !.code = 8]
    <3>1. Update(p, u) /\ seen' = seen
      BY <2>2 DEF StartRefused, StartWithoutMutex
    <3>2. /\ u \in Records /\ u.pc = "refused" /\ u.todo = <<>> /\ u.mode = "none"
          /\ u.snap = NoSettings
      BY <1>1 DEF Records, Phases, Idle
    <3> HIDE DEF u
    <3>3. u \in Tasks
      <4>1. <<>> \in Seq(Items)
        OBVIOUS
      <4>2. TodoFits("refused", <<>>)
        BY <4>1 DEF TodoFits
      <4> QED BY <3>2, <4>2 DEF Tasks
    <3>4. SavedServices(u.snap)
      BY <1>1, <3>2
    <3>5. Progress(u, seen[p], sys, backup, backupLost)
      BY <3>2, <3>4, RestingProgress
    <3>6. seen' = [seen EXCEPT ![p] = seen[p]] /\ seen[p] \in Observations
      BY <1>1, <3>1
    <3> QED BY <3>1, <3>3, <3>5, <3>6
  <2>3. CASE Exit(p) \/ Kill(p)
    <3>1. Update(p, Idle) /\ seen' = [seen EXCEPT ![p] = Unseen]
      BY <2>3 DEF Exit, Kill, Gone
    <3>2. Unseen \in Observations
      BY NoSettingsTyped DEF Observations, Unseen
    <3>3. Progress(Idle, Unseen, sys, backup, backupLost)
      BY <1>1, RestingProgress
    <3> QED BY <3>1, <3>2, <3>3, IdleTyped
  <2> QED BY <2>1, <2>2, <2>3
<1>4. task'[p] = t /\ \A q \in Proc : q # p => task'[q] = task[q]
  BY <1>1, <1>3, UpdateTyped
<1>5. /\ seen' \in [Proc -> Observations] /\ seen'[p] = e
      /\ \A q \in Proc : q # p => seen'[q] = seen[q]
  BY <1>1, <1>3
<1>6. ASSUME NEW q \in Proc
      PROVE  Progress(task'[q], seen'[q], sys, backup, backupLost)
  <2>1. CASE q = p
    BY <1>3, <1>4, <1>5, <2>1
  <2>2. CASE q # p
    <3>1. task'[q] = task[q] /\ seen'[q] = seen[q]
      BY <1>4, <1>5, <2>2
    <3>2. Progress(task[q], seen[q], sys, backup, backupLost)
      BY DEF Ready, ProgressInv
    <3> QED BY <3>1, <3>2
  <2> QED BY <2>1, <2>2
<1>7. ASSUME NEW q \in Proc
      PROVE  Progress(task'[q], seen'[q], sys', backup', backupLost')
  BY <1>2, <1>6
<1>8. SavedServices(backup'.snap)
  BY <1>1, <1>2
<1> QED BY <1>2, <1>5, <1>7, <1>8 DEF ProgressInv

\* A process that others disturb knows what to except.
LEMMA DisturbedProgress ==
  ASSUME Ready, NEW i \in Items, Disturb(i), UNCHANGED <<backup, task, backupLost>>,
         \A j \in Items : j # i => sys'[j] = sys[j]
  PROVE  ProgressInv' /\ seen' \in [Proc -> Observations]
<1>1. seen \in [Proc -> Observations] /\ backupLost \in BOOLEAN /\ SavedServices(backup.snap)
  BY DEF Ready, ProgressInv
<1>2. ASSUME NEW q \in Proc
      PROVE  /\ seen'[q] \in Observations
             /\ Progress(task[q], seen'[q], sys', backup, backupLost)
  <2> DEFINE e == seen[q]
             e2 == [e EXCEPT !.disturbed = @ \cup {i}]
  <2>1. Progress(task[q], e, sys, backup, backupLost) /\ e \in Observations
    BY <1>1 DEF Ready, ProgressInv
  <2>2. CASE task[q].pc = "out"
    <3>1. seen'[q] = e
      BY <2>2 DEF Disturb
    <3> QED BY <2>1, <2>2, <3>1, RestStays
  <2>3. CASE task[q].pc # "out"
    <3>1. seen'[q] = e2
      BY <2>3 DEF Disturb
    <3> HIDE DEF e
    <3>2. /\ e2 \in Observations /\ e2.start = e.start /\ e2.hadBackup = e.hadBackup
          /\ e2.disturbed = e.disturbed \cup {i} /\ e2.clean = e.clean /\ e2.hidden = e.hidden
      BY <2>1 DEF Observations
    <3> HIDE DEF e2
    <3>3. /\ e.disturbed \subseteq e2.disturbed /\ e2.clean => e.clean
          /\ \A j \in Items \ e2.disturbed : sys'[j] = sys[j]
      BY <3>2
    <3>4. Progress(task[q], e2, sys', backup, backupLost)
      BY <1>1, <2>1, <3>2, <3>3, ProgressUndisturbed
    <3> QED BY <3>1, <3>2, <3>4
  <2> QED BY <2>2, <2>3
<1>3. seen' \in [Proc -> Observations]
  BY <1>2 DEF Disturb
<1>4. ASSUME NEW q \in Proc
      PROVE  Progress(task'[q], seen'[q], sys', backup', backupLost')
  BY <1>2
<1> QED BY <1>1, <1>3, <1>4 DEF ProgressInv

LEMMA EnvironmentKeepsProgress ==
  ASSUME Ready, Environment
  PROVE  ProgressInv' /\ seen' \in [Proc -> Observations] /\ backupLost' \in BOOLEAN
<1>1. /\ Typed /\ sys \in Settings /\ seen \in [Proc -> Observations] /\ backupLost \in BOOLEAN
      /\ SavedServices(backup.snap)
      /\ \A q \in Proc : Progress(task[q], seen[q], sys, backup, backupLost)
  BY DEF Ready, Typed, ProgressInv
<1>2. ASSUME NEW i \in OthersMayTouch, OthersChange(i)
      PROVE  ProgressInv' /\ seen' \in [Proc -> Observations] /\ backupLost' \in BOOLEAN
  <2>1. i \in Items /\ UNCHANGED <<backup, task, backupLost>> /\ Disturb(i)
    BY <1>2, WorkflowAssumption DEF OthersChange
  <2>2. \A j \in Items : j # i => sys'[j] = sys[j]
    BY <1>1, <1>2 DEF OthersChange, Settings
  <2> QED BY <1>1, <2>1, <2>2, DisturbedProgress
<1>3. CASE FtpChanges
  <2>1. UNCHANGED <<sys, seen, task, backup, backupLost>>
    BY <1>3 DEF FtpChanges, observers, history
  <2>2. ASSUME NEW q \in Proc PROVE Progress(task'[q], seen'[q], sys', backup', backupLost')
    BY <1>1, <2>1
  <2> QED BY <1>1, <2>1, <2>2 DEF ProgressInv
<1>4. CASE BackupHit
  <2>1. /\ UNCHANGED <<sys, seen, task>> /\ backupLost' = TRUE
        /\ backup'.status # "valid" /\ backup'.snap = NoSettings
    BY <1>4 DEF BackupHit
  <2>2. ASSUME NEW q \in Proc PROVE Progress(task'[q], seen'[q], sys', backup', backupLost')
    <3>1. Progress(task[q], seen[q], sys, backup', TRUE)
      BY <1>1, <2>1, ProgressUndisturbed
    <3> QED BY <2>1, <3>1
  <2>3. SavedServices(backup'.snap)
    BY <2>1, NothingSaved
  <2> QED BY <1>1, <2>1, <2>2, <2>3 DEF ProgressInv
<1>5. ASSUME NEW i \in ToSet(Services), ServiceStops(i)
      PROVE  ProgressInv' /\ seen' \in [Proc -> Observations] /\ backupLost' \in BOOLEAN
  <2>1. i \in Items /\ UNCHANGED <<backup, task, backupLost>> /\ Disturb(i)
    BY <1>5, ItemKinds DEF ServiceStops, history
  <2>2. \A j \in Items : j # i => sys'[j] = sys[j]
    BY <1>1, <1>5 DEF ServiceStops, Settings
  <2> QED BY <1>1, <2>1, <2>2, DisturbedProgress
<1> QED BY <1>2, <1>3, <1>4, <1>5 DEF Environment

LEMMA InitReady == Init => Ready
<1> SUFFICES ASSUME Init PROVE Ready
  OBVIOUS
<1>1. Typed /\ Exclusive
  BY InitTyped, InitExclusive
<1>2. Unseen \in Observations
  BY NoSettingsTyped DEF Observations, Unseen
<1>3. seen \in [Proc -> Observations] /\ backupLost \in BOOLEAN
  BY <1>2 DEF Init
<1>4. SavedServices(backup.snap)
  BY NothingSaved DEF Init, NoBackup
<1>5. ASSUME NEW p \in Proc PROVE Progress(task[p], seen[p], sys, backup, backupLost)
  <2>1. task[p].pc = "out" /\ task[p].mode = "none" /\ task[p].snap = NoSettings
    BY DEF Init, Idle
  <2>2. SavedServices(task[p].snap)
    BY <2>1, NothingSaved
  <2> QED BY <2>1, <2>2, RestingProgress
<1> QED BY <1>1, <1>3, <1>4, <1>5 DEF Ready, ProgressInv

LEMMA NextReady == Ready /\ [Next]_vars => Ready'
<1> SUFFICES ASSUME Ready, [Next]_vars PROVE Ready'
  OBVIOUS
<1>1. Typed' /\ Exclusive' /\ backupLost \in BOOLEAN
  BY NextTyped, NextExclusive DEF Ready
<1>2. ASSUME NEW p \in Proc, Step(p) \/ Confirm(p) \/ Pause(p), ~Exit(p) PROVE Ready'
  BY <1>1, <1>2, WorkKeepsProgress DEF Ready
<1>3. ASSUME NEW p \in Proc,
             Start(p) \/ StartRefused(p) \/ StartWithoutMutex(p) \/ Exit(p) \/ Kill(p)
      PROVE  Ready'
  BY <1>1, <1>3, ComingKeepsProgress DEF Ready
<1>4. CASE Environment
  BY <1>1, <1>4, EnvironmentKeepsProgress DEF Ready
<1>5. CASE UNCHANGED vars
  <2>1. UNCHANGED <<sys, seen, task, backup, backupLost>>
    BY <1>5 DEF vars, host, observers, history
  <2>2. ASSUME NEW q \in Proc PROVE Progress(task'[q], seen'[q], sys', backup', backupLost')
    BY <2>1 DEF Ready, ProgressInv
  <2>3. SavedServices(backup'.snap) /\ seen' \in [Proc -> Observations]
    BY <2>1 DEF Ready, ProgressInv
  <2> QED BY <1>1, <2>1, <2>2, <2>3 DEF Ready, ProgressInv
<1> QED BY <1>2, <1>3, <1>4, <1>5 DEF Next

LEMMA AlwaysReady == Spec => []Ready
  BY InitReady, NextReady, PTL DEF Spec

-----------------------------------------------------------------------------
(* Exit codes.                                                             *)

Ending == {"report", "upload", "pause", "exit"}

\* Only an operator is asked, and a code 0 or 6 after the question is that
\* of a success.
CodeTells(t) ==
  /\ t.pc = "confirm" => t.tool = "onsite"
  /\ /\ t.pc \in Ending /\ t.mode = "repair"
     /\ t.code \in {0, 6} /\ (t.tool = "ftp" \/ t.changed)
     => t.success

CodesTell == \A p \in Proc : CodeTells(task[p])

\* A step of p leaves the other processes as they are.
LEMMA StepTells ==
  ASSUME Typed, CodesTell, NEW p \in Proc, NEW t, Update(p, t), CodeTells(t)
  PROVE  CodesTell'
<1>1. task'[p] = t /\ \A q \in Proc : q # p => task'[q] = task[q]
  BY DEF Typed, Update
<1> QED BY <1>1 DEF CodesTell, CodeTells

\* Elsewhere a code says nothing yet.
LEMMA ElsewhereTells ==
  ASSUME Typed, CodesTell, NEW p \in Proc, NEW t, Update(p, t),
         t.pc \notin Ending \cup {"confirm"}
  PROVE  CodesTell'
<1>1. CodeTells(t)
  BY DEF CodeTells, Ending
<1> QED BY <1>1, StepTells

LEMMA GotoFields ==
  ASSUME Typed, NEW p \in Proc, NEW phase
  PROVE  /\ Goto(p, phase).pc = phase /\ Goto(p, phase).tool = task[p].tool
         /\ Goto(p, phase).mode = task[p].mode /\ Goto(p, phase).success = task[p].success
         /\ Goto(p, phase).changed = task[p].changed /\ Goto(p, phase).code = task[p].code
         /\ GiveUp(p).pc = "after"
<1>1. task[p] \in Records
  BY DEF Typed, Tasks
<1> QED BY <1>1 DEF Goto, GiveUp, Records

\* An aborted run has code 1, a finished one that of its verdict.
LEMMA AbortTells ==
  ASSUME Typed, CodesTell, NEW p \in Proc, Update(p, Abort(p))
  PROVE  CodesTell'
<1>1. task[p] \in Records
  BY DEF Typed, Tasks
<1>2. Abort(p).code = 1 /\ Abort(p).pc \in {"pause", "exit"}
  BY <1>1 DEF Abort, Records
<1>3. CodeTells(Abort(p))
  BY <1>2 DEF CodeTells, Ending
<1> QED BY <1>3, StepTells

LEMMA AttemptTells ==
  ASSUME Typed, CodesTell, NEW p \in Proc, NEW outcomes, Attempt(p, outcomes),
         task[p].pc \in RepairPhases \cup RestorePhases
  PROVE  CodesTell'
<1>1. task[p] \in Records
  BY DEF Typed, Tasks
<1>2. PICK o \in outcomes :
        Update(p, [task[p] EXCEPT !.todo = Tail(@), !.success = @ /\ o.ok,
                                  !.changed = @ \/ o.changed])
  BY DEF Attempt
<1> DEFINE t == [task[p] EXCEPT !.todo = Tail(@), !.success = @ /\ o.ok,
                                !.changed = @ \/ o.changed]
<1>3. t.pc = task[p].pc
  BY <1>1 DEF Records
<1> HIDE DEF t
<1>4. t.pc \notin Ending \cup {"confirm"}
  BY <1>3 DEF Ending, RepairPhases, RestorePhases
<1> QED BY <1>2, <1>4, ElsewhereTells DEF t

LEMMA WritingTells ==
  ASSUME Typed, CodesTell, NEW p \in Proc,
         \/ RepairProfiles(p) \/ RemoveLegacyRules(p) \/ RepairRules(p) \/ RepairServices(p)
         \/ RepairRdp(p) \/ RepairNetbios(p) \/ RestoreProfiles(p) \/ RemoveManagedRules(p)
         \/ AddStateRules(p) \/ RestoreServices(p) \/ RestoreDwords(p)
  PROVE  CodesTell'
<1>1. task[p].pc \in RepairPhases \cup RestorePhases
  BY DEF RepairProfiles, RemoveLegacyRules, RepairRules, RepairServices, RepairRdp,
         RepairNetbios, RestoreProfiles, RemoveManagedRules, AddStateRules, RestoreServices,
         RestoreDwords, RepairPhases, RestorePhases
<1>2. \E outcomes : Attempt(p, outcomes)
  BY DEF RepairProfiles, RemoveLegacyRules, RepairRules, RepairServices, RepairRdp,
         RepairNetbios, RestoreProfiles, RemoveManagedRules, AddStateRules, RestoreServices,
         RestoreDwords
<1> QED BY <1>1, <1>2, AttemptTells

LEMMA PreparingTells ==
  ASSUME Typed, CodesTell, NEW p \in Proc,
         \/ FindBackup(p) \/ Capture(p) \/ SaveBackup(p) \/ LoadBackup(p)
         \/ InspectScanCompatibility(p) \/ EnumerateNetbios(p) \/ ListDone(p)
         \/ FirewallUnavailable(p)
  PROVE  CodesTell'
<1>1. task[p] \in Records
  BY DEF Typed, Tasks
<1>2. ASSUME NEW t, Update(p, t), t.pc \notin Ending \cup {"confirm"} PROVE CodesTell'
  BY <1>2, ElsewhereTells
<1>3. CASE Update(p, GiveUp(p))
  BY <1>2, <1>3, GotoFields DEF Ending
<1>4. CASE FindBackup(p)
  BY <1>2, <1>3, <1>4, GotoFields DEF FindBackup, Ending
<1>5. CASE Capture(p)
  <2>1. ASSUME NEW i, NEW v, Update(p, [task[p] EXCEPT !.todo = Tail(@), !.snap[i] = v])
        PROVE  CodesTell'
    <3>1. task[p].pc = "capture"
      BY <1>5 DEF Capture
    <3>2. [task[p] EXCEPT !.todo = Tail(@), !.snap[i] = v].pc = "capture"
      BY <1>1, <3>1 DEF Records
    <3> QED BY <1>2, <2>1, <3>2 DEF Ending
  <2> QED BY <1>3, <1>5, <2>1 DEF Capture
<1>6. CASE SaveBackup(p)
  <2> DEFINE t == [Goto(p, "compat") EXCEPT !.changed = TRUE, !.snap = NoSettings]
  <2>1. t.pc = "compat"
    BY <1>1 DEF Goto, Records
  <2>2. Update(p, t) \/ Update(p, GiveUp(p))
    BY <1>6 DEF SaveBackup
  <2> HIDE DEF t
  <2> QED BY <1>2, <1>3, <2>1, <2>2 DEF Ending
<1>7. CASE LoadBackup(p)
  <2> DEFINE t == [Goto(p, "restoreProfiles") EXCEPT !.snap = backup.snap]
  <2>1. t.pc = "restoreProfiles"
    BY <1>1 DEF Goto, Records
  <2>2. Update(p, t) \/ Update(p, GiveUp(p))
    BY <1>7 DEF LoadBackup
  <2> HIDE DEF t
  <2> QED BY <1>2, <1>3, <2>1, <2>2 DEF Ending
<1>8. CASE InspectScanCompatibility(p)
  <2>1. PICK found \in BOOLEAN : Update(p, [Goto(p, "profiles") EXCEPT !.preserve = found])
    BY <1>8 DEF InspectScanCompatibility
  <2> DEFINE t == [Goto(p, "profiles") EXCEPT !.preserve = found]
  <2>2. t.pc = "profiles"
    BY <1>1 DEF Goto, Records
  <2> HIDE DEF t
  <2> QED BY <1>2, <2>1, <2>2 DEF Ending, t
<1>9. CASE EnumerateNetbios(p)
  <2> DEFINE g == Goto(p, "netbios")
             t == [g EXCEPT !.todo = Present(sys),
                            !.changed = @ \/ \E a \in ToSet(Present(sys)) : sys[a] # "disabled"]
  <2>1. t.pc = "netbios"
    BY <1>1 DEF Goto, Records
  <2>2. Update(p, t) \/ Update(p, GiveUp(p))
    BY <1>9 DEF EnumerateNetbios
  <2> HIDE DEF t
  <2> QED BY <1>2, <1>3, <2>1, <2>2 DEF Ending
<1>10. CASE ListDone(p)
  <2> DEFINE next == NextPhase[task[p].pc]
             t == [Goto(p, next) EXCEPT
                     !.todo = IF next = "restoreNetbios" THEN Present(task[p].snap) ELSE @,
                     !.snap = IF next = "after" THEN NoSettings ELSE @]
  <2>1. next \notin Ending \cup {"confirm"}
    BY <1>10 DEF ListDone, ListPhases, NextPhase, Ending
  <2>2. Update(p, t)
    BY <1>10 DEF ListDone
  <2> HIDE DEF next
  <2>3. t.pc = next
    BY <1>1 DEF Goto, Records
  <2> HIDE DEF t
  <2> QED BY <1>2, <2>1, <2>2, <2>3
<1>11. CASE FirewallUnavailable(p)
  <2>1. PICK phase \in {"services", "restoreServices"} :
          Update(p, [Goto(p, phase) EXCEPT !.success = FALSE])
    BY <1>11 DEF FirewallUnavailable
  <2> DEFINE t == [Goto(p, phase) EXCEPT !.success = FALSE]
  <2>2. t.pc = phase
    BY <1>1 DEF Goto, Records
  <2> HIDE DEF t
  <2> QED BY <1>2, <2>1, <2>2 DEF Ending, t
<1> QED BY <1>4, <1>5, <1>6, <1>7, <1>8, <1>9, <1>10, <1>11

LEMMA BeforeTells ==
  ASSUME Ready, CodesTell, NEW p \in Proc, AuditBefore(p) \/ Confirm(p) \/ Authorize(p)
  PROVE  CodesTell'
<1> DEFINE t == task[p]
<1>1. Typed /\ t \in Records /\ CodeTells(t)
  BY DEF Ready, Typed, Tasks, CodesTell
<1>2. CASE AuditBefore(p)
  <2>1. ASSUME NEW c, Update(p, [t EXCEPT !.code = c,
                        !.pc = IF t.mode = "audit" THEN "report"
                               ELSE IF t.tool = "onsite" THEN "confirm" ELSE "authorize"])
        PROVE  CodesTell'
    <3> DEFINE u == [t EXCEPT !.code = c,
                        !.pc = IF t.mode = "audit" THEN "report"
                               ELSE IF t.tool = "onsite" THEN "confirm" ELSE "authorize"]
    <3>1. /\ u.mode = t.mode /\ u.tool = t.tool
          /\ u.pc = IF t.mode = "audit" THEN "report"
                    ELSE IF t.tool = "onsite" THEN "confirm" ELSE "authorize"
      BY <1>1 DEF Records
    <3> HIDE DEF u
    <3>2. CodeTells(u)
      BY <3>1 DEF CodeTells, Ending
    <3> QED BY <1>1, <2>1, <3>2, StepTells DEF u
  <2> QED BY <1>1, <1>2, <2>1, AbortTells DEF AuditBefore
<1>3. CASE Confirm(p)
  <2>1. PICK answer \in {"authorize", "report"} : Update(p, Goto(p, answer))
    BY <1>3 DEF Confirm
  <2>2. t.pc = "confirm" /\ t.tool = "onsite"
    BY <1>1, <1>3 DEF Confirm, CodeTells
  <2>3. t.mode = "repair" => ~t.changed
    BY <2>2 DEF Ready, ProgressInv, Progress, BeforeRepair, EarlyPhases, NotStarted
  <2> DEFINE u == Goto(p, answer)
  <2>4. u.pc = answer /\ u.tool = t.tool /\ u.mode = t.mode /\ u.changed = t.changed
    BY <1>1, GotoFields
  <2> HIDE DEF u
  <2>5. CodeTells(u)
    BY <2>2, <2>3, <2>4 DEF CodeTells, Ending
  <2> QED BY <1>1, <2>1, <2>5, StepTells DEF u
<1>4. CASE Authorize(p)
  <2>1. CASE Update(p, [Goto(p, "load") EXCEPT !.success = TRUE])
    <3> DEFINE u == [Goto(p, "load") EXCEPT !.success = TRUE]
    <3>1. u.pc = "load"
      BY <1>1 DEF Goto, Records
    <3> HIDE DEF u
    <3> QED BY <1>1, <2>1, <3>1, ElsewhereTells DEF Ending, u
  <2>2. ASSUME NEW phase \in {"report", "after"}, Update(p, [Goto(p, phase) EXCEPT !.code = 3])
        PROVE  CodesTell'
    <3> DEFINE u == [Goto(p, phase) EXCEPT !.code = 3]
    <3>1. u.code = 3 /\ u.pc = phase
      BY <1>1 DEF Goto, Records
    <3> HIDE DEF u
    <3>2. CodeTells(u)
      BY <3>1 DEF CodeTells
    <3> QED BY <1>1, <2>2, <3>2, StepTells DEF u
  <2> QED BY <1>4, <2>1, <2>2 DEF Authorize
<1> QED BY <1>2, <1>3, <1>4

LEMMA EndingTells ==
  ASSUME Ready, CodesTell, NEW p \in Proc, AuditAfter(p) \/ Report(p) \/ Upload(p) \/ Pause(p)
  PROVE  CodesTell'
<1> DEFINE t == task[p]
<1>1. Typed /\ t \in Records /\ CodeTells(t)
  BY DEF Ready, Typed, Tasks, CodesTell
<1>2. CASE AuditAfter(p)
  <2>1. ASSUME NEW compliant, Update(p, [Goto(p, "report") EXCEPT !.code = Verdict(p, compliant)])
        PROVE  CodesTell'
    <3> DEFINE v == Verdict(p, compliant)
               u == [Goto(p, "report") EXCEPT !.code = v]
    <3>1. v \in {0, 6} => t.success
      BY DEF Verdict
    <3> HIDE DEF v
    <3>2. u.code = v /\ u.success = t.success /\ u.pc = "report"
      BY <1>1 DEF Goto, Records
    <3> HIDE DEF u
    <3>3. CodeTells(u)
      BY <3>1, <3>2 DEF CodeTells
    <3> QED BY <1>1, <2>1, <3>3, StepTells DEF u, v
  <2> QED BY <1>1, <1>2, <2>1, AbortTells DEF AuditAfter
<1>3. ASSUME NEW phase \in Ending, Update(p, Goto(p, phase)), t.pc \in Ending
      PROVE  CodesTell'
  <2> DEFINE u == Goto(p, phase)
  <2>1. /\ u.pc = phase /\ u.tool = t.tool /\ u.mode = t.mode /\ u.changed = t.changed
        /\ u.success = t.success /\ u.code = t.code
    BY <1>1, GotoFields
  <2> HIDE DEF u
  <2>2. CodeTells(u)
    BY <1>1, <1>3, <2>1 DEF CodeTells, Ending
  <2> QED BY <1>1, <1>3, <2>2, StepTells DEF u
<1>4. CASE Report(p)
  BY <1>1, <1>3, <1>4, AbortTells DEF Report, Ending
<1>5. CASE Upload(p)
  <2>1. t.pc = "upload"
    BY <1>5 DEF Upload
  <2>2. CASE Update(p, Goto(p, "exit"))
    BY <1>3, <2>1, <2>2 DEF Ending
  <2>3. CASE Update(p, [t EXCEPT !.attempt = @ + 1])
    <3> DEFINE u == [t EXCEPT !.attempt = @ + 1]
    <3>1. /\ u.pc = t.pc /\ u.tool = t.tool /\ u.mode = t.mode /\ u.changed = t.changed
          /\ u.success = t.success /\ u.code = t.code
      BY <1>1 DEF Records
    <3> HIDE DEF u
    <3>2. CodeTells(u)
      BY <1>1, <3>1 DEF CodeTells
    <3> QED BY <1>1, <2>3, <3>2, StepTells DEF u
  <2>4. CASE Update(p, [Goto(p, "exit") EXCEPT !.code = IF @ = 0 THEN 6 ELSE 7])
    <3> DEFINE u == [Goto(p, "exit") EXCEPT !.code = IF @ = 0 THEN 6 ELSE 7]
    <3>1. /\ u.pc = "exit" /\ u.tool = t.tool /\ u.mode = t.mode /\ u.changed = t.changed
          /\ u.success = t.success /\ u.code = IF t.code = 0 THEN 6 ELSE 7
      BY <1>1 DEF Goto, Records
    <3> HIDE DEF u
    <3>2. CodeTells(u)
      BY <1>1, <2>1, <3>1 DEF CodeTells, Ending
    <3> QED BY <1>1, <2>4, <3>2, StepTells DEF u
  <2> QED BY <1>5, <2>2, <2>3, <2>4 DEF Upload
<1>6. CASE Pause(p)
  BY <1>3, <1>6 DEF Pause, Ending
<1> QED BY <1>2, <1>4, <1>5, <1>6

LEMMA ComingTells ==
  ASSUME Ready, CodesTell, NEW p \in Proc,
         Start(p) \/ StartRefused(p) \/ StartWithoutMutex(p) \/ Exit(p) \/ Kill(p)
  PROVE  CodesTell'
<1>1. Typed
  BY DEF Ready
<1>2. ASSUME NEW t, Update(p, t), t.pc \in {"before", "refused", "out"} PROVE CodesTell'
  BY <1>1, <1>2, ElsewhereTells DEF Ending
<1>3. Idle.pc = "out" /\ [Idle EXCEPT !.pc = "refused", !.code = 8].pc = "refused"
  BY DEF Idle
<1>4. \A j \in Jobs : Launched(j).pc = "before"
  BY DEF Launched, Idle
<1>5. CASE Start(p)
  BY <1>2, <1>4, <1>5 DEF Start
<1>6. CASE StartRefused(p) \/ StartWithoutMutex(p)
  BY <1>2, <1>3, <1>6 DEF StartRefused, StartWithoutMutex
<1>7. CASE Exit(p) \/ Kill(p)
  BY <1>2, <1>3, <1>7 DEF Exit, Kill, Gone
<1> QED BY <1>5, <1>6, <1>7

LEMMA NextTells == Ready /\ CodesTell /\ [Next]_vars => CodesTell'
<1> SUFFICES ASSUME Ready, CodesTell, [Next]_vars PROVE CodesTell'
  OBVIOUS
<1>1. Typed
  BY DEF Ready
<1>2. ASSUME NEW p \in Proc, Step(p) PROVE CodesTell'
  BY <1>1, <1>2, WritingTells, PreparingTells, BeforeTells, EndingTells, ComingTells DEF Step
<1>3. ASSUME NEW p \in Proc, Confirm(p) \/ Pause(p) PROVE CodesTell'
  BY <1>3, BeforeTells, EndingTells
<1>4. CASE UNCHANGED task
  BY <1>4 DEF CodesTell, CodeTells
<1>5. CASE Environment
  BY <1>4, <1>5 DEF Environment, OthersChange, FtpChanges, BackupHit, ServiceStops
<1>6. CASE UNCHANGED vars
  BY <1>4, <1>6 DEF vars
<1> QED BY <1>2, <1>3, <1>5, <1>6, ComingTells DEF Next

LEMMA CodesAlwaysTell == Spec => [](Ready /\ CodesTell)
<1>1. Init => CodesTell
  BY DEF Init, Idle, CodesTell, CodeTells, Ending
<1> QED BY <1>1, InitReady, NextReady, NextTells, PTL DEF Spec

(***************************************************************************)
(* A repair that ends with result.success, or with exit code 0 or 6 after  *)
(* it was authorized, has brought every setting to its target that nobody  *)
(* else changed meanwhile, on any machine, with any number of rules,       *)
(* services and adapters and whatever calls failed on the way              *)
(* (ApplySystemRemediation).  Excepted are profiles kept off for an FTP    *)
(* receiver, and a firewall rule that could not be opened while FindRules  *)
(* went over the list: beside the hardened rule an old one of the same     *)
(* name may be left, for FindRules passes over it without an error.        *)
(***************************************************************************)
THEOREM HardenedAlwaysAsReported == Spec => []HardenedAsReported
<1>1. Ready /\ CodesTell => HardenedAsReported
  <2> SUFFICES ASSUME Ready, CodesTell, NEW p \in Proc, SaysHardened(task[p]),
                      NEW i \in Items \ seen[p].disturbed
               PROVE  \/ Target(i, sys[i])
                      \/ i \in ToSet(Profiles) /\ task[p].preserve
                      \/ i \in seen[p].hidden /\ HardenedButHidden(i, sys[i])
    BY DEF HardenedAsReported
  <2>1. Progress(task[p], seen[p], sys, backup, backupLost)
    BY DEF Ready, ProgressInv
  <2>2. /\ task[p].pc = "exit" /\ task[p].mode = "repair" /\ task[p].success
        /\ "exit" \in LatePhases
    BY DEF SaysHardened, CodesTell, CodeTells, Ending, LatePhases
  <2>3. Repaired(task[p], seen[p], sys)
    BY <2>1, <2>2 DEF Progress, DuringRepair
  <2>4. i \in Worked(task[p]) /\ i \in Undisturbed(seen[p])
    BY <2>2, EndPhases DEF Undisturbed
  <2> QED BY <2>3, <2>4 DEF Repaired, Reached
<1> QED BY CodesAlwaysTell, <1>1, PTL

(***************************************************************************)
(* The changed flag of a successful repair is exact, on any machine: it is *)
(* set whenever a setting differs or the backup is new, and, when no call  *)
(* failed and nobody interfered, only then.                                *)
(***************************************************************************)
THEOREM ChangeAlwaysReported == Spec => []ChangeReportedExactly
<1>1. Ready => ChangeReportedExactly
  <2> SUFFICES ASSUME Ready, NEW p \in Proc, task[p].pc = "after", task[p].mode = "repair",
                      task[p].success, ~backupLost
               PROVE  LET differs == \E i \in Items \ seen[p].disturbed : sys[i] # seen[p].start[i]
                          created == ~seen[p].hadBackup
                      IN  /\ differs \/ created => task[p].changed
                          /\ task[p].changed /\ seen[p].clean /\ seen[p].disturbed = {} =>
                               differs \/ created
    BY DEF ChangeReportedExactly
  <2>1. Progress(task[p], seen[p], sys, backup, backupLost)
    BY DEF Ready, ProgressInv
  <2>2. "after" \in LatePhases
    BY DEF LatePhases
  <2>3. Repaired(task[p], seen[p], sys) /\ ChangeIsDue(task[p], seen[p], sys)
    BY <2>1, <2>2 DEF Progress, DuringRepair
  <2>4. \A i : ~Listed(task[p], i)
    BY EndPhases
  <2>5. ASSUME NEW i \in Items \ seen[p].disturbed, sys[i] # seen[p].start[i]
        PROVE  task[p].changed
    BY <2>3, <2>5 DEF Repaired, Undisturbed
  <2>6. ~seen[p].hadBackup => task[p].changed
    BY <2>3 DEF ChangeIsDue
  <2>7. ASSUME task[p].changed, seen[p].clean, seen[p].disturbed = {}, seen[p].hadBackup
        PROVE  \E i \in Items \ seen[p].disturbed : sys[i] # seen[p].start[i]
    BY <2>3, <2>4, <2>7 DEF ChangeIsDue
  <2> QED BY <2>5, <2>6, <2>7
<1> QED BY AlwaysReady, <1>1, PTL

(***************************************************************************)
(* A rollback that reports success has brought back every saved setting    *)
(* that nobody else changed meanwhile, on any machine and from any valid   *)
(* backup (RollbackSystemRemediation); before the saved rules of a name    *)
(* those may be left that FindRules could not open when it removed them.   *)
(***************************************************************************)
THEOREM RollbackAlwaysRestores == Spec => []RollbackRestores
<1>1. Ready => RollbackRestores
  <2> SUFFICES ASSUME Ready, NEW p \in Proc, task[p].pc = "after", task[p].mode = "rollback",
                      task[p].success, backup.status = "valid",
                      NEW i \in Items \ seen[p].disturbed
               PROVE  BroughtBack(p, i)
    BY DEF RollbackRestores
  <2>1. Progress(task[p], seen[p], sys, backup, backupLost)
    BY DEF Ready, ProgressInv
  <2>2. i \in Worked(task[p]) /\ i \in Undisturbed(seen[p])
    BY EndPhases DEF Undisturbed
  <2>3. Back(i, seen[p], sys, backup.snap)
    BY <2>1, <2>2 DEF Progress, DuringRollback
  <2>4. Back(i, seen[p], sys, backup.snap) = BroughtBack(p, i)
    BY Zenon DEF Back, BroughtBack, Readded
  <2> QED BY <2>3, <2>4
<1> QED BY AlwaysReady, <1>1, PTL
==============================================================================
