----------------------------- MODULE KylinFirewall -----------------------------
(***************************************************************************)
(* The firewall component of the Kylin tools (internal/firewall): reads    *)
(* iptables-save, computes what is missing from or too much in its own     *)
(* chain, runs the iptables commands one by one, undoes them in reverse    *)
(* order if one fails, and reads again.  Where CEMS has taken INPUT over,  *)
(* it only removes rules of its own earlier versions.  No lock keeps two   *)
(* tools, or CEMS and a tool, from working at the same time.               *)
(***************************************************************************)
EXTENDS Integers, Sequences, FiniteSets, SequencesExt

CONSTANTS
  Proc,            \* processes that evaluate the component
  Required,        \* requiredRules, a sequence
  Legacy,          \* legacyRules, a sequence
  InitialTables,   \* tables a machine may have at first
  Listings,        \* how many INPUT rules of other tables iptables-save may
                   \* print before those of the filter table
  CemsPolicies,    \* contents CEMS_COMMON_INPUT may have
  OthersInsert,    \* rules of INPUT that others may insert
  OthersRemove,    \* ... and remove
  MaxStarts, MaxFaults, MaxOthers   \* bounds

VARIABLES
  table,       \* the filter table
  ahead,       \* INPUT rules of other tables printed first
  cems,        \* the rules of CEMS_COMMON_INPUT
  run,         \* the control state of each process
  starts, faults, others,
  seen         \* observer, per process: the tables since it read, the newest
               \* first; empty as soon as anybody else changes the table

vars == <<table, ahead, cems, run, starts, faults, others, seen>>

Rules == ToSet(Required) \cup ToSet(Legacy)

(***************************************************************************)
(* The filter table: does SEC_REMEDIATOR_INPUT exist, the rules of INPUT,  *)
(* and how often each rule of the program is in its chain.  All of them    *)
(* drop, so that their order does not matter.                              *)
(***************************************************************************)
Jump == "jump"     \* -j SEC_REMEDIATOR_INPUT
Cems == "cems"     \* -j CEMS_COMMON_INPUT

InputRules == {Jump, Cems, "accept", "other"}

Tables == [chain : BOOLEAN, input : Seq(InputRules), rules : [Rules -> Nat]]

\* Nothing refers to a chain that does not exist.
IsTable(t) ==
  /\ t \in Tables
  /\ ~t.chain => Jump \notin ToSet(t.input) /\ \A r \in Rules : t.rules[r] = 0

ASSUME FirewallAssumption ==
  /\ Required \in Seq(ToSet(Required)) /\ Legacy \in Seq(ToSet(Legacy))
  /\ ToSet(Required) \cap ToSet(Legacy) = {}
  /\ \A t \in InitialTables : IsTable(t)
  /\ Listings \subseteq Nat
  /\ OthersInsert \subseteq InputRules \ {Jump} /\ OthersRemove \subseteq InputRules
  /\ MaxStarts \in Nat /\ MaxFaults \in Nat /\ MaxOthers \in Nat

-----------------------------------------------------------------------------
(* iptables: what a command needs, and what it does.                       *)

Command(op, at, rule) == [op |-> op, at |-> at, rule |-> rule]

NewChain == Command("-N", 0, "none")
DeleteChain == Command("-X", 0, "none")
InsertJump(n) == Command("-I", n, "none")      \* -I INPUT n -j Chain
DeleteAt(n) == Command("-D n", n, "none")      \* -D INPUT n
DeleteJump == Command("-D jump", 0, "none")    \* -D INPUT -j Chain
AppendRule(r) == Command("-A", 0, r)
DeleteRule(r) == Command("-D", 0, r)

IsFirstJump(input, k) == input[k] = Jump /\ \A j \in 1..k - 1 : input[j] # Jump

FirstJump(input) == CHOOSE k \in DOMAIN input : IsFirstJump(input, k)

Accepts(t, c) ==
  CASE c.op = "-N"      -> ~t.chain
    [] c.op = "-X"      -> /\ t.chain /\ Jump \notin ToSet(t.input)
                           /\ \A r \in Rules : t.rules[r] = 0
    [] c.op = "-I"      -> t.chain /\ c.at \in 1..Len(t.input) + 1
    [] c.op = "-D n"    -> c.at \in DOMAIN t.input
    [] c.op = "-D jump" -> \E k \in DOMAIN t.input : IsFirstJump(t.input, k)
    [] c.op = "-A"      -> t.chain
    [] OTHER            -> t.rules[c.rule] > 0

Effect(t, c) ==
  CASE c.op = "-N"      -> [t EXCEPT !.chain = TRUE]
    [] c.op = "-X"      -> [t EXCEPT !.chain = FALSE]
    [] c.op = "-I"      -> [t EXCEPT !.input = InsertAt(@, c.at, Jump)]
    [] c.op = "-D n"    -> [t EXCEPT !.input = RemoveAt(@, c.at)]
    [] c.op = "-D jump" -> [t EXCEPT !.input = RemoveAt(@, FirstJump(@))]
    [] c.op = "-A"      -> [t EXCEPT !.rules[c.rule] = @ + 1]
    [] OTHER            -> [t EXCEPT !.rules[c.rule] = @ - 1]

\* The Undo of each Command.
UndoAtTop(c) ==   \* Mutant: a jump comes back at the top.
  CASE c.op = "-N" -> DeleteChain
    [] c.op = "-I" -> DeleteJump
    [] c.op = "-D n" -> InsertJump(1)
    [] c.op = "-A" -> DeleteRule(c.rule)
    [] OTHER -> AppendRule(c.rule)

Undo(c) ==
  CASE c.op = "-N" -> DeleteChain
    [] c.op = "-I" -> DeleteJump
    [] c.op = "-D n" -> InsertJump(c.at)
    [] c.op = "-A" -> DeleteRule(c.rule)
    [] OTHER -> AppendRule(c.rule)

-----------------------------------------------------------------------------
(***************************************************************************)
(* Plans.  A plan is what is left to do: create the chain, insert the      *)
(* jump, delete the jumps at the positions in surplus (the last first),    *)
(* and per rule append it once (1) or delete it some times (negative).     *)
(***************************************************************************)
NoRules == [r \in Rules |-> 0]

NothingToDo == [create |-> FALSE, jump |-> FALSE, surplus |-> {}, rules |-> NoRules]

\* legacyCleanupPlan
LegacyPlan(t) ==
  [NothingToDo EXCEPT !.rules = [r \in Rules |-> IF r \in ToSet(Legacy) THEN -t.rules[r] ELSE 0]]

\* The lines "-A INPUT ..." as iptables-save prints them, of all tables.
InputLines(t) == [k \in 1..ahead |-> "elsewhere"] \o t.input

\* The plan for the rules of the chain.
RulePlan(t) ==
  [r \in Rules |-> IF r \in ToSet(Legacy) THEN -t.rules[r]
                   ELSE 1 - t.rules[r]]

\* The plan, given where its own jumps are to be deleted and how to correct
\* the rules.
Plan(t, insert, surplus, rules) ==
  [create |-> ~t.chain, jump |-> insert, surplus |-> surplus, rules |-> rules]

Jumps(t) == {k \in DOMAIN InputLines(t) : InputLines(t)[k] = Jump}

\* firstInputJump and insertedJump
InsertsJump(t) == 1 \notin Jumps(t)

BuildPlanUnshifted(t) ==   \* Mutant: positions are not shifted by the new jump.
  Plan(t, InsertsJump(t), Jumps(t) \ {1}, RulePlan(t))

BuildPlanFromZero(t) ==   \* Mutant: positions are counted from 0.
  Plan(t, InsertsJump(t), IF InsertsJump(t) THEN Jumps(t) ELSE {k - 1 : k \in Jumps(t)}, RulePlan(t))

BuildPlanNoDuplicates(t) ==   \* Mutant: a rule that is there twice is removed.
  Plan(t, InsertsJump(t), IF InsertsJump(t) THEN {k + 1 : k \in Jumps(t)} ELSE Jumps(t) \ {1},
       [r \in Rules |-> IF t.rules[r] > 1 THEN -t.rules[r] ELSE RulePlan(t)[r]])

BuildPlan(t) ==
  Plan(t, InsertsJump(t), IF InsertsJump(t) THEN {k + 1 : k \in Jumps(t)} ELSE Jumps(t) \ {1},
       RulePlan(t))

(***************************************************************************)
(* CEMS.  A rule of its chain matches a set of ports, possibly only for    *)
(* some sources, and accepts, drops, or does something else.  The first    *)
(* unrestricted rule that decides about a port counts.                     *)
(***************************************************************************)
DecidesAnySource(c, r) ==   \* Mutant: a rule for some sources decides for all.
  r \in c.ports /\ c.target \in {"DROP", "ACCEPT"}

Decides(c, r) == ~c.restricted /\ r \in c.ports /\ c.target \in {"DROP", "ACCEPT"}

CemsDecision(r) ==
  LET first == {k \in DOMAIN cems :
                  Decides(cems[k], r) /\ \A j \in 1..k - 1 : ~Decides(cems[j], r)}
  IN  IF first = {} THEN "none" ELSE cems[CHOOSE k \in first : TRUE].target

Missing == {r \in ToSet(Required) : CemsDecision(r) # "DROP"}

Managed(t) == Cems \in ToSet(t.input)

\* The check that is reported: cemsFirewallCheck, firewallCheck.  A table
\* that CEMS does not manage any more has no missing rules.
CemsVerdict(t) ==
  IF (Managed(t) => Missing = {}) /\ LegacyPlan(t) = NothingToDo THEN "pass" ELSE "fail"

Verdict(t) == IF BuildPlan(t) = NothingToDo THEN "pass" ELSE "fail"

-----------------------------------------------------------------------------
(* Evaluate.                                                               *)

Idle == [pc |-> "idle", mode |-> "none", managed |-> FALSE, plan |-> NothingToDo,
         applied |-> <<>>, result |-> "none"]

Update(p, r) == run' = [run EXCEPT ![p] = r]

Finish(p, result) == Update(p, [Idle EXCEPT !.result = result])

\* What the process found.
Found(p) == Last(seen[p])

\* A process that has finished only remembers what it found.
Forget(p) == seen' = [seen EXCEPT ![p] = IF @ = <<>> THEN @ ELSE <<Last(@)>>]

\* A call of a backend works, or fails for a reason of its own (the xtables
\* lock is held, the process table is full).
MayFail(works) ==
  /\ works \/ faults < MaxFaults
  /\ faults' = IF works THEN faults ELSE faults + 1

Evaluate(p) ==
  /\ run[p].pc = "idle" /\ starts < MaxStarts
  /\ starts' = starts + 1
  /\ \E mode \in {"audit", "repair"} :
       Update(p, [Idle EXCEPT !.pc = "before", !.mode = mode])
  /\ seen' = [seen EXCEPT ![p] = <<>>]
  /\ UNCHANGED <<table, ahead, cems, faults, others>>

\* The first iptables-save and the plan made from it.
ReadBefore(p) ==
  /\ run[p].pc = "before"
  /\ \E works \in BOOLEAN :
       LET managed == Managed(table)
           plan == IF managed THEN LegacyPlan(table) ELSE BuildPlan(table)
           onlyCheck == run[p].mode = "audit" \/ (managed /\ plan = NothingToDo)
       IN  /\ MayFail(works)
           /\ seen' = [seen EXCEPT ![p] = <<table>>]
           /\ IF ~works THEN Finish(p, "unread")
              ELSE IF onlyCheck THEN Finish(p, IF managed THEN CemsVerdict(table) ELSE Verdict(table))
              ELSE Update(p, [Idle EXCEPT !.pc = "apply", !.mode = "repair",
                                          !.managed = managed, !.plan = plan])
  /\ UNCHANGED <<table, ahead, cems, starts, others>>

\* Everybody else who is at work sees the table change under him.
TableChanges(p, t, trail) ==
  /\ table' = t
  /\ seen' = [q \in Proc |-> IF q = p /\ seen[q] # <<>> THEN trail ELSE <<>>]

\* One command of the plan; rest is the plan without it.
Apply(p, command, rest) ==
  /\ run[p].pc = "apply"
  /\ \E works \in BOOLEAN :
       /\ MayFail(works)
       /\ IF works /\ Accepts(table, command)
          THEN LET t == Effect(table, command) IN
                 /\ TableChanges(p, t, <<t>> \o seen[p])
                 /\ Update(p, [run[p] EXCEPT !.plan = rest, !.applied = <<command>> \o @])
          ELSE Update(p, [run[p] EXCEPT !.pc = "undo"]) /\ UNCHANGED <<table, seen>>
  /\ UNCHANGED <<ahead, cems, starts, others>>

CreateChain(p) ==
  /\ run[p].plan.create
  /\ Apply(p, NewChain, [run[p].plan EXCEPT !.create = FALSE])

PutJumpFirst(p) ==
  LET plan == run[p].plan IN
  /\ ~plan.create /\ plan.jump
  /\ Apply(p, InsertJump(1), [plan EXCEPT !.jump = FALSE])

RemoveSurplusJump(p) ==
  LET plan == run[p].plan IN
  /\ ~plan.create /\ ~plan.jump
  /\ \E n \in plan.surplus :
       /\ \A k \in plan.surplus : k <= n
       /\ Apply(p, DeleteAt(n), [plan EXCEPT !.surplus = @ \ {n}])

\* The rules in the order of the two lists.
CorrectRule(p) ==
  LET plan == run[p].plan
      order == Required \o Legacy
  IN  /\ ~plan.create /\ ~plan.jump /\ plan.surplus = {}
      /\ \E k \in DOMAIN order :
           LET r == order[k] IN
           /\ plan.rules[r] # 0
           /\ \A j \in 1..k - 1 : plan.rules[order[j]] = 0
           /\ IF plan.rules[r] = 1
              THEN Apply(p, AppendRule(r), [plan EXCEPT !.rules[r] = 0])
              ELSE Apply(p, DeleteRule(r), [plan EXCEPT !.rules[r] = @ + 1])

\* rollback: the last command first; the first undo that fails ends it.
RollBack(p) ==
  /\ run[p].pc = "undo"
  /\ IF run[p].applied = <<>>
     THEN Finish(p, "rolledBack") /\ Forget(p) /\ UNCHANGED <<table, faults>>
     ELSE LET undo == Undo(Head(run[p].applied)) IN
          \E works \in BOOLEAN :
            /\ MayFail(works)
            /\ IF works /\ Accepts(table, undo)
               THEN /\ TableChanges(p, Effect(table, undo), Tail(seen[p]))
                    /\ Update(p, [run[p] EXCEPT !.applied = Tail(@)])
               ELSE Finish(p, "rollbackFailed") /\ Forget(p) /\ UNCHANGED table
  /\ UNCHANGED <<ahead, cems, starts, others>>

\* The second iptables-save.
ReadAfter(p) ==
  /\ run[p].pc = "apply" /\ run[p].plan = NothingToDo
  /\ \E works \in BOOLEAN :
       /\ MayFail(works)
       /\ Finish(p, IF ~works THEN "unread"
                    ELSE IF run[p].managed THEN CemsVerdict(table)
                    ELSE IF Verdict(table) = "pass" THEN "pass" ELSE "overridden")
       /\ Forget(p)
  /\ UNCHANGED <<table, ahead, cems, starts, others>>

-----------------------------------------------------------------------------
(* CEMS, KSC, administrators.                                              *)

Disturb == seen' = [p \in Proc |-> <<>>]

OthersChangeInput ==
  /\ others < MaxOthers
  /\ others' = others + 1
  /\ \/ \E r \in OthersInsert, k \in 1..Len(table.input) + 1 :
          table' = [table EXCEPT !.input = InsertAt(@, k, r)]
     \/ \E k \in DOMAIN table.input :
          /\ table.input[k] \in OthersRemove
          /\ table' = [table EXCEPT !.input = RemoveAt(@, k)]
  /\ Disturb
  /\ UNCHANGED <<ahead, cems, run, starts, faults>>

\* The firewall is restarted and comes up with the rules it keeps on disk,
\* where the program has never put its chain.
FirewallRestarts ==
  /\ others < MaxOthers
  /\ others' = others + 1
  /\ table' \in {t \in InitialTables : ~t.chain}
  /\ Disturb
  /\ UNCHANGED <<ahead, cems, run, starts, faults>>

CemsChangesPolicy ==
  /\ others < MaxOthers
  /\ others' = others + 1
  /\ cems' \in CemsPolicies
  /\ UNCHANGED <<table, ahead, run, starts, faults, seen>>

-----------------------------------------------------------------------------
Init ==
  /\ table \in InitialTables
  /\ ahead \in Listings
  /\ cems \in CemsPolicies
  /\ run = [p \in Proc |-> Idle]
  /\ starts = 0 /\ faults = 0 /\ others = 0
  /\ seen = [p \in Proc |-> <<>>]

Step(p) ==
  \/ ReadBefore(p)
  \/ CreateChain(p) \/ PutJumpFirst(p) \/ RemoveSurplusJump(p) \/ CorrectRule(p)
  \/ RollBack(p) \/ ReadAfter(p)

Next ==
  \/ \E p \in Proc : Evaluate(p) \/ Step(p)
  \/ OthersChangeInput \/ FirewallRestarts \/ CemsChangesPolicy

Spec == Init /\ [][Next]_vars

-----------------------------------------------------------------------------
(* Properties.                                                             *)

Results == {"none", "unread", "pass", "fail", "overridden", "rolledBack", "rollbackFailed"}

Plans == [create : BOOLEAN, jump : BOOLEAN, surplus : SUBSET (Nat \ {0}), rules : [Rules -> Int]]

Commands ==
  {c \in [op : {"-N", "-I", "-D n", "-A", "-D"}, at : Nat, rule : Rules \cup {"none"}] :
     c.op \in {"-A", "-D"} => c.rule \in Rules}

Runs == [pc : {"idle", "before", "apply", "undo"}, mode : {"none", "audit", "repair"},
         managed : BOOLEAN, plan : Plans, applied : Seq(Commands), result : Results]

\* Every variable has its type, and the table is one that can exist.
TypeOK ==
  /\ IsTable(table)
  /\ ahead \in Nat
  /\ run \in [Proc -> Runs]
  /\ starts \in Nat /\ faults \in Nat /\ others \in Nat
  /\ seen \in [Proc -> Seq(Tables)]

\* Nothing but the process itself has changed the table since it read it, and
\* iptables-save printed what it should.
Alone(p) == seen[p] # <<>> /\ ahead = 0

\* What CEMS_COMMON_INPUT does to a packet for a port from a source that has
\* no rule of its own there: the first rule with a target for it decides.
Hits(k, r, target) ==
  cems[k].target = target /\ r \in cems[k].ports /\ ~cems[k].restricted

FateIs(r, target) ==
  \E k \in DOMAIN cems :
    Hits(k, r, target) /\ \A j \in 1..k - 1 : ~Hits(j, r, "DROP") /\ ~Hits(j, r, "ACCEPT")

CemsFate(r) ==
  IF FateIs(r, "DROP") THEN "DROP" ELSE IF FateIs(r, "ACCEPT") THEN "ACCEPT" ELSE "none"

\* What INPUT does to a port of the program, rule by rule.
Decision(t, k, r) ==
  CASE t.input[k] = Jump     -> IF t.rules[r] > 0 THEN "DROP" ELSE "none"
    [] t.input[k] = Cems     -> CemsFate(r)
    [] t.input[k] = "accept" -> "ACCEPT"
    [] OTHER                 -> "none"

Blocks(t, r) == \E k \in DOMAIN t.input :
  Decision(t, k, r) = "DROP" /\ \A j \in 1..k - 1 : Decision(t, j, r) = "none"

\* The rules of INPUT that are not the program's, in their order: each with the
\* number of such rules before it.
OthersBefore(s, k) == Cardinality({j \in 1..k - 1 : s[j] # Jump})

ThirdParty(t) ==
  {<<OthersBefore(t.input, k), t.input[k]>> : k \in {j \in DOMAIN t.input : t.input[j] # Jump}}

(***************************************************************************)
(* apply and rollback: a process that works alone can undo each command it *)
(* ran, and when it reports "rolled back", the table is the one it found,  *)
(* with every rule and every jump at its old place.                        *)
(***************************************************************************)
UndoIsExact == \A p \in Proc : Alone(p) =>
  /\ run[p].pc = "undo" /\ run[p].applied # <<>> => Accepts(table, Undo(Head(run[p].applied)))
  /\ run[p].pc = "idle" /\ run[p].result = "rolledBack" => table = Found(p)

(***************************************************************************)
(* BuildPlan: the order of the plan never opens a port, not even between   *)
(* two commands or while they are undone: a port that was blocked when the *)
(* process read the table is blocked as long as the process works alone.   *)
(***************************************************************************)
NeverUnblocks == \A p \in Proc :
  Alone(p) /\ run[p].pc \in {"apply", "undo"} =>
    \A r \in ToSet(Required) : Blocks(Found(p), r) => Blocks(table, r)

(***************************************************************************)
(* BuildPlan and Evaluate: one application of the plan is enough.  The     *)
(* report "overridden by security policy" blames somebody else only if     *)
(* somebody else has changed the table.                                    *)
(***************************************************************************)
OverrideMeansInterference == \A p \in Proc :
  Alone(p) => run[p].result # "overridden"

(***************************************************************************)
(* DEVELOPMENT_PLAN.md, line 75: no rule of a third party is cleared,      *)
(* deleted or rewritten.  Commands name positions in INPUT, and these are  *)
(* right only for a process that works alone.                              *)
(***************************************************************************)
ThirdPartyKeptAlone == [][\A p \in Proc :
  Alone(p) /\ Step(p) => ThirdParty(table') = ThirdParty(table)]_vars

ThirdPartyKept == [][(\E p \in Proc : Step(p)) => ThirdParty(table') = ThirdParty(table)]_vars

(***************************************************************************)
(* cemsFirewallCheck and firewallCheck: when a process reports "pass",     *)
(* INPUT, gone through rule by rule, drops every required port, no matter  *)
(* who changed what before and which of the two verdicts was given.  Two   *)
(* things are excepted, for Evaluate does not look at them: CEMS managed   *)
(* the table when the process began and does not any more, and somebody's  *)
(* rule accepts everything before INPUT comes to the chain of CEMS.        *)
(***************************************************************************)
SaysPass(p) == run[p].result # "pass" /\ run'[p].result = "pass"

AcceptsBeforeCems(t) ==
  \E k \in DOMAIN t.input : t.input[k] = "accept" /\ Cems \notin {t.input[j] : j \in 1..k - 1}

AllBlocked == \A r \in ToSet(Required) : Blocks(table, r)

PassIsTrueWhileCemsStays == [][\A p \in Proc :
  SaysPass(p) /\ (run[p].managed => Managed(table))
    /\ ~(Managed(table) /\ AcceptsBeforeCems(table)) => AllBlocked]_vars

\* The check as it is worded (internal/firewall/remediator.go, line 83: "all 8
\* ports are blocked by the CEMS policy") makes no such exception.
PassIsTrue == [][\A p \in Proc : SaysPass(p) => AllBlocked]_vars
==============================================================================
