-------------------------- MODULE WindowsRemediation --------------------------
(***************************************************************************)
(* The repair and rollback workflow of the Windows tools: the on-site tool *)
(* (inspector.cpp: audit, ask, repair or roll back, audit again, report),  *)
(* the silent FTP tool (ftp_inspector.cpp: the same without questions,     *)
(* then upload), the engine both share (system_remediation.cpp,            *)
(* firewall_remediation.cpp), the backup of the first state, and the       *)
(* execution lock.  Several processes are started, killed, and fail in     *)
(* single system calls; other software changes settings at any time.       *)
(***************************************************************************)
EXTENDS HostSettings

CONSTANTS
  Proc,             \* process slots
  InitialSystems,   \* settings the machine may have before the first run
  Tools,            \* the tools that are started, of {"onsite", "ftp"}
  Modes,            \* what is asked of them, of {"audit", "repair", "rollback"}
  OthersMayTouch,   \* settings other software may change
  OthersMaySet(_),  \* ... and the values it may give them
  MaxStarts,        \* bound on processes started
  MaxFaults,        \* bound on failed system calls and killed processes
  MaxOthers         \* bound on changes made by others

ASSUME WorkflowAssumption ==
  /\ \A s \in InitialSystems :
       IsSettings(s) /\ \A i \in ToSet(Services) : s[i].run # "stopping"
  /\ Tools \subseteq {"onsite", "ftp"}
  /\ Modes \subseteq {"audit", "repair", "rollback"}
  /\ OthersMayTouch \subseteq Items
  /\ \A i \in OthersMayTouch : OthersMaySet(i) \subseteq ValueOf(i)
  /\ MaxStarts \in Nat /\ MaxFaults \in Nat /\ MaxOthers \in Nat

VARIABLES
  sys,          \* the settings of the machine
  ftpExposed,   \* an FTP receiver runs whose firewall rules are incomplete
  backup,       \* the file backup-v2.state
  lock,         \* the ExecutionLock object of each process
  task,         \* the control state of each process
  starts, faults, others,   \* how much of each bound is used
  orig,         \* observer: the settings the machine had at first
  touched,      \* observer: settings others have changed so far
  backupLost,   \* observer: others have removed or damaged the backup
  own,          \* observer: settings some repair has changed
  unsaved,      \* observer: names the backup was saved without a rule of
  seen          \* observer, per process: the settings at its start, and what
                \* happened under it

host == <<sys, ftpExposed, backup>>
counters == <<starts, faults, others>>
history == <<orig, touched, backupLost>>
observers == <<history, own, unsaved, seen>>
vars == <<host, lock, task, counters, observers>>

Lock == INSTANCE ExecutionLock

-----------------------------------------------------------------------------
(* Control state.                                                          *)

Phases ==
  {"out", "refused", "before", "confirm", "authorize",   \* entry points
   "load", "capture", "save", "compat",                  \* backup, evidence
   "profiles", "legacy", "rules", "services", "rdp", "adapters", "netbios",
   "restoreProfiles", "removeRules", "addRules", "restoreServices",
   "restoreRdp", "restoreNetbios",
   "after", "report", "upload", "pause", "exit"}

RepairPhases == {"profiles", "legacy", "rules", "services", "rdp", "netbios"}

RestorePhases == {"restoreProfiles", "removeRules", "addRules",
                  "restoreServices", "restoreRdp", "restoreNetbios"}

\* The phase that follows once a list of settings is worked off.
NextPhase ==
  [capture |-> "save",
   profiles |-> "legacy", legacy |-> "rules", rules |-> "services",
   services |-> "rdp", rdp |-> "adapters", netbios |-> "after",
   restoreProfiles |-> "removeRules", removeRules |-> "addRules",
   addRules |-> "restoreServices", restoreServices |-> "restoreRdp",
   restoreRdp |-> "restoreNetbios", restoreNetbios |-> "after"]

ListPhases == DOMAIN NextPhase

\* The settings a phase works through.
WorkList(phase) ==
  CASE phase = "capture"                           -> Inventory
    [] phase \in {"profiles", "restoreProfiles"}   -> Profiles
    [] phase = "legacy"                            -> LegacyNames
    [] phase = "rules"                             -> RuleNames
    [] phase \in {"removeRules", "addRules"}       -> Names
    [] phase \in {"services", "restoreServices"}   -> Services
    [] phase \in {"rdp", "restoreRdp"}             -> <<RdpPolicy>>
    [] OTHER                                       -> <<>>

\* The registry lists the interfaces that exist, in no useful order.
Present(s) == SetToSeq({a \in ToSet(Adapters) : s[a] # "gone"})

\* A BackupState nothing has been read into yet.
NoSettings ==
  [i \in Items |->
     CASE i \in ToSet(Profiles) -> "off"
       [] i \in ToSet(Names)    -> <<>>
       [] i \in ToSet(Services) -> Hardened
       [] i = RdpPolicy         -> "none"
       [] OTHER                 -> "gone"]

Idle ==
  [tool |-> "none", mode |-> "none", elevated |-> FALSE, pc |-> "out",
   todo |-> <<>>, success |-> FALSE, changed |-> FALSE, preserve |-> FALSE,
   snap |-> NoSettings, code |-> 0, attempt |-> 0]

NoBackup == [status |-> "absent", snap |-> NoSettings]

Unseen ==
  [start |-> NoSettings, hadBackup |-> FALSE, disturbed |-> {}, clean |-> TRUE, hidden |-> {}]

Goto(p, phase) ==
  [task[p] EXCEPT !.pc = phase, !.todo = WorkList(phase)]

Update(p, t) == task' = [task EXCEPT ![p] = t]

\* The system calls of a step of process p work, or some fail, which may
\* hide rules of the given names from it.
CallsOn(p, works, names) ==
  /\ works \/ faults < MaxFaults
  /\ faults' = IF works THEN faults ELSE faults + 1
  /\ seen' = [seen EXCEPT ![p].clean = @ /\ works,
                          ![p].hidden = IF works THEN @ ELSE @ \cup names]

Calls(p, works) == CallsOn(p, works, {})

\* ... in a step that walks through the rules of the first name on the list.
Walks(p, works) == CallsOn(p, works, {Head(task[p].todo)} \cap ToSet(Names))

\* What the steps of a process leave alone, unless they say otherwise.
HostUnchanged == UNCHANGED <<sys, ftpExposed, backup, own, unsaved>>
RestUnchanged == UNCHANGED <<lock, starts, others, history>>

-----------------------------------------------------------------------------
(* The tools: start, first audit, question, authorization.                 *)

Jobs == {j \in [tool : Tools, mode : Modes, elevated : BOOLEAN] :
           ~(j.tool = "ftp" /\ j.mode = "rollback")}

Launched(j) ==
  [Idle EXCEPT !.tool = j.tool, !.mode = j.mode, !.elevated = j.elevated,
               !.pc = "before", !.code = 1]

Start(p) ==
  /\ starts < MaxStarts
  /\ starts' = starts + 1
  /\ Lock!Acquire(p)
  /\ \E j \in Jobs : Update(p, Launched(j))
  /\ seen' = [seen EXCEPT ![p] =
                [Unseen EXCEPT !.start = sys, !.hadBackup = (backup.status = "valid")]]
  /\ HostUnchanged /\ UNCHANGED <<faults, others, history>>

\* Exit code 8, at once, whatever the process was started for.
StartRefused(p) ==
  /\ starts < MaxStarts
  /\ starts' = starts + 1
  /\ \E elevated \in BOOLEAN :
       \/ Lock!Refuse(p, elevated) /\ UNCHANGED faults
       \/ Lock!Fail(p) /\ Lock!Handles # {} /\ ~elevated /\ UNCHANGED faults
  /\ Update(p, [Idle EXCEPT !.pc = "refused", !.code = 8])
  /\ HostUnchanged /\ UNCHANGED <<others, history, seen>>

\* The mutex cannot be created at all.
StartWithoutMutex(p) ==
  /\ starts < MaxStarts
  /\ starts' = starts + 1
  /\ faults < MaxFaults
  /\ faults' = faults + 1
  /\ Lock!Fail(p)
  /\ Update(p, [Idle EXCEPT !.pc = "refused", !.code = 8])
  /\ HostUnchanged /\ UNCHANGED <<others, history, seen>>

\* The catch blocks: exit code 1; the on-site tool still waits for Enter.
Abort(p) ==
  [task[p] EXCEPT !.code = 1, !.pc = IF task[p].tool = "onsite" THEN "pause" ELSE "exit"]

\* RunAudit before the repair.  The full audit has more rows than the
\* managed settings, so it may fail on a machine that is in order.  A call
\* that fails spoils a row or is thrown.
AuditBefore(p) ==
  /\ task[p].pc = "before"
  /\ \E works, failed \in BOOLEAN :
       /\ Calls(p, works)
       /\ \/ /\ works /\ ~failed => ScopeCompliant(sys, FALSE)
             /\ Update(p, [task[p] EXCEPT
                  !.code = IF failed THEN 5 ELSE 0,
                  !.pc = IF task[p].mode = "audit" THEN "report"
                         ELSE IF task[p].tool = "onsite" THEN "confirm" ELSE "authorize"])
          \/ ~works /\ Update(p, Abort(p))
  /\ HostUnchanged /\ RestUnchanged

\* The operator types yes, or anything else.
Confirm(p) ==
  /\ task[p].pc = "confirm"
  /\ \E answer \in {"authorize", "report"} : Update(p, Goto(p, answer))
  /\ HostUnchanged /\ RestUnchanged /\ UNCHANGED <<faults, seen>>

Authorize(p) ==
  /\ task[p].pc = "authorize"
  /\ Update(p,
       IF task[p].elevated THEN [Goto(p, "load") EXCEPT !.success = TRUE]
       ELSE [Goto(p, IF task[p].tool = "onsite" THEN "report" ELSE "after")
               EXCEPT !.code = 3])
  /\ HostUnchanged /\ RestUnchanged /\ UNCHANGED <<faults, seen>>

-----------------------------------------------------------------------------
(* EnsureInitialBackup and Load.                                           *)

\* The engine gives up: nothing more is changed, the second audit follows.
GiveUp(p) == [Goto(p, "after") EXCEPT !.success = FALSE, !.snap = NoSettings]

\* Mutant: the "if (!backupOk) return" after EnsureInitialBackup is missing.
FindBackupOrGoOn(p) ==
  /\ task[p].pc = "load" /\ task[p].mode = "repair"
  /\ \E works \in BOOLEAN :
       /\ Calls(p, works)
       /\ Update(p, Goto(p, IF works /\ backup.status = "absent" THEN "capture" ELSE "compat"))
  /\ HostUnchanged /\ RestUnchanged

FindBackup(p) ==
  /\ task[p].pc = "load" /\ task[p].mode = "repair"
  /\ \E works \in BOOLEAN :
       /\ Calls(p, works)
       /\ \/ works /\ backup.status = "valid" /\ Update(p, Goto(p, "compat"))
          \/ works /\ backup.status = "absent" /\ Update(p, Goto(p, "capture"))
          \/ (works => backup.status = "damaged") /\ Update(p, GiveUp(p))
  /\ HostUnchanged /\ RestUnchanged

\* Mutant: a setting that cannot be read is left out of the backup.
CaptureIgnoringErrors(p) ==
  /\ task[p].pc = "capture" /\ task[p].todo # <<>>
  /\ LET i == Head(task[p].todo) IN
     \E works \in BOOLEAN :
       /\ Calls(p, works)
       /\ Update(p, [task[p] EXCEPT !.todo = Tail(@),
                                    !.snap[i] = IF works THEN Saved(i, sys[i]) ELSE @])
  /\ HostUnchanged /\ RestUnchanged

\* Capture, one setting at a time; one failure and nothing is saved, but a
\* rule that CollectStateRules cannot open is left out without a word.
Capture(p) ==
  /\ task[p].pc = "capture" /\ task[p].todo # <<>>
  /\ LET i == Head(task[p].todo)
         noted(v) == [task[p] EXCEPT !.todo = Tail(@), !.snap[i] = Saved(i, v)]
     IN  \E works \in BOOLEAN :
           /\ Walks(p, works)
           /\ \/ works /\ Update(p, noted(sys[i]))
              \/ ~works /\ Update(p, GiveUp(p))
              \/ /\ ~works /\ i \in ToSet(Names)
                 /\ \E v \in Without(sys[i]) : Update(p, noted(v))
  /\ HostUnchanged /\ RestUnchanged

\* Mutant: the result of Save is not looked at.
SaveBackupUnchecked(p) ==
  /\ task[p].pc = "save"
  /\ \E works \in BOOLEAN :
       /\ Calls(p, works)
       /\ Update(p, [Goto(p, "compat") EXCEPT !.changed = TRUE, !.snap = NoSettings])
       /\ backup' = IF works THEN [status |-> "valid", snap |-> task[p].snap] ELSE backup
       /\ unsaved' = IF works THEN seen[p].hidden ELSE unsaved
  /\ UNCHANGED <<sys, ftpExposed, own>> /\ RestUnchanged

\* Save: a temporary file, flushed, then moved into place without replacing.
\* Until the move the file does not exist, whatever fails or dies.
SaveBackup(p) ==
  /\ task[p].pc = "save"
  /\ \E works \in BOOLEAN :
       /\ Calls(p, works)
       /\ IF works /\ backup.status = "absent"
          THEN /\ backup' = [status |-> "valid", snap |-> task[p].snap]
               /\ unsaved' = seen[p].hidden
               /\ Update(p, [Goto(p, "compat") EXCEPT !.changed = TRUE, !.snap = NoSettings])
          ELSE /\ Update(p, GiveUp(p))
               /\ UNCHANGED <<backup, unsaved>>
  /\ UNCHANGED <<sys, ftpExposed, own>> /\ RestUnchanged

\* Mutant: a rollback uses the backup up.
LoadAndDeleteBackup(p) ==
  /\ task[p].pc = "load" /\ task[p].mode = "rollback"
  /\ backup.status = "valid"
  /\ Calls(p, TRUE)
  /\ Update(p, [Goto(p, "restoreProfiles") EXCEPT !.snap = backup.snap])
  /\ backup' = NoBackup
  /\ UNCHANGED <<sys, ftpExposed, own, unsaved>> /\ RestUnchanged

LoadBackup(p) ==
  /\ task[p].pc = "load" /\ task[p].mode = "rollback"
  /\ \E works \in BOOLEAN :
       /\ Calls(p, works)
       /\ Update(p, IF works /\ backup.status = "valid"
                    THEN [Goto(p, "restoreProfiles") EXCEPT !.snap = backup.snap]
                    ELSE GiveUp(p))
  /\ HostUnchanged /\ RestUnchanged

\* InspectScanCompatibility: an incompletely protected FTP receiver keeps
\* the firewall profiles that are off from being switched on.  Evidence that
\* cannot be read may hide the receiver, or hide that it is protected.
InspectScanCompatibility(p) ==
  /\ task[p].pc = "compat"
  /\ \E works, found \in BOOLEAN :
       /\ Calls(p, works)
       /\ works => found = ftpExposed
       /\ Update(p, [Goto(p, "profiles") EXCEPT !.preserve = found])
  /\ HostUnchanged /\ RestUnchanged

-----------------------------------------------------------------------------
(* ApplySystemRemediation: every part is attempted, whatever failed before. *)

\* The attempt on the first setting of the list has one of the outcomes.
Attempt(p, outcomes) ==
  \E o \in outcomes :
    LET i == Head(task[p].todo) IN
      /\ sys' = [sys EXCEPT ![i] = o.val]
      /\ Update(p, [task[p] EXCEPT !.todo = Tail(@), !.success = @ /\ o.ok,
                                   !.changed = @ \/ o.changed])
      /\ own' = IF task[p].pc \in RepairPhases /\ o.val # sys[i] THEN own \cup {i} ELSE own
      /\ UNCHANGED <<ftpExposed, backup, unsaved>> /\ RestUnchanged

\* The current value and the saved one of the first setting of the list.
Value(p) == sys[Head(task[p].todo)]
SavedValue(p) == task[p].snap[Head(task[p].todo)]

RepairProfiles(p) ==
  /\ task[p].pc = "profiles" /\ task[p].todo # <<>>
  /\ \E works \in BOOLEAN :
       Calls(p, works) /\ Attempt(p, RepairProfile(Value(p), task[p].preserve, works))

RemoveLegacyRules(p) ==
  /\ task[p].pc = "legacy" /\ task[p].todo # <<>>
  /\ \E works \in BOOLEAN : Walks(p, works) /\ Attempt(p, RemoveAll(Value(p), works))

RepairRules(p) ==
  /\ task[p].pc = "rules" /\ task[p].todo # <<>>
  /\ \E works \in BOOLEAN : Walks(p, works) /\ Attempt(p, EnsureRule(Value(p), works))

RepairServices(p) ==
  /\ task[p].pc = "services" /\ task[p].todo # <<>>
  /\ \E works \in BOOLEAN : Calls(p, works) /\ Attempt(p, DisableService(Value(p), works))

RepairRdp(p) ==
  /\ task[p].pc = "rdp" /\ task[p].todo # <<>>
  /\ \E works \in BOOLEAN : Calls(p, works) /\ Attempt(p, DenyRdp(Value(p), works))

EnumerateNetbios(p) ==
  /\ task[p].pc = "adapters"
  /\ \E works \in BOOLEAN :
       /\ Calls(p, works)
       /\ Update(p, IF works
                    THEN [Goto(p, "netbios") EXCEPT
                           !.todo = Present(sys),
                           !.changed = @ \/ \E a \in ToSet(Present(sys)) : sys[a] # "disabled"]
                    ELSE GiveUp(p))
  /\ HostUnchanged /\ RestUnchanged

RepairNetbios(p) ==
  /\ task[p].pc = "netbios" /\ task[p].todo # <<>>
  /\ \E works \in BOOLEAN : Calls(p, works) /\ Attempt(p, DisableNetbios(Value(p), works))

-----------------------------------------------------------------------------
(* RollbackSystemRemediation: every part is attempted here as well.        *)

RestoreProfiles(p) ==
  /\ task[p].pc = "restoreProfiles" /\ task[p].todo # <<>>
  /\ \E works \in BOOLEAN :
       Calls(p, works) /\ Attempt(p, RestoreProfile(Value(p), SavedValue(p), works))

\* Every rule of every managed name goes before a saved one comes back.
RemoveManagedRules(p) ==
  /\ task[p].pc = "removeRules" /\ task[p].todo # <<>>
  /\ \E works \in BOOLEAN : Walks(p, works) /\ Attempt(p, RemoveAll(Value(p), works))

AddStateRules(p) ==
  /\ task[p].pc = "addRules" /\ task[p].todo # <<>>
  /\ \E works \in BOOLEAN :
       Calls(p, works) /\ Attempt(p, AddSavedRules(Value(p), SavedValue(p), works))

RestoreServices(p) ==
  /\ task[p].pc = "restoreServices" /\ task[p].todo # <<>>
  /\ \E works \in BOOLEAN :
       Calls(p, works) /\ Attempt(p, RestoreService(Value(p), SavedValue(p), works))

RestoreDwords(p) ==
  /\ task[p].pc \in {"restoreRdp", "restoreNetbios"} /\ task[p].todo # <<>>
  /\ \E works \in BOOLEAN :
       Calls(p, works) /\ Attempt(p, RestoreDword(Value(p), SavedValue(p), works))

-----------------------------------------------------------------------------
(* Steps that both directions share.                                       *)

\* The list is worked off.  Only the adapters of the backup are restored.
ListDone(p) ==
  /\ task[p].pc \in ListPhases /\ task[p].todo = <<>>
  /\ Update(p, LET next == NextPhase[task[p].pc] IN
       [Goto(p, next) EXCEPT
          !.todo = IF next = "restoreNetbios" THEN Present(task[p].snap) ELSE @,
          !.snap = IF next = "after" THEN NoSettings ELSE @])
  /\ HostUnchanged /\ RestUnchanged /\ UNCHANGED <<faults, seen>>

\* COM, the policy object or its rule list cannot be had: the firewall part
\* fails as a whole and the rest of the plan goes on.
FirewallUnavailable(p) ==
  /\ task[p].pc \in {"profiles", "legacy", "restoreProfiles", "removeRules"}
  /\ task[p].todo = WorkList(task[p].pc)
  /\ Calls(p, FALSE)
  /\ Update(p, [Goto(p, IF task[p].pc \in RepairPhases THEN "services" ELSE "restoreServices")
                  EXCEPT !.success = FALSE])
  /\ HostUnchanged /\ RestUnchanged

\* Mutant: the result of the repair is not looked at.
VerdictOfAudit(p, compliant) ==
  IF task[p].code = 3 THEN 3
  ELSE IF task[p].mode = "rollback" \/ compliant THEN 0 ELSE 1

\* The exit code of a run whose second audit found the scope compliant or not.
Verdict(p, compliant) ==
  IF task[p].code = 3 THEN 3
  ELSE IF task[p].success /\ (task[p].mode = "rollback" \/ compliant) THEN 0 ELSE 1

\* RunAudit after the repair.  A call that fails makes a row fail, hides an
\* adapter, a rule or FTP evidence, or is thrown.
AuditAfter(p) ==
  /\ task[p].pc = "after"
  /\ \E works \in BOOLEAN :
       /\ Calls(p, works)
       /\ \/ Update(p, [Goto(p, "report") EXCEPT
                 !.code = Verdict(p, works /\ ScopeCompliant(sys, ftpExposed))])
          \/ ~works /\ \E read \in Misread(sys) \cup {sys}, exposed \in BOOLEAN :
               Update(p, [Goto(p, "report") EXCEPT
                 !.code = Verdict(p, ScopeCompliant(read, exposed))])
          \/ ~works /\ Update(p, Abort(p))
  /\ HostUnchanged /\ RestUnchanged

\* WriteReports or WriteWorkflowReports.
Report(p) ==
  /\ task[p].pc = "report"
  /\ \E works \in BOOLEAN :
       /\ Calls(p, works)
       /\ IF ~works THEN Update(p, Abort(p))
          ELSE IF task[p].tool = "onsite" THEN Update(p, Goto(p, "pause"))
          ELSE \E next \in {"upload", "exit"} : Update(p, Goto(p, next))
  /\ HostUnchanged /\ RestUnchanged

\* Mutant: the attempts are counted from 0 to 3.
UploadOnceMore(p) ==
  /\ task[p].pc = "upload"
  /\ \E uploaded \in BOOLEAN :
       Update(p, IF uploaded THEN Goto(p, "exit")
                 ELSE IF task[p].attempt < 3 THEN [task[p] EXCEPT !.attempt = @ + 1]
                 ELSE [Goto(p, "exit") EXCEPT !.code = IF @ = 0 THEN 6 ELSE 7])
  /\ HostUnchanged /\ RestUnchanged /\ UNCHANGED <<faults, seen>>

\* Mutant: the attempts are not counted.  (The remembered failure makes the
\* retry a step.)
UploadForever(p) ==
  /\ task[p].pc = "upload"
  /\ \E uploaded \in BOOLEAN :
       Update(p, IF uploaded THEN Goto(p, "exit")
                 ELSE [task[p] EXCEPT !.attempt = 1 - @])
  /\ HostUnchanged /\ RestUnchanged /\ UNCHANGED <<faults, seen>>

\* PutReportFiles, at most three times.
Upload(p) ==
  /\ task[p].pc = "upload"
  /\ \E uploaded \in BOOLEAN :
       Update(p, IF uploaded THEN Goto(p, "exit")
                 ELSE IF task[p].attempt < 2 THEN [task[p] EXCEPT !.attempt = @ + 1]
                 ELSE [Goto(p, "exit") EXCEPT !.code = IF @ = 0 THEN 6 ELSE 7])
  /\ HostUnchanged /\ RestUnchanged /\ UNCHANGED <<faults, seen>>

\* The operator presses Enter; until then the tool keeps the lock.
Pause(p) ==
  /\ task[p].pc = "pause"
  /\ Update(p, Goto(p, "exit"))
  /\ HostUnchanged /\ RestUnchanged /\ UNCHANGED <<faults, seen>>

Gone(p) ==
  /\ Lock!Release(p)
  /\ Update(p, Idle)
  /\ seen' = [seen EXCEPT ![p] = Unseen]
  /\ HostUnchanged /\ UNCHANGED <<starts, others, history>>

Exit(p) == task[p].pc \in {"exit", "refused"} /\ Gone(p) /\ UNCHANGED faults

\* The process is killed between two system calls.
Kill(p) ==
  /\ task[p].pc \notin {"out", "exit", "refused"}
  /\ faults < MaxFaults
  /\ faults' = faults + 1
  /\ Gone(p)

-----------------------------------------------------------------------------
(* The rest of the machine.                                                *)

\* Setting i changes under every process that runs.
Disturb(i) ==
  seen' = [p \in Proc |-> IF task[p].pc = "out" THEN seen[p]
                          ELSE [seen[p] EXCEPT !.disturbed = @ \cup {i}]]

\* Policy, security software, an administrator, a new network adapter.
OthersChange(i) ==
  /\ others < MaxOthers
  /\ others' = others + 1
  /\ \E v \in OthersMaySet(i) \ {sys[i]} : sys' = [sys EXCEPT ![i] = v]
  /\ touched' = touched \cup {i}
  /\ Disturb(i)
  /\ UNCHANGED <<ftpExposed, backup, lock, task, starts, faults, orig, backupLost, own,
                 unsaved>>

\* An FTP receiver is installed, removed, or its rules are completed.
FtpChanges ==
  /\ others < MaxOthers
  /\ others' = others + 1
  /\ ftpExposed' = ~ftpExposed
  /\ UNCHANGED <<sys, backup, lock, task, starts, faults, observers>>

\* The backup file is damaged, or deleted by an administrator.
BackupHit ==
  /\ others < MaxOthers
  /\ others' = others + 1
  /\ backup.status = "valid"
  /\ \E s \in {"damaged", "absent"} : backup' = [status |-> s, snap |-> NoSettings]
  /\ backupLost' = TRUE
  /\ UNCHANGED <<sys, ftpExposed, lock, task, starts, faults, orig, touched, own, unsaved,
                 seen>>

\* A service that was told to stop gets there by itself.
ServiceStops(i) ==
  /\ sys[i].run = "stopping"
  /\ sys' = [sys EXCEPT ![i].run = "stopped"]
  /\ Disturb(i)
  /\ UNCHANGED <<ftpExposed, backup, lock, task, counters, history, own, unsaved>>

-----------------------------------------------------------------------------
Init ==
  /\ sys \in InitialSystems
  /\ ftpExposed \in BOOLEAN
  /\ backup = NoBackup
  /\ Lock!Init
  /\ task = [p \in Proc |-> Idle]
  /\ starts = 0 /\ faults = 0 /\ others = 0
  /\ orig = sys
  /\ touched = {} /\ backupLost = FALSE /\ own = {} /\ unsaved = {}
  /\ seen = [p \in Proc |-> Unseen]

\* What a process does without an operator.
Step(p) ==
  \/ AuditBefore(p) \/ Authorize(p)
  \/ FindBackup(p) \/ Capture(p) \/ SaveBackup(p) \/ LoadBackup(p)
  \/ InspectScanCompatibility(p)
  \/ RepairProfiles(p) \/ RemoveLegacyRules(p) \/ RepairRules(p)
  \/ RepairServices(p) \/ RepairRdp(p) \/ EnumerateNetbios(p) \/ RepairNetbios(p)
  \/ RestoreProfiles(p) \/ RemoveManagedRules(p) \/ AddStateRules(p)
  \/ RestoreServices(p) \/ RestoreDwords(p)
  \/ ListDone(p) \/ FirewallUnavailable(p)
  \/ AuditAfter(p) \/ Report(p) \/ Upload(p) \/ Exit(p)

Environment ==
  \/ \E i \in OthersMayTouch : OthersChange(i)
  \/ FtpChanges
  \/ BackupHit
  \/ \E i \in ToSet(Services) : ServiceStops(i)

Next ==
  \/ \E p \in Proc :
       \/ Start(p) \/ StartRefused(p) \/ StartWithoutMutex(p)
       \/ Step(p) \/ Confirm(p) \/ Pause(p) \/ Kill(p)
  \/ Environment

Spec == Init /\ [][Next]_vars

\* A running process gets the processor; operators need not answer.
FairSpec == Spec /\ \A p \in Proc : WF_vars(Step(p))

-----------------------------------------------------------------------------
(* Properties.                                                             *)

IsBackup(b) ==
  /\ b.status \in {"absent", "damaged", "valid"}
  /\ IsSettings(b.snap)

IsTask(t) ==
  /\ t.tool \in {"none", "onsite", "ftp"}
  /\ t.mode \in {"none", "audit", "repair", "rollback"}
  /\ t.pc \in Phases
  /\ t.todo \in Seq(Items)
  /\ IsSettings(t.snap)
  /\ t.code \in {0, 1, 3, 5, 6, 7, 8}
  /\ t.attempt \in 0..2
  /\ {t.elevated, t.success, t.changed, t.preserve} \subseteq BOOLEAN

(***************************************************************************)
(* Every setting has a value of its kind, every process a control state of *)
(* its program, and the backup is absent, unreadable or complete.          *)
(***************************************************************************)
TypeOK ==
  /\ IsSettings(sys)
  /\ ftpExposed \in BOOLEAN
  /\ IsBackup(backup)
  /\ Lock!TypeOK
  /\ \A p \in Proc : IsTask(task[p])
  /\ starts \in 0..MaxStarts /\ faults \in 0..MaxFaults /\ others \in 0..MaxOthers

Workers == {p \in Proc : task[p].pc \notin {"out", "refused"}}

(***************************************************************************)
(* The execution lock keeps two workflows from ever overlapping, through   *)
(* refusals, kills and the operator's pauses.                              *)
(***************************************************************************)
OneWorkflowAtATime == \A p, q \in Workers : p = q

(***************************************************************************)
(* At every moment, also after kills and failed calls in the middle of a   *)
(* repair, a setting that is no longer what it was before the first run is *)
(* in a valid backup with its first value.  Excepted are settings somebody *)
(* else has changed, and a machine whose backup somebody else has hit.  Of *)
(* a name some of whose rules could not be opened during the capture, the  *)
(* backup has the others, in their order: Capture leaves those rules out   *)
(* without a word.                                                         *)
(***************************************************************************)
CanAlwaysRollBack ==
  ~backupLost =>
    \A i \in Items \ touched :
      sys[i] # orig[i] =>
        /\ backup.status = "valid"
        /\ \/ backup.snap[i] = Saved(i, orig[i])
           \/ i \in unsaved /\ \E v \in Without(orig[i]) : backup.snap[i] = Saved(i, v)

(***************************************************************************)
(* README.md line 133: no run of the tools replaces a first backup, not    *)
(* even one that can no longer be read.                                    *)
(***************************************************************************)
FirstBackupKept ==
  [][backup.status # "absent" /\ others' = others => backup' = backup]_vars

(***************************************************************************)
(* A rollback that reports success has brought back every saved setting    *)
(* that nobody else changed meanwhile.  The run state of a service comes   *)
(* back only if no status query failed: ConfigureService then skips the    *)
(* start and still reports success.  A service that is stopping counts as  *)
(* running, as it does in the backup; when it has stopped, something else  *)
(* has changed it.  Of a name some of whose rules could not be opened, the *)
(* saved rules are back, all of them, but those rules stay before them.    *)
(***************************************************************************)
BroughtBack(p, i) ==
  LET saved == backup.snap[i] IN
  CASE i \in ToSet(Services) ->
         /\ sys[i].start = saved.start
         /\ seen[p].clean => Saved(i, sys[i]) = saved
    [] i \in ToSet(Adapters) ->
         IF saved = "gone" THEN sys[i] = seen[p].start[i]
         ELSE sys[i] = saved \/ (saved = "none" /\ sys[i] = "gone")
    [] OTHER ->
         \/ sys[i] = saved
         \/ i \in seen[p].hidden /\ \E v \in LeftOvers(seen[p].start[i]) : sys[i] = v \o saved

RollbackRestores ==
  \A p \in Proc :
    /\ task[p].pc = "after" /\ task[p].mode = "rollback" /\ task[p].success
    /\ backup.status = "valid"
    => \A i \in Items \ seen[p].disturbed : BroughtBack(p, i)

\* What the tool says when it ends: the result it shows and the exit code.
\* (An operator who says no ends with the exit code of the first audit.)
SaysHardened(t) ==
  /\ t.pc = "exit" /\ t.mode = "repair"
  /\ t.success \/ (t.code \in {0, 6} /\ (t.tool = "ftp" \/ t.changed))

(***************************************************************************)
(* A repair that ends with result.success, or with exit code 0 or 6 (only  *)
(* the upload failed) after it was authorized, has brought every setting   *)
(* that nobody else changed meanwhile to its target.  Excepted are firewall *)
(* profiles kept off for an FTP receiver, and names some of whose rules    *)
(* could not be opened: FindRules passes over them, so that a block rule   *)
(* is there but need not be alone, and an old name need not be gone.       *)
(***************************************************************************)
HardenedButHidden(i, v) ==
  i \in ToSet(LegacyNames) \/ \E k \in DOMAIN v : Matches(v[k])

HardenedAsReported ==
  \A p \in Proc : SaysHardened(task[p]) =>
    \A i \in Items \ seen[p].disturbed :
      \/ Target(i, sys[i])
      \/ i \in ToSet(Profiles) /\ task[p].preserve
      \/ i \in seen[p].hidden /\ HardenedButHidden(i, sys[i])

(***************************************************************************)
(* The changed flag of a successful repair is exact: TRUE when a setting   *)
(* differs from what it was at the start or the backup is new, and, if no  *)
(* call failed, only then.  So a second run on a repaired machine reports  *)
(* that it changed nothing (README.md line 133).                           *)
(***************************************************************************)
ChangeReportedExactly ==
  \A p \in Proc :
    /\ task[p].pc = "after" /\ task[p].mode = "repair" /\ task[p].success
    /\ ~backupLost
    => LET differs == \E i \in Items \ seen[p].disturbed : sys[i] # seen[p].start[i]
           created == ~seen[p].hadBackup
       IN  /\ differs \/ created => task[p].changed
           /\ task[p].changed /\ seen[p].clean /\ seen[p].disturbed = {} => differs \/ created

(***************************************************************************)
(* The silent tool always ends and lets go of the lock, however often the  *)
(* upload fails, as long as the process is given the processor.            *)
(***************************************************************************)
SilentRunEnds ==
  \A p \in Proc : task[p].tool = "ftp" ~> task[p].pc = "out"

(***************************************************************************)
(* The workflow implements GuardedRepair: one worker, and no setting is    *)
(* written before a valid first backup has been seen or written.           *)
(***************************************************************************)
LicensedPhases == {"compat", "adapters"} \cup RepairPhases \cup RestorePhases

Guarded == INSTANCE GuardedRepair WITH
  worker <- Workers,
  licensed <- \E p \in Proc : task[p].pc \in LicensedPhases

WritesAreGuarded == Guarded!Spec

(***************************************************************************)
(* README.md line 133: a setting that policy or security software changes  *)
(* back makes the second audit fail.  False of the code: the audit counts  *)
(* the managed rules by name and reads nothing else of them, so a rule     *)
(* that has been disabled after the repair still gives exit code 0.        *)
(***************************************************************************)
OverrideReported ==
  [][\A p \in Proc :
       /\ task[p].pc = "after" /\ task'[p].pc = "report"
       /\ task[p].mode = "repair" /\ task'[p].code = 0
       => \A i \in Items : Target(i, sys[i]) \/ (i \in ToSet(Profiles) /\ ftpExposed)]_vars

(***************************************************************************)
(* DEVELOPMENT_PLAN.md line 217: a rollback restores only settings the     *)
(* program has changed itself.  False of the code: it writes every saved   *)
(* setting back, also one the program found in order and somebody else has *)
(* changed since.                                                          *)
(***************************************************************************)
RollbackTouchesOnlyOwn ==
  [][\A p \in Proc :
       /\ task[p].pc \in RestorePhases /\ task[p].todo # <<>> /\ task' # task
       => LET i == Head(task[p].todo) IN sys'[i] # sys[i] => i \in own]_vars
==============================================================================
