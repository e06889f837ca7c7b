# Formal models of the security remediator

The repository holds two families of tools that harden a workstation, report
on it and can undo what they did: C++ tools for Windows (`src/`), Go tools for
Kylin Linux (`kylin-security-remediator/`), and what moves and keeps the
reports (FTP receiver, report server, pruner, exporter).  This directory
models the parts that change a machine or keep state, checks the models with
TLC on small instances, and proves the most important properties with TLAPS
for every value of the constants.

All paths below are relative to the repository.

## 1. Inventory

| Component | State it keeps | Operations | Correct when |
|---|---|---|---|
| Execution lock (`src/execution_lock.cpp`) | a named kernel mutex, one `ExecutionLock` object per process | constructor (acquired, already running, failed), destructor, process death | at most one tool works on a machine; nothing stays locked after a crash |
| Windows engine (`src/system_remediation.cpp`, `src/firewall_remediation.cpp`) | services, RDP policy, NetBIOS option per adapter, firewall profiles and rules; the file `backup-v2.state` | `EnsureInitialBackup`, `ApplySystemRemediation`, `RollbackSystemRemediation` | first values are backed up before the first write and kept; a reported success is real; a rollback restores |
| On-site tool (`src/inspector.cpp`) | its control state | audit, question, authorization, repair or rollback, audit, report, pause | exit code tells the truth |
| Silent FTP tool (`src/ftp_inspector.cpp`) | its control state, the upload attempt | audit, repair, audit, report, up to three uploads | ends; exit code tells the truth |
| Audit (`src/audit_core.cpp`, `src/scan_compatibility.cpp`, `src/workflow_report.cpp`) | none (reads) | `RunAudit`, `RemediationScopeCompliant` | verdict agrees with the machine |
| Report server (`src/report_server.cpp`) | on the machine: key, certificate, pin file, http.sys bindings, firewall rule, service; in memory: users, sessions, failures per address, nonces; on disk: `users.db`, report files | install, uninstall; setup, login, administration, upload, list, download, all in one thread; only the stop of the service comes from another one | clients that were built stay valid; an attempt is stored once; an acknowledged report or account is there; no dead session is served |
| Upload tool (`src/remote_inspector.cpp`) | the attempt | audit, sign, upload up to three times | "uploaded" is true |
| Pruner (`src/ftp_report_pruner.cpp`) | the list it made | scan, confirm, delete | the newest complete report of a terminal survives |
| Exporter (`src/report_issue_exporter.cpp`) | none | choose the newest valid report per terminal, assign persons, judge the risk, write a workbook | no terminal is lost or mixed up, no finding is hidden |
| Cleaner (`cleanup-remediator.ps1`, `wireless-remediator.ps1`) | registry exports | stop service, export, delete, restart | nothing deleted without export |
| Kylin engine (`internal/core`, `internal/app`) | the result | run components in order, report, upload, exit code | errors are reported, exit code tells the truth |
| Kylin firewall (`internal/firewall`, `internal/platform/iptables.go`) | the iptables filter table | plan, apply, undo, check again | the plan leads to a table whose plan is empty; a failed run is undone |
| Kylin services (`internal/services`, `internal/platform/systemd.go`) | systemd units | disable now, check, restore | all or nothing |
| Kylin wireless (`internal/wireless`, `internal/platform/networkmanager.go`) | connection profiles, radio | back up, delete, radio off, restore | all or nothing; the active connection survives |
| FTP client and receiver (`internal/ftpclient`, `internal/ftpreceiver`) | sessions, passive ports, report files | upload with retries; receive, verify, replace | an acknowledged report is there and whole |

How they interact.  The two Windows tools call the engine in their own
process; what they share is the machine, the backup file and the lock.  The
engine and the audit read and write the same settings, and so does everybody
else: domain policy, security software, administrators, hardware.  The silent
tools of both families put report files on an FTP receiver, from which the
pruner deletes and the exporter reads; the upload tool sends signed reports to
the report server instead, with the key that the server's installation made
and `tools/build-bound-clients.ps1` put into the client.  The Kylin engine calls
its components in a fixed order and stops at the first error.

What is hard.  (a) Every setting is changed by a system call of its own, any
of which can fail, and the process can die between any two.  (b) Nothing
stops other software from changing a setting between two steps.  (c) Several
tools can be started at once.  (d) The backup is written once and used much
later, after repairs that did not know about each other.  (e) Reported
results are collected over many calls.  (f) Uploads are retried against a
server that may still be at work on the previous attempt, or has stored it
without anyone hearing of it.  (g) The server keeps some things in memory, some
on disk, and some in both, and may die between two writes.  (h) An
installation is repeated after one that failed anywhere.  (i) Uploads, the
pruner and the exporter use one directory without knowing of each other.
`PROJECT.json` lists these at their lines under "hazards".

## 2. Modules

| Module | Models | Uses |
|---|---|---|
| `ExecutionLock` | the named mutex | |
| `HostSettings` | the settings of a Windows machine; what one attempt to repair, restore, back up or audit one setting can do | |
| `WindowsRemediation` | the workflow of both Windows tools, several processes, failures, kills, other software | `HostSettings`, `ExecutionLock` (instance `Lock`), `GuardedRepair` (instance `Guarded`) |
| `GuardedRepair` | the abstract promise of the workflow | `HostSettings` |
| `MC_WindowsRemediation` | the small machine of the runs | `WindowsRemediation` |
| `KylinFirewall` | the firewall component of the Kylin tools, several processes, failing commands, other software | |
| `MC_KylinFirewall` | small firewalls for its runs | `KylinFirewall` |
| `ServerInstall` | installation, service and process of the report server, building of clients | |
| `ReportUploads` | the upload tool and the checks and files of the server | |
| `ServerAdmin` | accounts, sessions and the limit of logins | |
| `ReportServer` | the server as a whole | instances `Install`, `Uploads`, `Admin` of the three |
| `MC_ReportServer` | a small server | `ReportServer` |
| `IssueSummary` | the pure part of the exporter | |
| `ReportDirectory` | the FTP directory: uploads of both families, receiver, pruner, exporter | `IssueSummary` |
| `KylinTool` | one run of a Kylin tool: engine, services, wireless, report, exit code | |
| `KylinReports` | a Kylin tool that uploads to the directory | `ReportDirectory`, `KylinTool` (instance `Tool`) |
| `MC_KylinReports` | four terminals, a table of persons | `KylinReports` |
| `WindowsRemediation_proofs` | theorems about the workflow, the lemmas about single attempts (`HostSettings`) and the theorem about the lock they rest on | `WindowsRemediation` |
| `KylinFirewall_proofs`, `ServerInstall_proofs`, `ReportUploads_proofs`, `ServerAdmin_proofs`, `ReportServer_proofs`, `ReportDirectory_proofs`, `KylinReports_proofs` | theorems and proofs | the modules they are named after; `ReportServer_proofs` and `KylinReports_proofs` use those of their parts |

### ExecutionLock

`lock[p]` is the `ExecutionLock` object of process `p`: "none" (no object),
"acquired", "alreadyRunning", "failed".  A kernel object lives as long as any
handle to it, so `Handles` is derived from `lock`.  `Acquire`, `Refuse` and
`Fail` are the three ways through the constructor, `Release` the destructor or
the death of the process.

### HostSettings

A machine is a function from `Items` (services, RDP policy, adapters, firewall
profiles, names of firewall rules) to values.  The rules of one name are a
sequence of kinds, because the code keeps, corrects or replaces them
depending on how many there are and what they say; a service is a start type
and a run state with STOP_PENDING; a DWORD may be absent, and an adapter's
key may be gone.  Every function of the engine that touches one setting is an
operator that returns the set of its outcomes, as records of the value left
behind, the reported success and the reported change.  With `works` TRUE
every system call succeeds; with FALSE one fails, and all values the function
may leave behind are outcomes (half a rule, some of the rules removed, a
service DISABLED but still running, DEMAND left over).  The walks through the
list of rules (`FindRules`, `CollectStateRules`) pass over a rule whose
QueryInterface or `get_Name` fails and report nothing: with `works` FALSE,
`RemoveAll` may succeed with rules left (`LeftOvers`), `EnsureRule` may go by any
of the rules or by none (`KeepOrCorrect`, `RemoveAndAdd`), and a capture may
leave rules out (`Without`).  `Saved` is what the
backup file can say about a value: it does not keep the remote addresses of a
rule ("scoped" comes back as "block"), and it keeps a service that is stopping
as running.  `ScopeCompliant` is the audit, `Misread` the ways an audit whose
calls fail may see less than there is.

### WindowsRemediation

`task[p]` is the control state of a process: the tool, what was asked of it,
its phase `pc`, the list `todo` of the settings its phase still has to work
on, the `RemediationResult` (`success`, `changed`), the captured or loaded
backup `snap`, and the exit code.  One action handles the first setting of
the list, so kills, failures and other software come between any two
settings.  The phases in the order of the code:

    before -> confirm -> authorize -> load
      repair:   -> capture -> save -> compat -> profiles -> legacy -> rules
                -> services -> rdp -> adapters -> netbios
      rollback: -> restoreProfiles -> removeRules -> addRules
                -> restoreServices -> restoreRdp -> restoreNetbios
    -> after -> report -> upload or pause -> exit

| Action | Code |
|---|---|
| `Start`, `StartRefused`, `StartWithoutMutex` | `wmain` and `wWinMain` up to the first audit |
| `AuditBefore`, `AuditAfter` | `RunAudit`, the exit code computed from it |
| `Confirm`, `Authorize` | the operator's answer, `IsRemediationAuthorized` |
| `FindBackup`, `Capture`, `SaveBackup`, `LoadBackup` | `EnsureInitialBackup`, `Capture`, `Save`, `Load` |
| `InspectScanCompatibility` | `InspectScanCompatibility` |
| `RepairProfiles` ... `RepairNetbios` | `ApplySystemRemediation` and `RepairFirewallRules` |
| `RestoreProfiles` ... `RestoreDwords` | `RollbackSystemRemediation` and `RestoreFirewallState` |
| `FirewallUnavailable` | COM, the policy or its rules cannot be had |
| `Report`, `Upload`, `Pause`, `Exit`, `Kill` | the ends of the tools |
| `OthersChange`, `FtpChanges`, `BackupHit`, `ServiceStops` | the rest of the machine |

`orig`, `touched`, `backupLost`, `own`, `unsaved` and `seen` are observers: no
action reads them, the properties do.  `seen[p].hidden` are the names some of
whose rules process `p` could not open (`Walks` adds to it), `unsaved` those the
backup was made without.

Abstractions worth knowing.  The file format of the backup is not modelled: a
file is valid, damaged or absent, and `Save` is one step because it writes a
temporary file and moves it into place without replacing (before the move
nothing is there, after it everything is).  Each audit is one step, although
it reads the machine setting by setting.  The first audit of the tools has
many more rows than the managed settings; they only count failed rows, so
"some row failed" is a free choice whenever it may be.  Argument errors (exit
code 2), status files and DWORDs of the wrong type are left out.

### GuardedRepair

What a reader should remember of the workflow: a worker at a time, no write
without a licence, no licence without a valid backup seen or just written,
one setting per step, and the backup written only where there is none.
`WindowsRemediation` implements it with `worker` the processes that got past
the lock and `licensed` TRUE while one is in a phase that may write.

### KylinFirewall

`table` is the filter table: whether `SEC_REMEDIATOR_INPUT` exists, the rules
of INPUT in order (the program's jump, the jump of CEMS, rules that accept,
other rules), and how often each rule of the program is in its chain.  All
rules of that chain drop, so their order is left out.  `cems` is the list of
rules in `CEMS_COMMON_INPUT`, each with the ports it matches, its target, and
whether it is restricted to some sources.  `ahead` says how many lines
`-A INPUT ...` of other tables `iptables-save` prints before those of the
filter table: the program asks for all tables and counts positions over all of
them.  The text of `iptables-save` is otherwise left out; a plan is computed
from what the lines mean.

| Action | Code |
|---|---|
| `Evaluate`, `ReadBefore` | `Remediator.Evaluate` up to the first `apply`, with `cemsCoverage`, `BuildPlan`, `legacyCleanupPlan` |
| `CreateChain`, `PutJumpFirst`, `RemoveSurplusJump`, `CorrectRule` | one round of the loop in `apply`, in the order of the plan |
| `RollBack` | one round of the loop in `rollback`, and its end |
| `ReadAfter` | the second `Save`, the check that is reported |
| `OthersChangeInput`, `FirewallRestarts`, `CemsChangesPolicy` | CEMS, KSC, administrators, the system |

A plan is kept as what is left of it (create the chain, insert the jump, the
positions to delete, a correction per rule) instead of as a list of commands;
the guards of the four actions put the commands into the order of the list.
A command of `iptables` that fails is assumed to have changed nothing: it replaces
the table in one call of the kernel, or reports an error without it
(`internal/platform/iptables.go` lines 26-32 only sees the exit code).
`Accepts` and `Effect` say when iptables refuses a command and what it does
otherwise; a command may also fail for no reason the model knows (`MayFail`).
`run[p].applied` is the list `applied` of the code, the newest command first.

No lock keeps two Kylin tools apart, so several processes run at once.
`seen[p]` is an observer: the tables since `p` read, the newest first, or
nothing as soon as anybody else has changed the table.  `Alone(p)` says that
it is not empty and that `ahead` is 0.

### ServerInstall

What an installation leaves on the machine: `key` (`upload.key`), `cert`,
`pinFile`, `binding[p]` of http.sys, `rule` of the firewall, `service`, and
`process`, which is starting, serving, stopped, or "deaf": a process whose stop
came before its request queue existed (`ServiceControl` finds no server to
stop) and which serves on.  `installer` is the program at work, one action per
call of `Install` in the order of the code: key, certificate, data directory,
http.sys, firewall, pin, service.  Each may throw, leaving what it had done, or
the program may be killed.  `rule[p]` counts the firewall rules of the program's
name for port `p`: what `Remove` says is not looked at, so that the rule of an
old port may stay beside the new one (`stuck` remembers that it happened).  Keys and certificates are numbers; `None` is
nothing and `Torn` a file that was begun.  `clients` are the pairs of key and
certificate that `build-bound-clients.ps1` has put into programs.

### ReportUploads

`job[c]` is the tool on a terminal, with the attempt it makes; an attempt has a
nonce of its own, so attempts stand for nonces.  A request is in `queue` until
`Take`, then in `handled`, from where `TakeAgain` hands it to the server again, as
it was or damaged.  `Check` is `CheckUpload` and `Decode` in their order: window,
nonce (remembered before anything else is looked at), signature, envelope.
`busy` is the request the only thread works on and how far it is: "save" up to
the test of the streams, "close" up to their end, "answer".  `reports` is the
disk, with `lost` for data that a disk refuses when nobody looks any more.
Ticks are finer than seconds, because stamps are seconds and nonces are
forgotten by a finer clock; `skew[c]` is how far a terminal's clock is ahead.

### ServerAdmin

`users` is the memory, `disk` the file `users.db`; `Add` changes memory first, as
the code does.  A start reads `users.db`, and may find fewer accounts than there
are, for an error of opening or reading is not noticed (`ServerStarts`); if it
finds none, `/setup` is open again, and the next `Save` writes the file without
the others (`overlooked`, `overwritten`).  Sessions are numbered, `cookie[b]` is what a browser sends and
`form[b]` the session whose token its page carries.  `wrong[a]` lists when
logins failed, `failures[a]` which of them the server remembers.
`acknowledged`, `overlooked`, `overwritten`, `used` and `ended` are observers.

### ReportServer

One process: `Serving` (of `ServerInstall`) is `up` of the two others, so its end
loses the memory of both.  One thread: pages are only served while no upload is
under way.  A tool is bound to the server only if a client was built, and
reaches it only where binding and firewall rule agree with the port the
process uses.  One clock ticks for both.

### IssueSummary

What `report_issue_exporter.cpp` computes from the reports it could read:
`LatestReports` with conflicts left out, `RiskLevel` and `RiskRank`, the three ways
to match a terminal with a row of the table (`Modes`), and the lines of the three
sheets as sets.  Addresses, names and dates are values that are equal or not.

### ReportDirectory

`files[b][k]` is a report file of batch `b` (a terminal and a stamp): absent, in
part, or whole.  Windows tools go to an ordinary FTP server, which creates or
empties each file and fills it (`OpenFile`, `FillFile`); any failure starts the
pair again.  Kylin tools go to the receiver of the repository, which verifies
size and hash, or to an ordinary server that knows neither `SITE SHA256` nor
`ALLO` and verifies nothing (`ftpclient/client.go` lines 117-132, tested at
`client_test.go` line 106): `verified` says which.  At the receiver every attempt
at a file is a session; the receiver takes it into a file of another name, then
accepts or rejects it, removes the old file and renames the new one
(`RemoveOld`, `RenameNew`), and does so also for a client that no longer waits.
An ordinary server may go on with a transfer its client has given up, and empty
and fill the file later (`LateWrite`): how such a server works is an assumption.
The pruner lists, asks, and deletes by the list, file by file; the exporter
lists and reads one file after the other.  `acknowledged`, `torn` and `stable`
are observers.

### KylinTool and KylinReports

`run` is the control state of one tool: the pass (audit, then repair or
cleanup), the component, the service it is at, the error that ended the pass.
`svc`, `wifi` and `radio` are the machine; a call that fails may have done half
of its work (`DisableNow`, `Restore`), or all of it (an `nmcli` that took effect and then
reported a failure, as when its own waiting time ends; the tool sets it no
deadline: `DeleteProfile`, `RadioOff`; `unreported` remembers those).
`svc` is what systemd knows, `Told` what `State` makes of it: a unit that is
activating, deactivating or reloading ("between") is read as not active, one
that is enabled until the next boot as enabled.  What systemctl does is assumed:
`disable` may leave what is enabled until the next boot, `--now` stops after it
disables, `enable` is for good.  The firewall, which has a module of its
own, and the read-only audits succeed or fail here.  `KylinReports` runs the
upload of such a tool step by step in the directory: what becomes of it decides
about status file and exit code.

## 3. Properties

Windows:

Of the state: `OneWorkflowAtATime`; `CanAlwaysRollBack` (a setting that
differs from its value before the first run is in a valid backup with that
value, at every moment); `RollbackRestores`, `HardenedAsReported`,
`ChangeReportedExactly` (reported results and exit codes are real).  Of steps:
`FirstBackupKept`, `WritesAreGuarded` (the refinement).  Of runs:
`SilentRunEnds`.  Each is stated in the module with the code it is about.

Exceptions the properties make, because the code does:

- a service whose status query fails during a rollback is reported as restored
  though nobody starts it (`ConfigureService` starts only a service it sees
  STOPPED); `RollbackRestores` promises run states only if no call failed;
- a service in STOP_PENDING counts as running for the backup and for
  `RollbackRestores`; that it stops then is a change nobody of the tools made;
- an on-site tool whose operator says no ends with the exit code of its first
  audit, so `HardenedAsReported` looks at the code only of runs that were
  authorized;
- a rule's remote addresses are neither compared nor saved;
- of a name some of whose rules could not be opened: the backup has the other
  rules (`CanAlwaysRollBack`); a reported success promises a matching rule among
  those that are there, and nothing of an old name (`HardenedAsReported`); a
  rollback has all saved rules back, behind those that were not removed
  (`RollbackRestores`);
- firewall profiles stay off while the tool has evidence of an FTP receiver
  whose rules are incomplete (`README.md`, line 112);
- a machine without any adapter is repaired with success, yet the NetBIOS row
  fails and the exit code is 1; evidence that cannot be read may hide a
  receiver or its protection.

Kylin firewall.  What a process promises if it works alone: `UndoIsExact`
(each command can be undone, and "rolled back" means the table it found),
`NeverUnblocks` (no port that was blocked is open between two commands, forward
or backward), `OverrideMeansInterference` ("overridden by security policy" is
never the program's own doing: one application of a plan leaves an empty plan)
and `ThirdPartyKeptAlone`.  Working alone is a real condition: positions in
INPUT go stale as soon as somebody inserts a rule.  What it promises in any
company: `PassIsTrueWhileCemsStays` ("pass" is reported only when every
required port is blocked: `Blocks` goes through INPUT and the chains it jumps to
in their order).  It has two exceptions.  CEMS leaving between the two readings
is a finding (section 7); and a rule of somebody else that accepts everything
before the jump of CEMS is not looked at (`cemsCoverage` asks only whether there
is a jump).

Report server.  `BoundClientsStayValid`: no installation, failed or repeated,
changes the key or certificate built clients carry, unless the file was never
good.  `InstallationAgrees`: a complete installation has opened its port, closed
others, and, if it met no failure, brought binding, service and pin into line.  `StoredOnce`, `UploadedIsStored`,
`FreshAttemptNotReplayed`: replay protection and retries do not harm each other.
`AcknowledgedAdminsSurvive`, `LoginLimit`, `SessionsEnd`: accounts, limit and
sessions over restarts.  Exceptions the properties make, because the code does:

- a client whose clock is ahead by the whole window can be stored twice by one
  process: stamps are compared in whole seconds, both ends included, so that two
  windows are a fraction of a second longer than a nonce lives;
- a report can be acknowledged and lost when the disk refuses data only as the
  streams are closed (`report_server.cpp` line 431);
- after a restart all nonces are forgotten, so "once" is per process;
- a port opened by an earlier installation stays open once a `Remove` has failed;
- an account is missed by a process whose start did not find it in `users.db`,
  and lost when that process saves another one;
- a key file that was left torn is kept, and a process whose stop was lost goes
  on serving: no property denies either.

Directory and Kylin tool.  `AcknowledgedReportKept`: what a tool called uploaded
stays whole until a newer report of its terminal is, whatever the pruner and late
or broken transfers do.  Three exceptions, because the code does so: a
replacement at the receiver that was cut off between `Remove` and `Rename`; a
file that an ordinary server has emptied for a transfer its client had given up
(both only until that file is written or deleted again, `torn`); and a newer pair
at an ordinary server whose upload stopped half way, which the pruner takes for
complete (`TakenForComplete`; a pair some tool has called uploaded must be
whole).  `NewestReported`,
`MacDecides`, `WorstFindingShown`: the summary.  Of `KylinReports`: `ActionsAreTrue`,
`ZeroMeansDone`, `ConnectionKept`: the tool's report, its exit code 0, and the
connection it runs over.  The first two see services as `Told` does, and leave
aside what a wireless command changed although it failed.  `ConnectionKept`
excepts only connections made since the snapshot the tool works from.  What an action without this name promises, but the
code does not do, is `ProfilesRestored` (section 7).  The texts of checks are not
modelled: after a rollback the report may still show services as passed.

## 4. Runs

| Run | Shows | States |
|---|---|---|
| `windows_faults` | no interference, two processes, three starts, two failed calls or kills: type invariant, exclusion, backup, reported results, refinement | 1.4 million |
| `windows_others` | three machines, two starts, one failure, one change by others | 2.4 million |
| `windows_silent` | liveness under `FairSpec` | 66 thousand |
| `windows_override` | violation, see 7 | |
| `windows_rollback_scope` | violation, see 7 | |
| `lock_refusal` | violation, see 7 | |
| `kylin_firewall` | two processes, two starts, two failed calls, one change by others | 596 thousand |
| `kylin_third_party` | violation, see 7 | |
| `kylin_cems_leaves` | violation, see 7 | |
| `report_server` | installation, uploads and administration, alone and together | 1.1 million |
| `kylin_reports` | uploads of both families, receiver, pruner, exporter, a Kylin tool | 1.5 million |
| `kylin_profiles_lost` | violation, see 7 | |

Bounds of the Windows runs.  The code treats profiles, rules, services and adapters in loops
whose iterations share only the collected result, so one of each (and two
adapters, of which one may appear later) meets every interaction: a failure
before, at and after each setting.  Three starts allow repair, repair (or
rollback) and a concurrent refusal; two faults allow a kill after a failure
or two failures in one run, which is what a backup that is incomplete, or a
result that forgets a failure, needs; a rule that cannot be opened is such a
failure.  One change by others at any moment is
enough to come between any two steps of a process.  `Configured` has one
machine never hardened, with duplicate and legacy rules, and one hardened by
hand; `AllSystems` adds one without adapters whose rule is disabled.
`MaxStarts`, `MaxFaults` and `MaxOthers` bound counters in the guards of
`Start*`, of every failing call and `Kill`, and of the environment.
`CHECK_DEADLOCK FALSE` is set because a system whose starts are used up has
really come to its end.  `SYMMETRY` permutes processes, which are
interchangeable, and only in runs of safety properties.

Bounds of `kylin_firewall`.  Two required rules and one legacy rule meet every
pair of neighbours in a plan (required and required, required and legacy).
The five tables are: never hardened; hardened; hardened by an earlier version
and pushed from the first place since; jumps and rules doubled (two surplus
jumps, so that one deletion shifts the other's position); taken over by CEMS
with two legacy rules left.  Two processes with one start each, or one with
two starts; two failing calls, so that an undo can fail after a command has;
one change by others at any moment, which is enough to make a plan stale.
`ahead` is 0 or 1.  CEMS has a policy that drops both ports, one that accepts
one of them first, and one that drops it only for some sources.  The violation
runs start from one table and one process, the shortest way to their trace.

Bounds of `report_server`.  The product of all parts is too large, so `MCInit`
starts from scenarios that leave each part much room while the others rest:
`Installing` (three runs of install or uninstall with two ports, two failing
calls or kills), `Uploading` (two attempts, one disturbance, clocks behind, equal
and ahead), `Accounts` (two failed writes or reads), `Sessions` and `Logins` (time passes,
two sessions, three failed logins with a limit of two), and `Together` (one run of
the installer, one upload, one restart, one disturbance in all).  A window of 1
second, nonces of 2 seconds and 2 ticks per second keep the proportions of 300,
600 and a clock of microseconds; six ticks are longer than a nonce lives.  One
client suffices because requests of different clients meet only in the queue and
the nonces, which are per attempt; two browsers, one of them at the server
itself, can steal each other nothing but time and the limit.  `MaxInstalls`,
`MaxFaults`, `MaxDisturbances`, `MaxFailures`, `MaxLives`, `MaxTime`, `MaxSessions`
and `MaxTries` bound counters in guards.

Bounds of `kylin_reports`.  Scenarios again: `KylinUploads` (two reports, two
attempts per file, late sessions or transfers, one fault, pruner; with the
receiver or with an ordinary server), `KylinReads` (a second
report arrives while the exporter and the pruner work), `WindowsUploads` (two
pairs with a fault, pruner and exporter), `TwoNames` (a terminal whose address
changed, so that two file names stand for it, whole or torn), `Exporting` (all
tables of up to two rows, all findings on two terminals), `ToolAtWork` (two
units, one with an alias, one just starting or stopping, one enabled until the
next boot, a name that is not installed, two profiles, two failing calls and one
change by others; the run stops before an upload) and `ToolUploads`.  Two
reports of a terminal are what "newer" needs; a third behaves as the second.

Fairness.  `FairSpec` gives weak fairness to the steps of each process that
need nobody: a runnable process is scheduled.  `Confirm` and `Pause` have
none (an operator may stay away), nor have `Start` and the environment.
`SilentRunEnds` therefore speaks of the silent tool only.  `KylinFirewall` and
`KylinTool` state no liveness: their loops run over finite lists and retry
nothing.  Uploads end by their bounded attempts, which `TypeOK` of
`ReportUploads` and `ReportDirectory` bounds; whether they succeed depends on a
network that owes nothing.

## 5. Proofs

TLAPS checks the following for every value of the constants that satisfies the
assumptions of section 5.5: any number of processes, settings, terminals,
rules, units, failures and repetitions.

### 5.1 Windows workflow

- `LockIsExclusive`: two lock objects never both say "acquired".
- `TypeCorrect`: `TypeOK`.  The inductive invariant `Typed` adds that the list
  of a phase holds only settings of the phase's kind; otherwise the value an
  attempt leaves behind could not be shown to be of the setting's kind.
- `WorkflowsExclude`: `OneWorkflowAtATime`, from an invariant that ties the
  phase of every process to its lock object, and from the lock's own lemma.
- `FirstBackupIsKept`: `FirstBackupKept`.
- `RollbackIsPossible`: `CanAlwaysRollBack`.  On its own it is not inductive.
  `RollbackInv` adds: the first value of an untouched setting is known while
  there is no backup; a valid backup tells it; a process in a phase that
  writes has a valid backup; and what a process has captured so far are first
  values, without rules of the names it could not read completely.  It rests on `WorkflowsExclude`: otherwise another process could
  write while one captures.
- `WorkflowIsGuarded`: `WritesAreGuarded`, step by step.
- `HardenedAlwaysAsReported`, `ChangeAlwaysReported`, `RollbackAlwaysRestores`:
  `HardenedAsReported`, `ChangeReportedExactly`, `RollbackRestores`.

The steps are sorted into a few classes (reads, writes of one setting, saves,
begins, refusals, ends, environment), each a formula about the few variables
that matter; `StepClasses` puts every action in a class once, and the first
six theorems are proved over classes.

The last three speak of the end of a run, so their invariant says how far a run
has come.  `Worked(t)` are the settings task `t` is through with: those neither
on its list nor in a later phase (`Ahead`).  `ProgressInv` says of each process:

- `OnPath`: phase and mode go together;
- `BeforeRepair`, `BeforeRollback`: nothing has changed yet but by others, and it
  is known whether there was a backup;
- `DuringRepair`, if no attempt has failed: settings that are through are at
  their targets, and each setting either has the value the run found or was
  changed to its target and `changed` says so (`Repaired`); `changed` is set
  exactly if something differs or the backup is new (`ChangeIsDue`).  Adapters
  are counted as changed when they are listed, before they are written
  (`EnumerateNetbios`), which is what `Listed` is for;
- `DuringRollback`, if no attempt has failed: settings that are through are as in
  the backup; names between `removeRules` and `addRules` have no rules at all
  (`Emptied`); adapters that are not in the backup are as the run found them
  (`Untouched`);
- `FromBackup`: the rollback works from the backup, its list of names repeats
  none, and its adapters exist in the backup; `SavedServices`: no saved service
  is stopping.

`RepairsWell` and `RestoresWell` say what a single successful attempt does to a
setting, one lemma per operator of `HostSettings`.  `Ready` joins the invariant
with `Typed` and the exclusion of workflows: that other tools leave the machine
alone follows because they rest, not from an assumption.  `CodesTell` adds that
a code 0 or 6 of a run that was authorized is that of a success.  Proving showed
that two hypotheses the properties once had were not needed: that the exit
code is 0 or 6 (a result that says success is enough, whatever the code), and
that a service was not stopping when the rollback began.  They are gone.

### 5.2 Kylin firewall

- `TypeCorrect`: `TypeOK`, which includes that the table is one that can exist:
  while there is no chain, nothing jumps to it and it has no rules.
- `UndoExact`: `UndoIsExact`.  `UndoInv` says of a process that works alone that
  `seen[p]` is a trace of tables in which each is reverted to the next by the
  undo of the command that led from there (`Traces`), that the positions left in
  its plan are those of jumps (`PlanFits`: otherwise deleting one and inserting a
  jump there would not be inverse to each other), and that after a rollback the
  trace is the table itself (`IsBack`).
- `PortsStayBlocked`, `OverrideIsNeverOwn`: `NeverUnblocks`,
  `OverrideMeansInterference`.  `WorkInv` says of a process that works alone that
  what is left of its plan is what it would plan now (`PlanIsFresh`), so a plan
  that is worked off leaves nothing to plan, and that no table since it began
  has opened a port that was blocked (`Guarded`).
- `PassMeansBlocked`: `PassIsTrueWhileCemsStays`, in any company.  That INPUT
  blocks what the verdict takes for blocked is shown rule by rule: a first rule
  that decides exists, and it is the program's jump or that of CEMS.
- `OthersAlwaysKept`: `ThirdPartyKeptAlone`.  `ThirdParty` gives every rule of
  others its rank among them; a filter of a sequence would say the same, but the
  prover knows nothing of `SelectSeq`.

### 5.3 Report server

- `ServerInstall_proofs`: `TypeCorrect`, `ClientsStayValid`,
  `InstallationComplete`.  The invariant says what is in line at each step of the
  installer: whatever a step promises is kept by the later ones and by the
  service.
- `ReportUploads_proofs`: `TypeCorrect`, `StoredAtMostOnce`, `UploadsAreStored`,
  `NeverMistakenForReplay`.  `RequestInv`: no request is stamped later than the
  clock of its client.  `NonceInv`: a remembered nonce is of a handled request
  and not older than it.  `StoreInv`: an attempt this process has stored is
  `Barred`, that is remembered or outside of the window for good; `Forgetting`
  shows, with arithmetic over seconds and ticks, that what is forgotten after
  `NonceLife` is outside, if the clock is not ahead by the whole window.
  `AnswerInv`: 201 is only on its way for an attempt that is stored.
- `ServerAdmin_proofs`: `TypeCorrect`, `AdminsSurvive`, `LoginsLimited` (the
  remembered failures are exactly those within `Period`, and times are in order;
  counting them uses the library's facts about intervals), `SessionsAreOver`.
- `ReportServer_proofs`: `InstallImplemented`, `UploadsImplemented`,
  `AdminImplemented`: the composition implements each component.  From these and
  the theorems of the components follow `TypeCorrect` and one theorem for every
  property the run `report_server` checks, now of the server as a whole.  The
  lemmas `SameInstall`, `SameUploads`, `SameLogins` and `SameAdmin` say that the
  definitions of `ReportServer` and those the proof modules speak of are the
  same: two instances of one module are different operators to the prover.

### 5.4 Report directory and Kylin tool

- `DirectoryTyped`; `MacAlwaysDecides` and `WorstFindingAlwaysShown` (`SheetInv`:
  each row of the sheet is a report with the owner and the risk it is given);
  `NewestAlwaysReported` (`ReadingInv`: while the exporter reads, every pair that
  has stayed readable is loaded or still on its list).
- `AcknowledgedAlwaysKept`: `AcknowledgedReportKept`.  `Shape` says how far each
  sender, session and file is, and which stamps a terminal may have used.  `AllSafe`
  is the strengthening: not only is an acknowledged report there, or a newer
  one, but the pruner is not about to delete that one; and the same holds of every
  file on the pruner's list, since a file that is deleted may be what another
  report's safety rests on.  A pair of an ordinary server that the pruner would
  keep as newest is whole, or its upload has stopped half way.
- `PartsImplemented`: `KylinReports` implements `ReportDirectory` and `KylinTool`,
  so that their theorems hold of it; `DirectoryStillSafe` states those of the
  directory with a tool at work whose upload decides about its exit code.
- `BothAlwaysTyped`, `ActionsAlwaysTrue`, `ConnectionAlwaysKept`: `ToolInv` ties
  the services and profiles a run has passed to what it found, unless a rollback
  has failed.  `ZeroAlwaysMeansDone`: exit code 0 needs both halves, the tool's and
  the directory's.

Two corrections of the models came out of these proofs.  `TimeOut` of one
terminal used to drop answered sessions of others too; the receiver has a
session per connection, so it now drops only its own.  And the names of firewall
rules must be distinct for a rollback to restore them: they are, in the tables of
`firewall_remediation.cpp` lines 16-27, and `HostAssumption` now says so.

### 5.5 Assumptions

`HostAssumption`: the kinds of settings have different names, and no rule name
occurs twice.  `WorkflowAssumption`: initial systems are machines with no service
in the middle of stopping, bounds are numbers.  `RollbackIsPossible` needs the
former: a service that is stopping at first changes by itself, without anyone
having backed it up.  `FirewallAssumption`: required and legacy rules differ,
initial tables can exist, and nobody else inserts jumps to the program's chain.
`UploadAssumption`: two windows fit into the life of a nonce (300 and 600 seconds
in the code) and a second has at least one tick; `InstallAssumption` and
`AdminAssumption`: ports, limits and times are numbers and every browser has an
address.  `DirectoryAssumption`: a terminal belongs to one family, at least one
attempt is made, and findings have one of three risks.  `ToolAssumption`: units, profiles and the
radio are different things, and the list of targets names units or nothing.
`ReportsAssumption`: the tool works at a Kylin terminal.  TLC evaluates all of them in the runs.

### 5.6 Only model-checked

`SilentRunEnds`: liveness under fairness is out of the prover's reach.  All other
properties of the passing runs have a theorem.  Induction over data is avoided:
`ReportDirectory_proofs` finds the newest report as a minimal element (`WFMin`), and
counts are taken with the library's facts about finite sets, neither of which
needs an operator as a parameter.  What `SetToSeq` and `ToSet` yield is proved from
their definitions.

## 6. Not modelled, and why

Parsing and formatting (XLSX, HTML, JSON, CSV, logs), vendored SQLite, build
and installer files, delivery copies, the read-only audits of USB and browser
records, the verification script, the legacy launcher: no state, or state of
somebody else's.  Of the report server: the texts of pages, rules for names and
passwords, key derivation, `SelfTest`; its CSRF tokens are taken as the session
they belong to.  The random numbers of `BCryptGenRandom` are taken as
fresh, although its result is not looked at (`remote_inspector.cpp` line 173,
`report_server.cpp` line 72), and a skew of clocks is in whole seconds.  Of the receiver: passive ports, commands of the dialogue,
limits of names and sizes.  Of the exporter: the bytes of the workbook and of the
table.  The cleaner scripts and the assessment in `scan_compatibility.cpp` are left
in the plan.

## 7. Where code and documents disagree

- `windows_override`: `README.md` line 133 says that a setting overridden by
  policy or security software fails the second audit.  The audit counts
  managed rules by name (`src/audit_core.cpp` line 488), so a managed rule that
  was disabled, or changed to allow, passes, and the run ends with 0.
- `windows_rollback_scope`: `DEVELOPMENT_PLAN.md` line 217 says that a rollback
  restores only what the program changed.  `RollbackSystemRemediation` writes
  every saved setting back.
- `lock_refusal`: `README.md` line 181 explains exit code 8 by a running task.
  A process that was refused keeps the mutex alive while it ends, so it can
  cause the next refusal without any task running.
- `kylin_third_party`: `kylin-security-remediator/DEVELOPMENT_PLAN.md` line 75
  says that no third party's rule is deleted.  Positions are counted over the
  INPUT chains of all tables that `iptables-save` prints
  (`internal/firewall/plan.go` line 271), so with an INPUT rule in a table
  printed before the filter table, a repeated repair deletes the rule behind its
  old jump.
- `kylin_cems_leaves`: `internal/firewall/remediator.go` line 83 words the check as
  "all 8 ports are blocked by the CEMS policy"; line 48 ignores whether CEMS
  still manages INPUT at the second reading, and a table it does not manage
  has no missing rules.

- `kylin_profiles_lost`: `kylin-security-remediator/DEVELOPMENT_PLAN.md` line 227
  says that deleted profiles are restored if a later operation fails.  A backup
  that fails for a later profile (`internal/wireless/remediator.go` line 84)
  returns at once, and the profiles deleted before it stay deleted.

Met while modelling, without a run of their own; the models do what the code
does:

- `FindRules` and `CollectStateRules` (`firewall_remediation.cpp` lines 70-88 and
  208-214) pass over a rule that cannot be queried or has no readable name: a
  backup without it counts as complete, a removal that leaves it as successful.
- `ConfigureFirewall` ignores the result of `Remove` (`report_server.cpp` line 1237):
  a reinstallation with another port may leave the old port open and say that it
  is complete.
- The constructor of `Users` (`report_server.cpp` lines 304-319) takes a `users.db`
  it cannot open or read to its end for a shorter one: without any account
  `/setup` is open again (from the server itself), and the next `Save` overwrites
  the file.
- `State` reads a unit that is activating or reloading as inactive
  (`systemd.go` lines 33 and 51): such a unit, if not enabled, is passed over as off,
  and a rollback does not start it again; one that was enabled until the next boot
  (line 52) is enabled for good by the rollback.
- A deletion or radio command of `nmcli` that fails after it took effect is
  neither restored nor reported (`wireless/remediator.go` lines 86-94 and 109-116),
  although the error says that everything was rolled back.
- `cemsFirewallCheck` (`remediator.go` lines 79-109) passes although a rule before the
  jump of CEMS accepts everything.
- `README.md` line 173 says that the pruner keeps the newest complete report; a newer
  pair that an interrupted upload left torn counts as complete, and the older
  whole one is deleted.
- An installation that dies while it writes `upload.key` leaves a file that a
  later installation keeps (`report_server.cpp` line 1312); that one ends with
  "installation complete" although the service cannot start with such a key.
- `RiskLevel` puts a review above a low finding, `RiskRank` a low finding above
  a review (`report_issue_exporter.cpp` lines 663 and 765); and a terminal without
  an owner is "to be reviewed" whatever was found on it
  (`DEVELOPMENT_PLAN.md` line 296 describes one order).
- The pruner groups by the addresses in the file name, so a terminal whose
  address changed keeps two newest pairs.
- A person can be found by the IP address alone, which may be somebody else's
  by now (`DEVELOPMENT_PLAN.md` lines 286 and 475).

## 8. Plan

In this order; each step with its runs, properties, mutants and map entries.

Done: the Windows workflow with its lock, `KylinFirewall`, the report server
with its upload tool, the report directory with everybody at it, and the Kylin
tool.  Left:

1. Proofs: every safety property of the passing runs has its theorem.  Left are
   facts no run states yet: that the abstract promise of a directory (an
   acknowledged report is there, until a newer one is) is implemented by
   `ReportDirectory`, and that a repair of a repaired machine changes nothing.
2. `ScanCompat`: the assessment over ports, rules and processes, against a
   reference definition.
3. Passive ports of the receiver, with the deadline that frees them.
4. `HistoryCleaner`: export before deletion, service stop and restart.
