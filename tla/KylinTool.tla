----------------------------- MODULE KylinTool -----------------------------
(***************************************************************************)
(* One run of a Kylin tool (internal/app, internal/core, internal/services *)
(* and internal/wireless): an audit, for a repair or cleanup a second pass *)
(* that changes things, the two report files, and their upload.  The       *)
(* firewall (KylinFirewall) and the audits of USB and browsers succeed or  *)
(* fail here.  Profiles are the wireless ones; no others are ever touched. *)
(***************************************************************************)
EXTENDS Integers, Sequences

CONSTANTS Targets,     \* the names of services, in the order of the list
          UnitOf,      \* UnitOf[i]: what systemd calls service i, or NoUnit
          Units, NoUnit, Profiles,
          Radio,       \* the Wi-Fi switch, as a thing that is changed
          MaxTroubles, \* bound: calls that fail
          MaxOthers    \* bound: what others do to the machine

Things == Units \cup Profiles \cup {Radio}
\* A service may be just starting or stopping, or be enabled until the next boot.
ServiceStates == [active : {"no", "between", "yes"}, enabled : {"no", "runtime", "yes"}]
\* What SystemdBackend.State makes of it.
Told(s) == [active |-> s.active = "yes", enabled |-> s.enabled # "no"]
Off == [active |-> FALSE, enabled |-> FALSE]

ToolAssumption ==
    /\ Targets \in Nat /\ UnitOf \in [1..Targets -> Units \cup {NoUnit}]
    /\ NoUnit \notin Units /\ Radio \notin Units \cup Profiles
    /\ Units \cap Profiles = {} /\ {MaxTroubles, MaxOthers} \subseteq Nat

VARIABLES svc,       \* svc[u]: a service
          wifi,      \* wifi[p]: "gone", "saved" or "active"
          radio, adapter,   \* whether Wi-Fi is on, and is there at all
          run,       \* the tool
          changed,   \* services: what rollback restores
          snap,      \* wireless: the Snapshot it works from
          backups,   \* wireless: the profiles it has deleted
          actions,   \* actions[x]: what the report says was done to x
          status,    \* upload-status_*.json
          troubles, others,
          \* what was observed:
          before, touched,  \* the machine then, what others touched
          joined,    \* the profiles others connected after the last Snapshot
          unreported \* what a command changed although it failed

host == <<svc, wifi, radio, adapter>>
local == <<changed, snap, backups>>
rest == <<others, before, touched, joined, unreported>>
toolVars == <<host, run, local, actions, status, troubles, rest>>

Init ==
    /\ svc \in [Units -> ServiceStates]
    /\ wifi \in [Profiles -> {"gone", "saved", "active"}]
    /\ radio \in BOOLEAN /\ adapter \in BOOLEAN
    /\ \A p \in Profiles : wifi[p] = "active" => radio /\ adapter
    /\ \E pc \in {"idle", "exited"} :         \* a tool that is run, or not
       run = [pc |-> pc, mode |-> "audit", full |-> TRUE, upload |-> FALSE,
              acts |-> FALSE, next |-> 1, radioOff |-> FALSE, err |-> "none", exit |-> 0]
    /\ changed = <<>> /\ backups = <<>>
    /\ snap = [wifi |-> wifi, radio |-> radio]
    /\ actions = [x \in Things |-> "none"] /\ status = "none"
    /\ troubles \in 0..MaxTroubles /\ others \in 0..MaxOthers
    /\ before = [svc |-> svc, wifi |-> wifi, radio |-> radio]
    /\ touched = {} /\ joined = {} /\ unreported = {}

Fails == troubles < MaxTroubles /\ troubles' = troubles + 1
GoTo(pc) == run' = [run EXCEPT !.pc = pc]
\* NewFullEngine begins with the firewall, NewCleanupEngine with wireless.
First == IF run.full THEN "firewall" ELSE "snapshot"

\* (A variant in which an error is only shown in the report.)
EndPassQuiet(err) ==
    run' = IF ~run.acts /\ run.mode # "audit"
           THEN [run EXCEPT !.acts = TRUE, !.next = 1, !.pc = First]
           ELSE [run EXCEPT !.pc = "write"]
\* Engine.Run: the pass is over.  The first component that fails ends it; an
\* audit without an error is followed by the pass that changes things.
EndPass(err) ==
    run' = IF err = "none" /\ ~run.acts /\ run.mode # "audit"
           THEN [run EXCEPT !.acts = TRUE, !.next = 1, !.pc = First]
           ELSE [run EXCEPT !.err = err, !.pc = "write"]

\* kylin-onsite has the full engine and any mode, kylin-ftp repairs and may
\* upload, kylin-cleaner has the small engine.  The identity of the machine is
\* asked for first.
Start ==
    /\ run.pc = "idle"
    /\ \E mode \in {"audit", "repair", "clean"}, full, upload \in BOOLEAN :
       LET begun == [run EXCEPT !.mode = mode, !.full = full, !.upload = upload]
           first == IF full THEN "firewall" ELSE "snapshot"
       IN
       /\ (~full => mode = "clean") /\ (upload => mode = "repair")
       /\ \/ run' = [begun EXCEPT !.pc = first] /\ UNCHANGED troubles
          \/ run' = [begun EXCEPT !.err = "failed", !.pc = "write"] /\ Fails
          \/ run' = [begun EXCEPT !.exit = 2, !.pc = "exited"] /\ UNCHANGED troubles
    /\ UNCHANGED <<host, local, actions, status, rest>>

\* The firewall, and last the audits of USB and browsers.
OtherComponent ==
    /\ run.pc \in {"firewall", "audits"}
    /\ \/ Fails /\ EndPass("failed")
       \/ /\ UNCHANGED troubles
          /\ IF run.pc = "firewall" THEN GoTo("read") ELSE EndPass("none")
    /\ UNCHANGED <<host, local, actions, status, rest>>

-----------------------------------------------------------------------------
(* Services: one name after the other; names of one unit count once.       *)

Unit == UnitOf[run.next]
Seen == {UnitOf[i] : i \in 1..run.next - 1}
MustStop == /\ Unit \notin Seen \cup {NoUnit} /\ run.acts
            /\ Told(svc[Unit]) # Off
NextService == run' = [run EXCEPT !.pc = "read", !.next = @ + 1]

\* A state that cannot be read is an error, but nothing is undone.
ReadService ==
    /\ run.pc = "read" /\ run.next <= Targets
    /\ \/ Fails /\ EndPass("failed") /\ UNCHANGED changed
       \/ ~MustStop /\ NextService /\ UNCHANGED <<changed, troubles>>
       \/ /\ MustStop
          /\ changed' = Append(changed, [unit |-> Unit, state |-> Told(svc[Unit])])
          /\ GoTo("disable") /\ UNCHANGED troubles
    /\ UNCHANGED <<host, snap, backups, actions, status, rest>>

ServicesDone ==
    /\ run.pc = "read" /\ run.next > Targets /\ GoTo("snapshot")
    /\ UNCHANGED <<host, local, actions, status, troubles, rest>>

\* systemctl disable --now: first it disables, then it stops.  It may leave what
\* is enabled until the next boot.  If it fails, it may have come to any point.
DisableNow ==
    LET s == svc[Unit]
        disabled == {"no"} \cup ({s.enabled} \cap {"runtime"})
    IN
    /\ run.pc = "disable"
    /\ \/ /\ \E e \in disabled : svc' = [svc EXCEPT ![Unit] = [active |-> "no", enabled |-> e]]
          /\ actions' = [actions EXCEPT ![Unit] = "done"]
          /\ GoTo("recheck") /\ UNCHANGED troubles
       \/ /\ Fails /\ GoTo("undo") /\ UNCHANGED actions
          /\ \/ UNCHANGED svc
             \/ \E a \in {s.active, "no"}, e \in disabled :
                  svc' = [svc EXCEPT ![Unit] = [active |-> a, enabled |-> e]]
    /\ UNCHANGED <<wifi, radio, adapter, local, status, rest>>

RecheckService ==
    /\ run.pc = "recheck"
    /\ \/ Told(svc[Unit]) = Off /\ NextService /\ UNCHANGED troubles
       \/ Told(svc[Unit]) # Off /\ GoTo("undo") /\ UNCHANGED troubles
       \/ Fails /\ GoTo("undo")
    /\ UNCHANGED <<host, local, actions, status, rest>>

\* (A variant that does not mark the actions.)
NothingMarked(xs) == UNCHANGED actions
MarkRolledBack(xs) ==
    actions' = [x \in Things |-> IF x \in xs /\ actions[x] = "done"
                                 THEN "rolled back" ELSE actions[x]]

\* rollback, from the last change to the first, until a Restore fails.
\* Restore enables (for good) and starts what was told to be so, and never
\* stops or disables.
UndoService ==
    /\ run.pc = "undo"
    /\ IF changed = <<>>
       THEN /\ EndPass("rolled back") /\ MarkRolledBack(Units)
            /\ UNCHANGED <<svc, changed, troubles>>
       ELSE LET last == changed[Len(changed)]
                Enabled(s) == [s EXCEPT !.enabled = IF last.state.enabled THEN "yes" ELSE @]
                Started(s) == [s EXCEPT !.active = IF last.state.active THEN "yes" ELSE @]
            IN
            \/ /\ svc' = [svc EXCEPT ![last.unit] = Started(Enabled(@))]
               /\ changed' = SubSeq(changed, 1, Len(changed) - 1)
               /\ UNCHANGED <<run, actions, troubles>>
            \/ /\ Fails /\ UNCHANGED changed
               /\ \/ UNCHANGED svc
                  \/ svc' = [svc EXCEPT ![last.unit] = Enabled(@)]
                  \/ svc' = [svc EXCEPT ![last.unit] = Started(Enabled(@))]
               /\ EndPass("rollback failed") /\ MarkRolledBack(Units)
    /\ UNCHANGED <<wifi, radio, adapter, snap, backups, status, rest>>

-----------------------------------------------------------------------------
(* Wireless.                                                               *)

\* (A variant in which the repair works from what the audit had seen.)
SnapshotOnce ==
    /\ run.pc = "snapshot"
    /\ \/ Fails /\ GoTo("audits") /\ UNCHANGED <<snap, joined>>
       \/ /\ snap' = IF run.acts THEN snap ELSE [wifi |-> wifi, radio |-> radio]
          /\ joined' = {} /\ UNCHANGED troubles
          /\ GoTo(IF run.acts THEN "profiles" ELSE "audits")
    /\ UNCHANGED <<host, changed, backups, actions, status, others, before, touched, unreported>>
\* A network manager that cannot be asked is no error.
Snapshot ==
    /\ run.pc = "snapshot"
    /\ \/ Fails /\ GoTo("audits") /\ UNCHANGED <<snap, joined>>
       \/ /\ snap' = [wifi |-> wifi, radio |-> radio] /\ joined' = {} /\ UNCHANGED troubles
          /\ GoTo(IF run.acts THEN "profiles" ELSE "audits")
    /\ UNCHANGED <<host, changed, backups, actions, status, others, before, touched, unreported>>

InUse == \E p \in Profiles : snap.wifi[p] = "active"
Deleted == {backups[i] : i \in 1..Len(backups)}
Left == {p \in Profiles : snap.wifi[p] = "saved"} \ Deleted

\* A profile is backed up and then deleted, also if it is in use by now.  If
\* the backup fails, those deleted before it stay deleted.
BackupProfile ==
    /\ run.pc = "profiles" /\ Left # {}
    /\ \/ GoTo("delete") /\ UNCHANGED troubles
       \/ Fails /\ EndPass("backup failed")
    /\ UNCHANGED <<host, local, actions, status, rest>>

\* An nmcli that fails or takes too long may have deleted the profile; its
\* backup is not among those that are restored.
DeleteProfile ==
    /\ run.pc = "delete"
    /\ \/ \E p \in Left :
            /\ wifi' = [wifi EXCEPT ![p] = "gone"]
            /\ backups' = Append(backups, p)
            /\ actions' = [actions EXCEPT ![p] = "done"]
            /\ GoTo("profiles") /\ UNCHANGED <<troubles, unreported>>
       \/ /\ Fails /\ GoTo("undo wireless") /\ UNCHANGED <<backups, actions>>
          /\ \/ UNCHANGED <<wifi, unreported>>
             \/ \E p \in Left : /\ wifi' = [wifi EXCEPT ![p] = "gone"]
                                /\ unreported' = unreported \cup {p}
    /\ UNCHANGED <<svc, radio, adapter, changed, snap, status, others, before, touched, joined>>

Disconnected == [p \in Profiles |-> IF wifi[p] = "active" THEN "saved" ELSE wifi[p]]
\* Wi-Fi is only switched off where no connection depended on it.  If the
\* command fails, it may be off, and it is not switched on again.
RadioGoes == adapter /\ ~InUse /\ snap.radio
RadioOff ==
    /\ run.pc = "profiles" /\ Left = {}
    /\ \/ /\ ~RadioGoes /\ GoTo("check")
          /\ UNCHANGED <<radio, wifi, actions, troubles, unreported>>
       \/ /\ RadioGoes /\ UNCHANGED <<troubles, unreported>>
          /\ radio' = FALSE /\ wifi' = Disconnected
          /\ actions' = [actions EXCEPT ![Radio] = "done"]
          /\ run' = [run EXCEPT !.pc = "check", !.radioOff = TRUE]
       \/ /\ RadioGoes /\ Fails /\ GoTo("undo wireless") /\ UNCHANGED actions
          /\ \/ UNCHANGED <<radio, wifi, unreported>>
             \/ /\ radio' = FALSE /\ wifi' = Disconnected
                /\ unreported' = unreported \cup {Radio}
    /\ UNCHANGED <<svc, adapter, local, status, others, before, touched, joined>>

CheckWireless ==
    /\ run.pc = "check"
    /\ \/ GoTo("audits") /\ UNCHANGED troubles
       \/ Fails /\ GoTo("undo wireless")
    /\ UNCHANGED <<host, local, actions, status, rest>>

WirelessThings == Profiles \cup {Radio}
UndoWireless ==
    /\ run.pc = "undo wireless"
    /\ \/ /\ run.radioOff /\ UNCHANGED <<wifi, backups, actions, troubles>>
          /\ radio' = TRUE /\ run' = [run EXCEPT !.radioOff = FALSE]
       \/ /\ ~run.radioOff /\ backups # <<>>
          /\ wifi' = [wifi EXCEPT ![backups[Len(backups)]] = "saved"]
          /\ backups' = SubSeq(backups, 1, Len(backups) - 1)
          /\ UNCHANGED <<radio, run, actions, troubles>>
       \/ /\ run.radioOff \/ backups # <<>>
          /\ Fails /\ EndPass("rollback failed") /\ MarkRolledBack(WirelessThings)
          /\ IF run.radioOff THEN radio' \in {radio, TRUE} /\ UNCHANGED wifi
             ELSE /\ wifi' \in {wifi, [wifi EXCEPT ![backups[Len(backups)]] = "saved"]}
                  /\ UNCHANGED radio
          /\ UNCHANGED backups
       \/ /\ ~run.radioOff /\ backups = <<>>
          /\ EndPass("rolled back") /\ MarkRolledBack(WirelessThings)
          /\ UNCHANGED <<wifi, radio, backups, troubles>>
    /\ UNCHANGED <<svc, adapter, changed, snap, status, rest>>

-----------------------------------------------------------------------------
(* The report, its upload, and the exit code.                              *)

ExitWith(code) == run' = [run EXCEPT !.pc = "exited", !.exit = code]
Verdict == IF run.err = "none" THEN 0 ELSE 1

\* There is a report whatever has failed, unless it cannot be written.
WriteReport ==
    /\ run.pc = "write"
    /\ \/ GoTo("upload") /\ run.upload /\ UNCHANGED troubles
       \/ ExitWith(Verdict) /\ ~run.upload /\ UNCHANGED troubles
       \/ Fails /\ ExitWith(1)
    /\ UNCHANGED <<host, local, actions, status, rest>>

UploadFailed ==
    /\ run.pc = "upload" /\ ExitWith(3) /\ status' \in {"failed", "none"}
    /\ UNCHANGED <<host, local, actions, troubles, rest>>

Uploaded ==
    /\ run.pc = "upload"
    /\ \/ ExitWith(Verdict) /\ status' = "uploaded" /\ UNCHANGED troubles
       \/ Fails /\ ExitWith(3) /\ UNCHANGED status
    /\ UNCHANGED <<host, local, actions, rest>>

\* A user or an administrator starts a service, uses Wi-Fi, or switches it on; or
\* a service has started or stopped at last.
Other ==
    /\ run.pc \notin {"idle", "exited"}
    /\ others < MaxOthers /\ others' = others + 1
    /\ \/ \E u \in Units : /\ \/ svc' = [svc EXCEPT ![u] = [active |-> "yes",
                                                           enabled |-> "yes"]]
                              \/ /\ svc[u].active = "between"
                                 /\ \E a \in {"no", "yes"} : svc' = [svc EXCEPT ![u].active = a]
                           /\ touched' = touched \cup {u} /\ UNCHANGED <<wifi, radio, joined>>
       \/ \E p \in Profiles : /\ wifi[p] = "saved" /\ radio /\ adapter
                              /\ wifi' = [wifi EXCEPT ![p] = "active"]
                              /\ touched' = touched \cup {p} /\ joined' = joined \cup {p}
                              /\ UNCHANGED <<svc, radio>>
       \/ /\ ~radio /\ radio' = TRUE /\ touched' = touched \cup {Radio}
          /\ UNCHANGED <<svc, wifi, joined>>
    /\ UNCHANGED <<adapter, run, local, actions, status, troubles, before, unreported>>

HostStep ==
    \/ Start \/ OtherComponent
    \/ ReadService \/ ServicesDone \/ DisableNow \/ RecheckService \/ UndoService
    \/ Snapshot \/ BackupProfile \/ DeleteProfile \/ RadioOff \/ CheckWireless
    \/ UndoWireless \/ Other

ToolNext == HostStep \/ WriteReport \/ UploadFailed \/ Uploaded
ToolSpec == Init /\ [][ToolNext]_toolVars
-----------------------------------------------------------------------------
\* Units, profiles, radio, the run and its report have their types.
TypeOK ==
    /\ svc \in [Units -> ServiceStates]
    /\ wifi \in [Profiles -> {"gone", "saved", "active"}]
    /\ radio \in BOOLEAN /\ adapter \in BOOLEAN
    /\ run \in [pc : {"idle", "firewall", "audits", "read", "disable", "recheck",
                      "undo", "snapshot", "profiles", "delete", "check",
                      "undo wireless", "write", "upload", "exited"},
                mode : {"audit", "repair", "clean"}, full : BOOLEAN,
                upload : BOOLEAN,
                acts : BOOLEAN, next : 1..Targets + 1, radioOff : BOOLEAN,
                err : {"none", "failed", "backup failed", "rolled back",
                       "rollback failed"},
                exit : 0..3]
    /\ changed \in Seq([unit : Units, state : [active : BOOLEAN, enabled : BOOLEAN]])
    /\ backups \in Seq(Profiles)
    /\ snap \in [wifi : [Profiles -> {"gone", "saved", "active"}], radio : BOOLEAN]
    /\ actions \in [Things -> {"none", "done", "rolled back"}]
    /\ status \in {"none", "failed", "uploaded"}
    /\ troubles \in 0..MaxTroubles /\ others \in 0..MaxOthers
    /\ before \in [svc : [Units -> ServiceStates],
                   wifi : [Profiles -> {"gone", "saved", "active"}],
                   radio : BOOLEAN]
    /\ touched \subseteq Things /\ joined \subseteq Profiles
    /\ unreported \subseteq Profiles \cup {Radio}

Now(x) == IF x \in Units THEN Told(svc[x]) ELSE IF x \in Profiles THEN wifi[x] ELSE radio
Then(x) == IF x \in Units THEN Told(before.svc[x])
           ELSE IF x \in Profiles THEN before.wifi[x] ELSE before.radio

\* The report is true about changes, however the run came to its end: unless
\* a rollback failed, the things that differ from what they were are exactly
\* those that were "done", leaving aside what others have touched.  Two things
\* the code misses are left out: what a wireless command changed although it
\* failed is neither restored nor reported, and services are compared as State
\* tells them, so that the rollback does not start one again that was just
\* starting, and enables one for good that was enabled until the next boot.
ActionsAreTrue ==
    run.pc \in {"write", "upload", "exited"} /\ run.err # "rollback failed" =>
        \A x \in Things \ (touched \cup unreported) :
            (Now(x) # Then(x)) <=> (actions[x] = "done")

\* The tool never cuts a wireless connection, except one that somebody made
\* after the tool had last looked.
ConnectionKept ==
    [][\A p \in Profiles : wifi[p] = "active" /\ wifi'[p] # "active"
                           => p \in joined]_wifi

\* What DEVELOPMENT_PLAN.md line 227 of the Kylin tool says: where a later
\* step fails, the deleted profiles are restored.
ProfilesRestored ==
    run.err = "backup failed" =>
        \A p \in Profiles \ touched : wifi[p] = before.wifi[p]
=============================================================================
