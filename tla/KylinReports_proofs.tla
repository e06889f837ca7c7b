------------------------ MODULE KylinReports_proofs ------------------------
(***************************************************************************)
(* What holds of the directory alone holds with the tool at work, the      *)
(* report of the tool is true, and a repair that ends with 0 has done what *)
(* it is for.                                                              *)
(***************************************************************************)
EXTENDS KylinReports, ReportDirectory_proofs

(* A step of the whole is a step of the directory and one of the tool, or  *)
(* leaves one of them alone.                                               *)
LEMMA DirectorySteps == [BothNext]_<<vars, tool>> => [Next]_vars
<1>1. CASE Tool!HostStep /\ UNCHANGED vars
  BY <1>1
<1>2. CASE WriteReport
  BY <1>2, ReportsAssumption DEF WriteReport, Next, ToolStep, Terminals
<1>3. CASE Upload
  BY <1>3, ReportsAssumption DEF Upload, Next, ToolStep, Terminals
<1>4. CASE DirectoryStep /\ UNCHANGED tool
  BY <1>4 DEF DirectoryStep, Next
<1>5. CASE UNCHANGED <<vars, tool>>
  BY <1>5
<1>6. QED
  BY <1>1, <1>2, <1>3, <1>4, <1>5 DEF BothNext

LEMMA ToolSteps == [BothNext]_<<vars, tool>> => [Tool!ToolNext]_(Tool!toolVars)
<1>1. UNCHANGED tool => UNCHANGED Tool!toolVars
  BY Zenon DEF tool, Tool!toolVars, Tool!host, Tool!local, Tool!rest
<1>2. CASE Tool!HostStep /\ UNCHANGED vars
  BY <1>2, Zenon DEF Tool!ToolNext
<1>3. CASE WriteReport
  BY <1>3, Zenon DEF WriteReport, Tool!ToolNext
<1>4. CASE Upload
  BY <1>4, <1>1, Zenon DEF Upload, Tool!ToolNext
<1>5. CASE UNCHANGED tool
  BY <1>1, <1>5
<1>6. QED
  BY <1>2, <1>3, <1>4, <1>5, Zenon DEF BothNext

(***************************************************************************)
(* The two components are implemented by their composition                 *)
(* (kylin-security-remediator's tools and its receiver).                   *)
(***************************************************************************)
THEOREM PartsImplemented == BothSpec => Spec /\ Tool!ToolSpec
<1>1. BothInit => Init /\ Tool!Init
  BY DEF BothInit
<1>2. QED
  BY <1>1, DirectorySteps, ToolSteps, PTL DEF BothSpec, Spec, Tool!ToolSpec

-----------------------------------------------------------------------------
(* Types of the tool.                                                      *)

Pcs == {"idle", "firewall", "audits", "read", "disable", "recheck", "undo",
        "snapshot", "profiles", "delete", "check", "undo wireless", "write",
        "upload", "exited"}
Errors == {"none", "failed", "backup failed", "rolled back", "rollback failed"}
RunType == [pc : Pcs, mode : {"audit", "repair", "clean"}, full : BOOLEAN,
            upload : BOOLEAN, acts : BOOLEAN, next : 1..Targets + 1,
            radioOff : BOOLEAN, err : Errors, exit : 0..3]

Ended == {"write", "upload", "exited"}
Stopping == {"disable", "recheck"}
Cleaning == {"profiles", "delete", "check"}
Deletable == Profiles \cup {Radio}

\* An error ends the pass; what changes the machine belongs to the second pass.
RunInv ==
    /\ run.pc \notin Ended => run.err = "none"
    /\ run.pc \in Stopping \cup Cleaning \cup {"undo", "undo wireless"} => run.acts
    /\ run.pc \in {"idle", "firewall"} => run.next = 1
    /\ run.pc \in Stopping => /\ run.next <= Targets /\ UnitOf[run.next] \in Units
                              /\ changed # <<>>
                              /\ changed[Len(changed)].unit = UnitOf[run.next]
    /\ run.mode = "repair" => run.full

LEMMA ToolConstants ==
  /\ Targets \in Nat /\ UnitOf \in [1..Targets -> Units \cup {NoUnit}]
  /\ NoUnit \notin Units /\ Radio \notin Units \cup Profiles
  /\ Units \cap Profiles = {} /\ MaxTroubles \in Nat /\ MaxOthers \in Nat
  BY ReportsAssumption DEF Tool!ToolAssumption

LEMMA RunParts ==
  ASSUME Tool!TypeOK
  PROVE  /\ run \in RunType /\ run.pc \in Pcs /\ run.err \in Errors
         /\ run.next \in 1..Targets + 1 /\ run.acts \in BOOLEAN
  BY DEF Tool!TypeOK, RunType, Pcs, Errors

\* How the record of the run changes.
LEMMA GoToTyped ==
  ASSUME run \in RunType, NEW pc \in Pcs, Tool!GoTo(pc)
  PROVE  run' \in RunType
  BY DEF RunType, Tool!GoTo

LEMMA EndPassTyped ==
  ASSUME run \in RunType, NEW err \in Errors, Tool!EndPass(err)
  PROVE  run' \in RunType
<1>1. 1 \in 1..Targets + 1
  BY ToolConstants
<1>2. {"write", "firewall", "snapshot"} \subseteq Pcs
  BY DEF Pcs
<1>3. CASE err = "none" /\ ~run.acts /\ run.mode # "audit"
  BY <1>1, <1>2, <1>3 DEF RunType, Tool!EndPass, Tool!First
<1>4. CASE ~(err = "none" /\ ~run.acts /\ run.mode # "audit")
  <2>1. run' = [run EXCEPT !.err = err, !.pc = "write"]
    BY <1>4, Zenon DEF Tool!EndPass
  <2>2. QED
    BY <2>1, <1>2 DEF RunType
<1>5. QED
  BY <1>3, <1>4

LEMMA ExitTyped ==
  ASSUME run \in RunType, NEW code \in 0..3, Tool!ExitWith(code)
  PROVE  run' \in RunType
  BY DEF RunType, Pcs, Tool!ExitWith

LEMMA NextServiceTyped ==
  ASSUME run \in RunType, run.next <= Targets, Tool!NextService
  PROVE  run' \in RunType
<1>1. run.next + 1 \in 1..Targets + 1
  BY ToolConstants DEF RunType
<1>2. "read" \in Pcs
  BY DEF Pcs
<1>3. QED
  BY <1>1, <1>2 DEF RunType, Tool!NextService

LEMMA TroublesTyped == troubles \in 0..MaxTroubles /\ Tool!Fails => troubles' \in 0..MaxTroubles
  BY ToolConstants DEF Tool!Fails
LEMMA OthersTyped ==
  others \in 0..MaxOthers /\ others < MaxOthers /\ others' = others + 1 => others' \in 0..MaxOthers
  BY ToolConstants

\* What systemctl can tell of a service.
ToldStates == [active : BOOLEAN, enabled : BOOLEAN]

\* Everything but the run.
HostTyped ==
    /\ svc \in [Units -> Tool!ServiceStates]
    /\ wifi \in [Profiles -> {"gone", "saved", "active"}]
    /\ radio \in BOOLEAN /\ adapter \in BOOLEAN
LocalTyped ==
    /\ changed \in Seq([unit : Units, state : ToldStates])
    /\ backups \in Seq(Profiles)
    /\ snap \in [wifi : [Profiles -> {"gone", "saved", "active"}], radio : BOOLEAN]
ActionsTyped == actions \in [Tool!Things -> {"none", "done", "rolled back"}]
StatusTyped == status \in {"none", "failed", "uploaded"}
ObservedTyped ==
    /\ before \in [svc : [Units -> Tool!ServiceStates],
                   wifi : [Profiles -> {"gone", "saved", "active"}],
                   radio : BOOLEAN]
    /\ touched \subseteq Tool!Things /\ joined \subseteq Profiles
    /\ unreported \subseteq Deletable

AllTyped == /\ HostTyped /\ run \in RunType /\ LocalTyped /\ ActionsTyped
            /\ StatusTyped /\ troubles \in 0..MaxTroubles
            /\ others \in 0..MaxOthers /\ ObservedTyped
LEMMA ToolTypeParts == (Tool!TypeOK <=> AllTyped) /\ (Tool!TypeOK' <=> AllTyped')
  BY Zenon DEF Tool!TypeOK, HostTyped, RunType, LocalTyped, ActionsTyped, StatusTyped,
         ObservedTyped, AllTyped, Pcs, Errors, ToldStates, Deletable

LEMMA PartsStay ==
  /\ HostTyped /\ UNCHANGED Tool!host => HostTyped'
  /\ LocalTyped /\ UNCHANGED Tool!local => LocalTyped'
  /\ ActionsTyped /\ UNCHANGED actions => ActionsTyped'
  /\ StatusTyped /\ UNCHANGED status => StatusTyped'
  /\ ObservedTyped /\ others \in 0..MaxOthers /\ UNCHANGED Tool!rest =>
       ObservedTyped' /\ others' \in 0..MaxOthers
  /\ ActionsTyped /\ (\E xs : Tool!MarkRolledBack(xs)) => ActionsTyped'
  BY Zenon DEF HostTyped, LocalTyped, ActionsTyped, StatusTyped, ObservedTyped, Tool!host,
         Tool!local, Tool!rest, Tool!MarkRolledBack

\* The steps that leave the machine and what is remembered of it alone.
QuietStep ==
    \/ Tool!Start \/ Tool!OtherComponent \/ Tool!ServicesDone \/ Tool!RecheckService
    \/ Tool!BackupProfile \/ Tool!CheckWireless
    \/ Tool!WriteReport \/ Tool!UploadFailed \/ Tool!Uploaded

LEMMA StartRun ==
  ASSUME run \in RunType, Tool!Start
  PROVE  \E mode \in {"audit", "repair", "clean"}, full \in BOOLEAN, upload \in BOOLEAN,
            pc \in Pcs, err \in Errors, exit \in 0..3 :
            run' = [run EXCEPT !.mode = mode, !.full = full, !.upload = upload, !.pc = pc,
                               !.err = err, !.exit = exit]
<1>1. PICK mode \in {"audit", "repair", "clean"}, full \in BOOLEAN, upload \in BOOLEAN :
        LET begun == [run EXCEPT !.mode = mode, !.full = full, !.upload = upload]
        IN  \/ run' = [begun EXCEPT !.pc = IF full THEN "firewall" ELSE "snapshot"]
            \/ run' = [begun EXCEPT !.err = "failed", !.pc = "write"]
            \/ run' = [begun EXCEPT !.exit = 2, !.pc = "exited"]
  BY ZenonT(90) DEF Tool!Start
<1>2. /\ {"firewall", "snapshot", "write", "exited"} \subseteq Pcs /\ "failed" \in Errors
      /\ run.err \in Errors /\ run.exit \in 0..3 /\ 2 \in 0..3
  <2>1. run.err \in Errors /\ run.exit \in 0..3 /\ 2 \in 0..3
    BY DEF RunType
  <2>2. {"firewall", "snapshot", "write", "exited"} \subseteq Pcs /\ "failed" \in Errors
    BY DEF Pcs, Errors
  <2>3. QED
    BY <2>1, <2>2
<1>3. \E pc \in Pcs, err \in Errors, exit \in 0..3 :
         run' = [run EXCEPT !.mode = mode, !.full = full, !.upload = upload, !.pc = pc,
                            !.err = err, !.exit = exit]
  <2>1. CASE run' = [[run EXCEPT !.mode = mode, !.full = full, !.upload = upload]
                       EXCEPT !.pc = IF full THEN "firewall" ELSE "snapshot"]
    <3>1. run' = [run EXCEPT !.mode = mode, !.full = full, !.upload = upload,
                             !.pc = IF full THEN "firewall" ELSE "snapshot",
                             !.err = run.err, !.exit = run.exit]
      BY <2>1 DEF RunType
    <3>2. (IF full THEN "firewall" ELSE "snapshot") \in Pcs
      BY <1>2
    <3>3. QED
      BY <3>1, <3>2, <1>2, Zenon
  <2>2. CASE run' = [[run EXCEPT !.mode = mode, !.full = full, !.upload = upload]
                       EXCEPT !.err = "failed", !.pc = "write"]
    <3>1. run' = [run EXCEPT !.mode = mode, !.full = full, !.upload = upload,
                             !.pc = "write", !.err = "failed", !.exit = run.exit]
      BY <2>2 DEF RunType
    <3>2. "write" \in Pcs
      BY <1>2
    <3>3. QED
      BY <3>1, <3>2, <1>2, Zenon
  <2>3. CASE run' = [[run EXCEPT !.mode = mode, !.full = full, !.upload = upload]
                       EXCEPT !.exit = 2, !.pc = "exited"]
    <3>1. run' = [run EXCEPT !.mode = mode, !.full = full, !.upload = upload,
                             !.pc = "exited", !.err = run.err, !.exit = 2]
      BY <2>3 DEF RunType
    <3>2. "exited" \in Pcs
      BY <1>2
    <3>3. QED
      BY <3>1, <3>2, <1>2, Zenon
  <2>4. QED
    BY <1>1, <2>1, <2>2, <2>3
<1>4. PICK pc \in Pcs, err \in Errors, exit \in 0..3 :
        run' = [run EXCEPT !.mode = mode, !.full = full, !.upload = upload, !.pc = pc,
                           !.err = err, !.exit = exit]
  BY <1>3, Zenon
<1>5. QED
  BY <1>4, ZenonT(60)

LEMMA QuietRun ==
  ASSUME Tool!TypeOK, RunInv, QuietStep
  PROVE  run' \in RunType
<1> USE RunParts
<1>1. CASE Tool!Start
  <2>1. PICK mode \in {"audit", "repair", "clean"}, full \in BOOLEAN, upload \in BOOLEAN,
             pc \in Pcs, err \in Errors, exit \in 0..3 :
             run' = [run EXCEPT !.mode = mode, !.full = full, !.upload = upload, !.pc = pc,
                                !.err = err, !.exit = exit]
    BY <1>1, StartRun, Zenon
  <2>2. QED
    BY <2>1 DEF RunType
<1>2. CASE Tool!OtherComponent
  <2>1. "failed" \in Errors /\ "none" \in Errors /\ "read" \in Pcs
    BY DEF Errors, Pcs
  <2>2. \/ Tool!GoTo("read") \/ Tool!EndPass("none") \/ Tool!EndPass("failed")
    BY <1>2, Zenon DEF Tool!OtherComponent
  <2>3. QED
    BY <2>1, <2>2, GoToTyped, EndPassTyped
<1>3. CASE Tool!ServicesDone \/ Tool!CheckWireless
  <2>1. Tool!GoTo("snapshot") \/ Tool!GoTo("audits") \/ Tool!GoTo("undo wireless")
    BY <1>3, Zenon DEF Tool!ServicesDone, Tool!CheckWireless
  <2>2. {"snapshot", "audits", "undo wireless"} \subseteq Pcs
    BY DEF Pcs
  <2>3. QED
    BY <2>1, <2>2, GoToTyped
<1>4. CASE Tool!RecheckService
  <2>1. run.next <= Targets
    BY <1>4 DEF Tool!RecheckService, RunInv, Stopping
  <2>2. Tool!NextService \/ Tool!GoTo("undo")
    BY <1>4, Zenon DEF Tool!RecheckService
  <2>3. "undo" \in Pcs
    BY DEF Pcs
  <2>4. QED
    BY <2>1, <2>2, <2>3, NextServiceTyped, GoToTyped
<1>5. CASE Tool!BackupProfile
  <2>1. Tool!GoTo("delete") \/ Tool!EndPass("backup failed")
    BY <1>5, Zenon DEF Tool!BackupProfile
  <2>2. "delete" \in Pcs /\ "backup failed" \in Errors
    BY DEF Pcs, Errors
  <2>3. QED
    BY <2>1, <2>2, GoToTyped, EndPassTyped
<1>6. CASE Tool!WriteReport \/ Tool!UploadFailed \/ Tool!Uploaded
  <2>1. Tool!GoTo("upload") \/ Tool!ExitWith(Tool!Verdict) \/ Tool!ExitWith(1) \/ Tool!ExitWith(3)
    BY <1>6, Zenon DEF Tool!WriteReport, Tool!UploadFailed, Tool!Uploaded
  <2>2. Tool!Verdict \in 0..3 /\ 1 \in 0..3 /\ 3 \in 0..3
    BY DEF Tool!Verdict
  <2> "upload" \in Pcs
    BY DEF Pcs
  <2>3. QED
    BY <2>1, <2>2, GoToTyped, ExitTyped
<1>7. QED
  BY <1>1, <1>2, <1>3, <1>4, <1>5, <1>6 DEF QuietStep

LEMMA QuietRest ==
  ASSUME QuietStep
  PROVE  /\ UNCHANGED <<svc, wifi, radio, adapter, changed, snap, backups, actions>>
         /\ UNCHANGED <<others, before, touched, joined, unreported>>
         /\ UNCHANGED troubles \/ Tool!Fails
         /\ UNCHANGED status \/ status' \in {"failed", "none", "uploaded"}
  BY Zenon DEF QuietStep, Tool!Start, Tool!OtherComponent, Tool!ServicesDone, Tool!RecheckService,
     Tool!BackupProfile, Tool!CheckWireless, Tool!WriteReport, Tool!UploadFailed,
     Tool!Uploaded, Tool!host, Tool!local, Tool!rest

LEMMA QuietTyped == Tool!TypeOK /\ RunInv /\ QuietStep => Tool!TypeOK'
<1> SUFFICES ASSUME Tool!TypeOK, RunInv, QuietStep PROVE Tool!TypeOK'
  OBVIOUS
<1>1. UNCHANGED <<Tool!host, Tool!local, actions, Tool!rest>>
  BY QuietRest, Zenon DEF Tool!host, Tool!local, Tool!rest
<1>2. troubles' \in 0..MaxTroubles
  BY QuietRest, ToolTypeParts, TroublesTyped DEF AllTyped
<1>3. StatusTyped'
  BY QuietRest, ToolTypeParts, PartsStay DEF StatusTyped, AllTyped
<1>4. (HostTyped /\ LocalTyped /\ ActionsTyped /\ ObservedTyped /\ others \in 0..MaxOthers)'
  BY <1>1, ToolTypeParts, PartsStay DEF AllTyped
<1>5. QED
  BY <1>2, <1>3, <1>4, QuietRun, ToolTypeParts DEF AllTyped

LEMMA AppendTyped ==
  ASSUME NEW S, NEW s \in Seq(S), NEW e \in S
  PROVE  Append(s, e) \in Seq(S)
  OBVIOUS

LEMMA FrontTyped ==
  ASSUME NEW S, NEW s \in Seq(S), s # <<>>
  PROVE  /\ SubSeq(s, 1, Len(s) - 1) \in Seq(S) /\ s[Len(s)] \in S
         /\ Len(s) \in Nat \ {0} /\ Len(SubSeq(s, 1, Len(s) - 1)) = Len(s) - 1
         /\ \A i \in 1..Len(s) - 1 : SubSeq(s, 1, Len(s) - 1)[i] = s[i]
         /\ Len(s) \in 1..Len(s)
         /\ \A i \in 1..Len(s) : i = Len(s) \/ i \in 1..Len(s) - 1
         /\ \A i \in 1..Len(s) - 1 : i \in 1..Len(s)
<1>1. Len(s) \in Nat \ {0} /\ s \in [1..Len(s) -> S]
  OBVIOUS
<1>2. SubSeq(s, 1, Len(s) - 1) = [i \in 1..Len(s) - 1 |-> s[i]]
  BY <1>1, SMT
<1>3. [i \in 1..Len(s) - 1 |-> s[i]] \in Seq(S)
  BY <1>1, SMT
<1>4. /\ SubSeq(s, 1, Len(s) - 1) \in Seq(S) /\ s[Len(s)] \in S
      /\ Len(SubSeq(s, 1, Len(s) - 1)) = Len(s) - 1
      /\ \A i \in 1..Len(s) - 1 : SubSeq(s, 1, Len(s) - 1)[i] = s[i]
  BY <1>1, <1>2, <1>3, SMT
<1>5. ASSUME NEW n \in Nat \ {0}
      PROVE  /\ n \in 1..n /\ \A i \in 1..n : i = n \/ i \in 1..n - 1
             /\ \A i \in 1..n - 1 : i \in 1..n
  OBVIOUS
<1>6. QED
  BY <1>1, <1>4, <1>5, Zenon

LEMMA ServiceTyped ==
  ASSUME svc \in [Units -> Tool!ServiceStates], NEW u
  PROVE  /\ \A s \in Tool!ServiceStates : [svc EXCEPT ![u] = s] \in [Units -> Tool!ServiceStates]
         /\ [svc EXCEPT ![u] = [active |-> "yes", enabled |-> "yes"]]
              \in [Units -> Tool!ServiceStates]
         /\ \A a \in {"no", "yes"} : [svc EXCEPT ![u].active = a] \in [Units -> Tool!ServiceStates]
<1>1. ASSUME NEW a \in {"no", "yes"}
      PROVE  [svc EXCEPT ![u].active = a] \in [Units -> Tool!ServiceStates]
  BY DEF Tool!ServiceStates
<1>2. [active |-> "yes", enabled |-> "yes"] \in Tool!ServiceStates
  BY DEF Tool!ServiceStates
<1>3. QED
  BY <1>1, <1>2

\* What is told of a service is above t where it is on or enabled more often.
Below(s, t) == (s.active => t.active) /\ (s.enabled => t.enabled)

LEMMA ToldTyped ==
  ASSUME NEW s \in Tool!ServiceStates
  PROVE  Tool!Told(s) \in ToldStates
  BY DEF Tool!Told, ToldStates

\* How far a disable that succeeds or fails has come.
LEMMA DisableReads ==
  ASSUME svc \in [Units -> Tool!ServiceStates], Tool!DisableNow, Tool!Unit \in Units
  PROVE  \E s \in Tool!ServiceStates :
            /\ svc' = [svc EXCEPT ![Tool!Unit] = s]
            /\ Below(Tool!Told(s), Tool!Told(svc[Tool!Unit]))
<1>1. PICK t \in Tool!ServiceStates : t = svc[Tool!Unit]
  OBVIOUS
<1>2. CASE svc' = svc
  <2>1. svc' = [svc EXCEPT ![Tool!Unit] = t] /\ Below(Tool!Told(t), Tool!Told(t))
    BY <1>1, <1>2 DEF Below
  <2>2. QED
    BY <1>1, <2>1
<1>3. CASE \E a \in {t.active, "no"}, e \in {"no"} \cup ({t.enabled} \cap {"runtime"}) :
              svc' = [svc EXCEPT ![Tool!Unit] = [active |-> a, enabled |-> e]]
  <2>1. PICK a \in {t.active, "no"}, e \in {"no"} \cup ({t.enabled} \cap {"runtime"}) :
              svc' = [svc EXCEPT ![Tool!Unit] = [active |-> a, enabled |-> e]]
    BY <1>3
  <2>2. [active |-> a, enabled |-> e] \in Tool!ServiceStates
    BY DEF Tool!ServiceStates
  <2>3. Below(Tool!Told([active |-> a, enabled |-> e]), Tool!Told(t))
    BY DEF Below, Tool!Told, Tool!ServiceStates
  <2>4. QED
    BY <1>1, <2>1, <2>2, <2>3
<1>4. svc' = svc \/ \E a \in {t.active, "no"}, e \in {"no"} \cup ({t.enabled} \cap {"runtime"}) :
                      svc' = [svc EXCEPT ![Tool!Unit] = [active |-> a, enabled |-> e]]
  BY <1>1 DEF Tool!DisableNow
<1>5. QED
  BY <1>2, <1>3, <1>4

\* What a Restore makes of a service.
Joint(s, t) == [active |-> s.active \/ t.active, enabled |-> s.enabled \/ t.enabled]
Enabled(s, t) == [s EXCEPT !.enabled = IF t.enabled THEN "yes" ELSE @]
Started(s, t) == [s EXCEPT !.active = IF t.active THEN "yes" ELSE @]

LEMMA RestoreReads ==
  ASSUME NEW s \in Tool!ServiceStates, NEW t \in ToldStates
  PROVE  /\ Enabled(s, t) \in Tool!ServiceStates
         /\ Started(Enabled(s, t), t) \in Tool!ServiceStates
         /\ Tool!Told(Started(Enabled(s, t), t)) = Joint(Tool!Told(s), t)
<1>1. Enabled(s, t) \in Tool!ServiceStates
  BY DEF Enabled, Tool!ServiceStates
<1>2. /\ Enabled(s, t).active = s.active
      /\ Enabled(s, t).enabled = IF t.enabled THEN "yes" ELSE s.enabled
  BY DEF Enabled, Tool!ServiceStates
<1>3. PICK e \in Tool!ServiceStates : e = Enabled(s, t)
  BY <1>1
<1>4. /\ Started(e, t) \in Tool!ServiceStates
      /\ Started(e, t).active = IF t.active THEN "yes" ELSE e.active
      /\ Started(e, t).enabled = e.enabled
  BY DEF Started, Tool!ServiceStates
<1>5. t.active \in BOOLEAN /\ t.enabled \in BOOLEAN
  BY DEF ToldStates
<1>6. Tool!Told(Started(e, t)) = Joint(Tool!Told(s), t)
  <2>1. Started(e, t).active = "yes" <=> s.active = "yes" \/ t.active
    BY <1>2, <1>3, <1>4, <1>5
  <2>2. Started(e, t).enabled # "no" <=> s.enabled # "no" \/ t.enabled
    BY <1>2, <1>3, <1>4, <1>5
  <2>3. QED
    BY <2>1, <2>2, <1>5 DEF Tool!Told, Joint
<1>7. QED
  BY <1>1, <1>3, <1>4, <1>6

\* Services.
LEMMA ServicesTyped ==
  ASSUME Tool!TypeOK, RunInv,
         Tool!ReadService \/ Tool!DisableNow \/ Tool!UndoService
  PROVE  Tool!TypeOK'
<1> USE ToolTypeParts DEF AllTyped
<1>1. AllTyped /\ troubles \in 0..MaxTroubles
  OBVIOUS
<1>2. CASE Tool!ReadService
  <2>1. UNCHANGED <<Tool!host, snap, backups, actions, status, Tool!rest>>
    BY <1>2, Zenon DEF Tool!ReadService
  <2>2. troubles' \in 0..MaxTroubles
    BY <1>1, <1>2, TroublesTyped DEF Tool!ReadService
  <2>3. run' \in RunType /\ changed' \in Seq([unit : Units, state : ToldStates])
    <3>1. CASE Tool!EndPass("failed") /\ UNCHANGED changed
      BY <1>1, <3>1, EndPassTyped DEF Errors, LocalTyped
    <3>2. CASE Tool!NextService /\ UNCHANGED changed
      BY <1>1, <1>2, <3>2, NextServiceTyped DEF LocalTyped, Tool!ReadService
    <3>3. CASE /\ Tool!MustStop /\ Tool!GoTo("disable")
               /\ changed' = Append(changed, [unit |-> Tool!Unit, state |-> Tool!Told(svc[Tool!Unit])])
      <4>1. Tool!Unit \in Units
        BY <1>1, <1>2, <3>3, ToolConstants DEF Tool!MustStop, Tool!Unit, RunType, Tool!ReadService
      <4>2. [unit |-> Tool!Unit, state |-> Tool!Told(svc[Tool!Unit])] \in [unit : Units, state : ToldStates]
        BY <1>1, <4>1, ToldTyped DEF HostTyped
      <4>3. "disable" \in Pcs
        BY DEF Pcs
      <4>4. QED
        BY <1>1, <3>3, <4>2, <4>3, AppendTyped, GoToTyped DEF LocalTyped
    <3>4. QED
      BY <1>2, <3>1, <3>2, <3>3, Zenon DEF Tool!ReadService
  <2>4. QED
    BY <1>1, <2>1, <2>2, <2>3, PartsStay DEF LocalTyped
<1>3. CASE Tool!DisableNow
  <2>1. UNCHANGED <<wifi, radio, adapter, Tool!local, status, Tool!rest>>
    BY <1>3, Zenon DEF Tool!DisableNow
  <2>2. troubles' \in 0..MaxTroubles
    BY <1>1, <1>3, TroublesTyped DEF Tool!DisableNow
  <2>3. run' \in RunType
    <3>1. {"undo", "recheck"} \subseteq Pcs
      BY DEF Pcs
    <3>2. QED
      BY <1>1, <1>3, <3>1, GoToTyped DEF Tool!DisableNow
  <2>4. svc' \in [Units -> Tool!ServiceStates]
    <3>1. svc \in [Units -> Tool!ServiceStates] /\ Tool!Unit \in Units
      BY <1>1, <1>3 DEF HostTyped, RunInv, Stopping, Tool!DisableNow, Tool!Unit
    <3>2. QED
      BY <1>3, <3>1, DisableReads, ServiceTyped
  <2>5. ActionsTyped'
    <3>1. actions' = actions \/ actions' = [actions EXCEPT ![Tool!Unit] = "done"]
      BY <1>3 DEF Tool!DisableNow
    <3>2. QED
      BY <1>1, <3>1 DEF ActionsTyped
  <2>6. QED
    BY <1>1, <2>1, <2>2, <2>3, <2>4, <2>5, PartsStay DEF HostTyped
<1>4. CASE Tool!UndoService
  <2>1. UNCHANGED <<wifi, radio, adapter, snap, backups, status, Tool!rest>>
    BY <1>4, Zenon DEF Tool!UndoService
  <2>2. troubles' \in 0..MaxTroubles
    BY <1>1, <1>4, TroublesTyped DEF Tool!UndoService
  <2>3. run' \in RunType
    <3>1. {"rolled back", "rollback failed"} \subseteq Errors
      BY DEF Errors
    <3>2. run' = run \/ Tool!EndPass("rolled back") \/ Tool!EndPass("rollback failed")
      BY <1>4, Zenon DEF Tool!UndoService
    <3>3. QED
      BY <1>1, <3>1, <3>2, EndPassTyped
  <2>4. ActionsTyped'
    BY <1>1, <1>4, PartsStay DEF Tool!UndoService
  <2>5. /\ svc' \in [Units -> Tool!ServiceStates]
        /\ changed' \in Seq([unit : Units, state : ToldStates])
    <3>1. CASE changed = <<>>
      BY <1>1, <1>4, <3>1 DEF Tool!UndoService, HostTyped, LocalTyped
    <3>2. CASE changed # <<>>
      <4>1. PICK last : last = changed[Len(changed)]
        OBVIOUS
      <4>2. /\ last \in [unit : Units, state : ToldStates]
            /\ changed \in Seq([unit : Units, state : ToldStates])
            /\ SubSeq(changed, 1, Len(changed) - 1) \in Seq([unit : Units, state : ToldStates])
        BY <1>1, <3>2, <4>1, FrontTyped DEF LocalTyped
      <4>3. /\ changed' = changed \/ changed' = SubSeq(changed, 1, Len(changed) - 1)
            /\ \/ svc' = svc \/ svc' = [svc EXCEPT ![last.unit] = Enabled(@, last.state)]
               \/ svc' = [svc EXCEPT ![last.unit] = Started(Enabled(@, last.state), last.state)]
        BY <1>4, <3>2, <4>1 DEF Tool!UndoService, Enabled, Started
      <4>4. last.state \in ToldStates /\ last.unit \in Units
        BY <4>2
      <4>5. svc \in [Units -> Tool!ServiceStates]
        BY <1>1 DEF HostTyped
      <4>6. PICK s \in Tool!ServiceStates : s = svc[last.unit]
        BY <4>4, <4>5
      <4>7. /\ [svc EXCEPT ![last.unit] = Enabled(s, last.state)] \in [Units -> Tool!ServiceStates]
            /\ [svc EXCEPT ![last.unit] = Started(Enabled(s, last.state), last.state)]
                 \in [Units -> Tool!ServiceStates]
        BY <4>4, <4>5, RestoreReads, ServiceTyped
      <4>8. QED
        BY <4>2, <4>3, <4>4, <4>5, <4>6, <4>7
    <3>3. QED
      BY <3>1, <3>2
  <2>6. QED
    BY <1>1, <2>1, <2>2, <2>3, <2>4, <2>5, PartsStay DEF HostTyped, LocalTyped
<1>5. QED
  BY <1>2, <1>3, <1>4

\* Wireless.
SeenSame == UNCHANGED <<others, before, touched>>

LEMMA WirelessTyped ==
  ASSUME Tool!TypeOK, RunInv,
         Tool!Snapshot \/ Tool!DeleteProfile \/ Tool!RadioOff \/ Tool!UndoWireless
  PROVE  Tool!TypeOK'
<1> USE ToolTypeParts DEF AllTyped
<1>1. AllTyped /\ troubles \in 0..MaxTroubles
  OBVIOUS
<1>2. CASE Tool!Snapshot
  <2>1. UNCHANGED <<Tool!host, changed, backups, actions, status>> /\ SeenSame
    BY <1>2, Zenon DEF Tool!Snapshot, SeenSame
  <2>o. joined' \subseteq Profiles /\ UNCHANGED unreported
    BY <1>1, <1>2 DEF Tool!Snapshot, ObservedTyped
  <2>2. troubles' \in 0..MaxTroubles
    BY <1>1, <1>2, TroublesTyped DEF Tool!Snapshot
  <2>3. run' \in RunType
    <3>1. Tool!GoTo("audits") \/ Tool!GoTo("profiles")
      BY <1>2 DEF Tool!Snapshot
    <3>2. {"audits", "profiles"} \subseteq Pcs
      BY DEF Pcs
    <3>3. QED
      BY <1>1, <3>1, <3>2, GoToTyped
  <2>4. snap' = snap \/ snap' = [wifi |-> wifi, radio |-> radio]
    BY <1>2, Zenon DEF Tool!Snapshot
  <2>5. snap' \in [wifi : [Profiles -> {"gone", "saved", "active"}], radio : BOOLEAN]
    BY <1>1, <2>4 DEF HostTyped, LocalTyped
  <2>6. QED
    BY <1>1, <2>o, <2>1, <2>2, <2>3, <2>5, PartsStay DEF LocalTyped, ObservedTyped, SeenSame
<1>3. CASE Tool!DeleteProfile
  <2>1. UNCHANGED <<svc, radio, adapter, changed, snap, status, joined>> /\ SeenSame
    BY <1>3, Zenon DEF Tool!DeleteProfile, SeenSame
  <2>o. unreported' \subseteq Deletable
    BY <1>1, <1>3 DEF Tool!DeleteProfile, ObservedTyped, Deletable, Tool!Left
  <2>2. troubles' \in 0..MaxTroubles
    BY <1>1, <1>3, TroublesTyped DEF Tool!DeleteProfile
  <2>3. run' \in RunType
    <3>1. {"profiles", "undo wireless"} \subseteq Pcs
      BY DEF Pcs
    <3>2. QED
      BY <1>1, <1>3, <3>1, GoToTyped DEF Tool!DeleteProfile
  <2>4. /\ wifi' \in [Profiles -> {"gone", "saved", "active"}]
        /\ backups' \in Seq(Profiles) /\ ActionsTyped'
    <3>1. CASE /\ wifi' = wifi \/ \E p \in Profiles : wifi' = [wifi EXCEPT ![p] = "gone"]
               /\ UNCHANGED <<backups, actions>>
      BY <1>1, <3>1 DEF HostTyped, LocalTyped, ActionsTyped
    <3>2. CASE \E p \in Profiles : /\ wifi' = [wifi EXCEPT ![p] = "gone"]
                                   /\ backups' = Append(backups, p)
                                   /\ actions' = [actions EXCEPT ![p] = "done"]
      <4>1. PICK p \in Profiles : /\ wifi' = [wifi EXCEPT ![p] = "gone"]
                                  /\ backups' = Append(backups, p)
                                  /\ actions' = [actions EXCEPT ![p] = "done"]
        BY <3>2
      <4>2. wifi' \in [Profiles -> {"gone", "saved", "active"}]
        BY <1>1, <4>1 DEF HostTyped
      <4>3. backups' \in Seq(Profiles)
        BY <1>1, <4>1, AppendTyped DEF LocalTyped
      <4>4. ActionsTyped'
        BY <1>1, <4>1 DEF ActionsTyped
      <4>5. QED
        BY <4>2, <4>3, <4>4
    <3>3. QED
      BY <1>3, <3>1, <3>2, Zenon DEF Tool!DeleteProfile, Tool!Left
  <2>5. QED
    BY <1>1, <2>o, <2>1, <2>2, <2>3, <2>4, PartsStay DEF HostTyped, LocalTyped, ObservedTyped, SeenSame
<1>4. CASE Tool!RadioOff
  <2>1. UNCHANGED <<svc, adapter, Tool!local, status, joined>> /\ SeenSame
    BY <1>4, Zenon DEF Tool!RadioOff, SeenSame
  <2>o. unreported' \subseteq Deletable
    <3>1. unreported' = unreported \/ unreported' = unreported \cup {Radio}
      BY <1>4, Zenon DEF Tool!RadioOff
    <3>2. QED
      BY <1>1, <3>1 DEF ObservedTyped, Deletable
  <2>2. troubles' \in 0..MaxTroubles
    BY <1>1, <1>4, TroublesTyped DEF Tool!RadioOff
  <2>3. run' \in RunType
    <3>1. "check" \in Pcs /\ "undo wireless" \in Pcs
      BY DEF Pcs
    <3>2. CASE run' = [run EXCEPT !.pc = "check", !.radioOff = TRUE]
      BY <1>1, <3>1, <3>2 DEF RunType
    <3>3. QED
      BY <1>1, <1>4, <3>1, <3>2, GoToTyped DEF Tool!RadioOff
  <2>4. /\ wifi' \in [Profiles -> {"gone", "saved", "active"}]
        /\ radio' \in BOOLEAN /\ ActionsTyped'
    <3>1. CASE UNCHANGED <<wifi, radio, actions>>
      BY <1>1, <3>1 DEF HostTyped, ActionsTyped
    <3>2. CASE /\ radio' = FALSE /\ wifi' = Tool!Disconnected
               /\ actions' = [actions EXCEPT ![Radio] = "done"] \/ actions' = actions
      BY <1>1, <3>2 DEF HostTyped, ActionsTyped, Tool!Disconnected
    <3>3. QED
      BY <1>4, <3>1, <3>2, Zenon DEF Tool!RadioOff
  <2>5. QED
    BY <1>1, <2>o, <2>1, <2>2, <2>3, <2>4, PartsStay DEF HostTyped, ObservedTyped, SeenSame
<1>5. CASE Tool!UndoWireless
  <2>1. UNCHANGED <<svc, adapter, changed, snap, status, Tool!rest>>
    BY <1>5, Zenon DEF Tool!UndoWireless
  <2>2. troubles' \in 0..MaxTroubles
    BY <1>1, <1>5, TroublesTyped DEF Tool!UndoWireless
  <2>3. run' \in RunType
    <3>1. {"rolled back", "rollback failed"} \subseteq Errors
      BY DEF Errors
    <3>2. CASE run' = [run EXCEPT !.radioOff = FALSE]
      BY <1>1, <3>2 DEF RunType
    <3>3. run' = run \/ run' = [run EXCEPT !.radioOff = FALSE]
          \/ Tool!EndPass("rolled back") \/ Tool!EndPass("rollback failed")
      BY <1>5, Zenon DEF Tool!UndoWireless
    <3>4. QED
      BY <1>1, <3>1, <3>2, <3>3, EndPassTyped
  <2>4. ActionsTyped'
    BY <1>1, <1>5, PartsStay DEF Tool!UndoWireless
  <2>5. /\ wifi' \in [Profiles -> {"gone", "saved", "active"}] /\ radio' \in BOOLEAN
        /\ backups' \in Seq(Profiles)
    <3>1. wifi \in [Profiles -> {"gone", "saved", "active"}] /\ radio \in BOOLEAN
          /\ backups \in Seq(Profiles)
      BY <1>1 DEF HostTyped, LocalTyped
    <3>2. CASE /\ wifi' = [wifi EXCEPT ![backups[Len(backups)]] = "saved"] /\ radio' = radio
               /\ backups # <<>> /\ backups' = SubSeq(backups, 1, Len(backups) - 1)
      BY <3>1, <3>2, FrontTyped
    <3>3. CASE /\ wifi' = wifi \/ wifi' = [wifi EXCEPT ![backups[Len(backups)]] = "saved"]
               /\ UNCHANGED backups /\ radio' \in {radio, TRUE}
      BY <3>1, <3>3
    <3>4. QED
      BY <1>5, <3>2, <3>3 DEF Tool!UndoWireless
  <2>6. QED
    BY <1>1, <2>1, <2>2, <2>3, <2>4, <2>5, PartsStay DEF HostTyped, LocalTyped
<1>6. QED
  BY <1>2, <1>3, <1>4, <1>5

\* What others do, one kind of thing at a time.
ServiceByOthers(u) ==
    /\ \/ svc' = [svc EXCEPT ![u] = [active |-> "yes", enabled |-> "yes"]]
       \/ \E a \in {"no", "yes"} : svc' = [svc EXCEPT ![u].active = a]
    /\ touched' = touched \cup {u} /\ UNCHANGED <<wifi, radio, joined>>

LEMMA OthersDo ==
  ASSUME Tool!Other
  PROVE  \/ \E u \in Units : ServiceByOthers(u)
         \/ \E p \in Profiles : /\ wifi' = [wifi EXCEPT ![p] = "active"]
                                 /\ touched' = touched \cup {p} /\ joined' = joined \cup {p}
                                 /\ UNCHANGED <<svc, radio>>
         \/ radio' = TRUE /\ touched' = touched \cup {Radio} /\ UNCHANGED <<svc, wifi, joined>>
  BY Zenon DEF Tool!Other, ServiceByOthers

LEMMA OtherTyped ==
  ASSUME Tool!TypeOK, Tool!Other
  PROVE  Tool!TypeOK'
<1> USE ToolTypeParts DEF AllTyped
<1>1. AllTyped
  OBVIOUS
<1>2. UNCHANGED <<adapter, run, Tool!local, actions, status, troubles, before, unreported>>
  BY Zenon DEF Tool!Other
<1>3. others' \in 0..MaxOthers
  BY <1>1, OthersTyped DEF Tool!Other
<1>4. HostTyped' /\ touched' \subseteq Tool!Things /\ joined' \subseteq Profiles
  <2>1. ASSUME NEW u \in Units, ServiceByOthers(u)
        PROVE  HostTyped' /\ touched' \subseteq Tool!Things /\ joined' \subseteq Profiles
    <3>1. svc' \in [Units -> Tool!ServiceStates]
      <4>1. svc \in [Units -> Tool!ServiceStates]
        BY <1>1 DEF HostTyped
      <4>2. CASE svc' = [svc EXCEPT ![u] = [active |-> "yes", enabled |-> "yes"]]
        BY <4>1, <4>2, ServiceTyped, Zenon
      <4>3. CASE \E a \in {"no", "yes"} : svc' = [svc EXCEPT ![u].active = a]
        <5>1. PICK a \in {"no", "yes"} : svc' = [svc EXCEPT ![u].active = a]
          BY <4>3
        <5>2. QED
          BY <4>1, <5>1, ServiceTyped
      <4>4. QED
        BY <2>1, <4>2, <4>3, Zenon DEF ServiceByOthers
    <3>2. QED
      BY <1>1, <1>2, <2>1, <3>1 DEF HostTyped, ObservedTyped, Tool!Things, ServiceByOthers
  <2>2. CASE \E p \in Profiles : /\ wifi' = [wifi EXCEPT ![p] = "active"]
                                 /\ touched' = touched \cup {p} /\ joined' = joined \cup {p}
                                 /\ UNCHANGED <<svc, radio>>
    BY <1>1, <1>2, <2>2 DEF HostTyped, ObservedTyped, Tool!Things
  <2>3. CASE /\ radio' = TRUE /\ touched' = touched \cup {Radio}
             /\ UNCHANGED <<svc, wifi, joined>>
    BY <1>1, <1>2, <2>3 DEF HostTyped, ObservedTyped, Tool!Things
  <2>4. QED
    BY <2>1, <2>2, <2>3, OthersDo, Zenon
<1>5. QED
  BY <1>1, <1>2, <1>3, <1>4, PartsStay DEF HostTyped, ObservedTyped

LEMMA ToolStepKinds ==
  Tool!ToolNext <=> \/ QuietStep
                    \/ Tool!ReadService \/ Tool!DisableNow \/ Tool!UndoService
                    \/ Tool!Snapshot \/ Tool!DeleteProfile \/ Tool!RadioOff \/ Tool!UndoWireless
                    \/ Tool!Other
  BY Zenon DEF Tool!ToolNext, Tool!HostStep, QuietStep

LEMMA NextToolTyped ==
  Tool!TypeOK /\ RunInv /\ [Tool!ToolNext]_(Tool!toolVars) => Tool!TypeOK'
<1> SUFFICES ASSUME Tool!TypeOK, RunInv, [Tool!ToolNext]_(Tool!toolVars) PROVE Tool!TypeOK'
  OBVIOUS
<1>1. CASE UNCHANGED Tool!toolVars
  <2>1. UNCHANGED <<Tool!host, run, Tool!local, actions, status, troubles, Tool!rest>>
    BY <1>1 DEF Tool!toolVars
  <2>2. AllTyped
    BY ToolTypeParts
  <2>3. AllTyped'
    BY <2>1, <2>2, PartsStay DEF AllTyped
  <2>4. QED
    BY <2>3, ToolTypeParts
<1>2. QED
  BY <1>1, ToolStepKinds, QuietTyped, ServicesTyped, WirelessTyped, OtherTyped, Zenon

-----------------------------------------------------------------------------
(* The course of a run.                                                    *)

SameCall == run'.mode = run.mode /\ run'.full = run.full /\ run'.upload = run.upload
SameWork == run'.acts = run.acts /\ run'.next = run.next /\ run'.radioOff = run.radioOff

\* How one step changes the record of the run, field by field.
LEMMA GoToReads ==
  ASSUME run \in RunType, NEW pc, Tool!GoTo(pc)
  PROVE  /\ SameCall /\ SameWork /\ run'.pc = pc
         /\ run'.err = run.err /\ run'.exit = run.exit
  BY DEF RunType, Tool!GoTo, SameCall, SameWork

LEMMA NextServiceReads ==
  ASSUME run \in RunType, Tool!NextService
  PROVE  /\ SameCall /\ run'.acts = run.acts /\ run'.radioOff = run.radioOff
         /\ run'.next = run.next + 1 /\ run'.pc = "read"
         /\ run'.err = run.err /\ run'.exit = run.exit
  BY DEF RunType, Tool!NextService, SameCall

LEMMA ExitReads ==
  ASSUME run \in RunType, NEW code, Tool!ExitWith(code)
  PROVE  /\ SameCall /\ SameWork /\ run'.pc = "exited" /\ run'.exit = code
         /\ run'.err = run.err
  BY DEF RunType, Tool!ExitWith, SameCall, SameWork

LEMMA EndPassReads ==
  ASSUME run \in RunType, NEW err, Tool!EndPass(err)
  PROVE  /\ SameCall /\ run'.radioOff = run.radioOff /\ run'.exit = run.exit
         /\ \/ /\ err = "none" /\ ~run.acts /\ run.mode # "audit"
               /\ run'.acts /\ run'.next = 1 /\ run'.err = run.err
               /\ run'.pc = IF run.full THEN "firewall" ELSE "snapshot"
            \/ /\ ~(err = "none" /\ ~run.acts /\ run.mode # "audit")
               /\ run'.pc = "write" /\ run'.err = err
               /\ run'.acts = run.acts /\ run'.next = run.next
<1>1. CASE err = "none" /\ ~run.acts /\ run.mode # "audit"
  BY <1>1 DEF RunType, Tool!EndPass, Tool!First, SameCall
<1>2. CASE ~(err = "none" /\ ~run.acts /\ run.mode # "audit")
  <2>1. run' = [run EXCEPT !.err = err, !.pc = "write"]
    BY <1>2, Zenon DEF Tool!EndPass
  <2>2. QED
    BY <1>2, <2>1 DEF RunType, SameCall
<1>3. QED
  BY <1>1, <1>2

LEMMA StartReads ==
  ASSUME run \in RunType, Tool!Start
  PROVE  /\ run.pc = "idle" /\ SameWork
         /\ run'.mode = "repair" => run'.full
         /\ \/ /\ run'.pc = (IF run'.full THEN "firewall" ELSE "snapshot")
               /\ run'.err = run.err /\ run'.exit = run.exit
            \/ run'.pc = "write" /\ run'.err = "failed" /\ run'.exit = run.exit
            \/ run'.pc = "exited" /\ run'.exit = 2 /\ run'.err = run.err
<1>1. PICK mode \in {"audit", "repair", "clean"}, full \in BOOLEAN, upload \in BOOLEAN :
        /\ ~full => mode = "clean"
        /\ LET begun == [run EXCEPT !.mode = mode, !.full = full, !.upload = upload]
           IN  \/ run' = [begun EXCEPT !.pc = IF full THEN "firewall" ELSE "snapshot"]
               \/ run' = [begun EXCEPT !.err = "failed", !.pc = "write"]
               \/ run' = [begun EXCEPT !.exit = 2, !.pc = "exited"]
  BY ZenonT(90) DEF Tool!Start
<1>2. run.pc = "idle"
  BY DEF Tool!Start
<1>3. CASE run' = [[run EXCEPT !.mode = mode, !.full = full, !.upload = upload]
                     EXCEPT !.pc = IF full THEN "firewall" ELSE "snapshot"]
  BY <1>1, <1>2, <1>3 DEF RunType, SameWork
<1>4. CASE run' = [[run EXCEPT !.mode = mode, !.full = full, !.upload = upload]
                     EXCEPT !.err = "failed", !.pc = "write"]
  BY <1>1, <1>2, <1>4 DEF RunType, SameWork
<1>5. CASE run' = [[run EXCEPT !.mode = mode, !.full = full, !.upload = upload]
                     EXCEPT !.exit = 2, !.pc = "exited"]
  BY <1>1, <1>2, <1>5 DEF RunType, SameWork
<1>6. QED
  BY <1>1, <1>3, <1>4, <1>5


\* What ends a pass with err leaves a run that is in order.
LEMMA EndPassRun ==
  ASSUME run \in RunType, RunInv, run.pc \notin Ended, NEW err, Tool!EndPass(err)
  PROVE  RunInv'
<1>1. run.err = "none"
  BY DEF RunInv
<1>2. QED
  BY <1>1, EndPassReads DEF RunInv, SameCall, Ended, Stopping, Cleaning

\* So does going on elsewhere, unless a service is being stopped there.
LEMMA GoToRun ==
  ASSUME run \in RunType, RunInv, NEW pc, Tool!GoTo(pc),
         run.pc \in Ended => pc \in Ended,
         pc \in Cleaning \cup {"undo", "undo wireless"} => run.acts,
         pc \notin Stopping \cup {"idle", "firewall"}
  PROVE  RunInv'
  BY GoToReads DEF RunInv, SameCall, SameWork, Ended, Stopping, Cleaning

LEMMA NextRun ==
  Tool!TypeOK /\ RunInv /\ [Tool!ToolNext]_(Tool!toolVars) => RunInv'
<1> SUFFICES ASSUME Tool!TypeOK, RunInv, [Tool!ToolNext]_(Tool!toolVars) PROVE RunInv'
  OBVIOUS
<1> USE RunParts
<1>1. CASE UNCHANGED <<run, changed>>
  BY <1>1, Zenon DEF RunInv
<1>2. CASE Tool!Start
  BY <1>2, StartReads DEF RunInv, SameWork, Ended, Stopping, Cleaning
<1>3. CASE Tool!OtherComponent
  <2>1. CASE Tool!EndPass("failed") \/ Tool!EndPass("none")
    BY <1>3, <2>1, EndPassRun DEF Tool!OtherComponent, Ended
  <2>2. CASE Tool!GoTo("read") /\ run.pc = "firewall"
    BY <2>2, GoToRun DEF Ended, Cleaning, Stopping
  <2>3. QED
    BY <1>3, <2>1, <2>2, Zenon DEF Tool!OtherComponent
<1>4. CASE Tool!ServicesDone
  BY <1>4, GoToRun DEF Tool!ServicesDone, Ended, Cleaning, Stopping
<1>5. CASE Tool!ReadService
  <2>1. run.pc = "read" /\ run.next \in 1..Targets
    BY <1>5, ToolConstants DEF Tool!ReadService
  <2>2. CASE Tool!EndPass("failed")
    BY <2>1, <2>2, EndPassRun DEF Ended
  <2>3. CASE Tool!NextService
    BY <2>1, <2>3, NextServiceReads DEF RunInv, SameCall, Ended, Stopping, Cleaning
  <2>4. CASE /\ Tool!MustStop /\ Tool!GoTo("disable")
             /\ changed' = Append(changed, [unit |-> Tool!Unit, state |-> Tool!Told(svc[Tool!Unit])])
    <3>1. run.acts /\ UnitOf[run.next] \in Units
      BY <2>1, <2>4, ToolConstants DEF Tool!MustStop, Tool!Unit
    <3>2. changed' # <<>> /\ changed'[Len(changed')].unit = UnitOf[run.next]
      <4>1. changed \in Seq([unit : Units, state : ToldStates])
        BY ToolTypeParts DEF AllTyped, LocalTyped
      <4>2. PICK e : e = [unit |-> Tool!Unit, state |-> Tool!Told(svc[Tool!Unit])]
        OBVIOUS
      <4>3. changed' # <<>> /\ changed'[Len(changed')] = e
        BY <2>4, <4>1, <4>2
      <4>4. QED
        BY <4>2, <4>3 DEF Tool!Unit
    <3>3. /\ SameCall /\ SameWork /\ run'.pc = "disable" /\ run'.err = run.err
      BY <2>4, GoToReads
    <3>4. run'.next <= Targets /\ UnitOf[run'.next] = UnitOf[run.next]
      BY <2>1, <3>3 DEF SameWork
    <3>5. QED
      BY <2>1, <3>1, <3>2, <3>3, <3>4 DEF RunInv, SameCall, SameWork, Ended, Stopping, Cleaning
  <2>5. QED
    BY <1>5, <2>2, <2>3, <2>4, Zenon DEF Tool!ReadService
<1>6. CASE Tool!DisableNow
  <2>1. run.pc = "disable" /\ run.acts /\ changed' = changed
    BY <1>6 DEF Tool!DisableNow, RunInv, Stopping, Tool!local
  <2>2. CASE Tool!GoTo("undo")
    BY <2>1, <2>2, GoToRun DEF Ended, Cleaning, Stopping
  <2>3. CASE Tool!GoTo("recheck")
    <3>1. /\ SameCall /\ run'.acts = run.acts /\ run'.next = run.next
          /\ run'.pc = "recheck" /\ run'.err = run.err
      BY <2>3, GoToReads DEF SameWork
    <3>2. /\ run.next <= Targets /\ UnitOf[run.next] \in Units /\ changed # <<>>
          /\ changed[Len(changed)].unit = UnitOf[run.next]
      BY <2>1 DEF RunInv, Stopping
    <3>3. /\ run'.next <= Targets /\ UnitOf[run'.next] \in Units /\ changed' # <<>>
          /\ changed'[Len(changed')].unit = UnitOf[run'.next]
      BY <2>1, <3>1, <3>2, Zenon
    <3>4. run'.err = "none" /\ (run'.mode = "repair" => run'.full)
      BY <2>1, <3>1 DEF RunInv, SameCall, Ended
    <3>5. QED
      BY <2>1, <3>1, <3>3, <3>4 DEF RunInv, Ended, Stopping, Cleaning
  <2>4. QED
    BY <1>6, <2>2, <2>3, Zenon DEF Tool!DisableNow
<1>7. CASE Tool!RecheckService
  <2>1. run.pc = "recheck" /\ run.acts /\ run.next <= Targets
    BY <1>7 DEF Tool!RecheckService, RunInv, Stopping
  <2>2. CASE Tool!GoTo("undo")
    BY <2>1, <2>2, GoToRun DEF Ended, Cleaning, Stopping
  <2>3. CASE Tool!NextService
    BY <2>1, <2>3, NextServiceReads DEF RunInv, SameCall, Ended, Stopping, Cleaning
  <2>4. QED
    BY <1>7, <2>2, <2>3, Zenon DEF Tool!RecheckService
<1>8. CASE Tool!UndoService
  <2>1. run.pc = "undo"
    BY <1>8 DEF Tool!UndoService
  <2>2. CASE Tool!EndPass("rolled back") \/ Tool!EndPass("rollback failed")
    BY <2>1, <2>2, EndPassRun DEF Ended
  <2>3. CASE UNCHANGED run
    BY <2>1, <2>3 DEF RunInv, Ended, Stopping, Cleaning
  <2>4. QED
    BY <1>8, <2>2, <2>3, Zenon DEF Tool!UndoService
<1>9. CASE Tool!Snapshot
  <2>1. CASE Tool!GoTo("audits")
    BY <1>9, <2>1, GoToRun DEF Tool!Snapshot, Ended, Cleaning, Stopping
  <2>2. CASE Tool!GoTo("profiles") /\ run.acts
    BY <1>9, <2>2, GoToRun DEF Tool!Snapshot, Ended, Cleaning, Stopping
  <2>3. QED
    BY <1>9, <2>1, <2>2 DEF Tool!Snapshot
<1>10. CASE Tool!BackupProfile
  <2>1. run.pc = "profiles" /\ run.acts
    BY <1>10 DEF Tool!BackupProfile, RunInv, Cleaning
  <2>2. CASE Tool!EndPass("backup failed")
    BY <2>1, <2>2, EndPassRun DEF Ended
  <2>3. CASE Tool!GoTo("delete")
    BY <2>1, <2>3, GoToRun DEF Ended, Cleaning, Stopping
  <2>4. QED
    BY <1>10, <2>2, <2>3, Zenon DEF Tool!BackupProfile
<1>11. CASE Tool!DeleteProfile
  <2>1. run.pc = "delete" /\ run.acts
    BY <1>11 DEF Tool!DeleteProfile, RunInv, Cleaning
  <2>2. Tool!GoTo("profiles") \/ Tool!GoTo("undo wireless")
    BY <1>11, Zenon DEF Tool!DeleteProfile
  <2>3. QED
    BY <2>1, <2>2, GoToRun DEF Ended, Cleaning, Stopping
<1>12. CASE Tool!RadioOff
  <2>1. run.pc = "profiles" /\ run.acts
    BY <1>12 DEF Tool!RadioOff, RunInv, Cleaning
  <2>2. CASE Tool!GoTo("check") \/ Tool!GoTo("undo wireless")
    BY <2>1, <2>2, GoToRun DEF Ended, Cleaning, Stopping
  <2>3. CASE run' = [run EXCEPT !.pc = "check", !.radioOff = TRUE]
    BY <2>1, <2>3 DEF RunType, RunInv, Ended, Stopping, Cleaning
  <2>4. QED
    BY <1>12, <2>2, <2>3, Zenon DEF Tool!RadioOff
<1>13. CASE Tool!CheckWireless
  <2>1. run.pc = "check" /\ run.acts
    BY <1>13 DEF Tool!CheckWireless, RunInv, Cleaning
  <2>2. Tool!GoTo("audits") \/ Tool!GoTo("undo wireless")
    BY <1>13, Zenon DEF Tool!CheckWireless
  <2>3. QED
    BY <2>1, <2>2, GoToRun DEF Ended, Cleaning, Stopping
<1>14. CASE Tool!UndoWireless
  <2>1. run.pc = "undo wireless" /\ UNCHANGED changed
    BY <1>14 DEF Tool!UndoWireless
  <2>2. CASE Tool!EndPass("rolled back") \/ Tool!EndPass("rollback failed")
    BY <2>1, <2>2, EndPassRun DEF Ended
  <2>3. CASE run' = [run EXCEPT !.radioOff = FALSE]
    BY <2>1, <2>3 DEF RunType, RunInv, Ended, Stopping, Cleaning
  <2>4. QED
    BY <1>1, <1>14, <2>1, <2>2, <2>3, Zenon DEF Tool!UndoWireless
<1>15. CASE Tool!WriteReport \/ Tool!UploadFailed \/ Tool!Uploaded
  <2>1. run.pc \in Ended
    BY <1>15 DEF Tool!WriteReport, Tool!UploadFailed, Tool!Uploaded, Ended
  <2>2. CASE Tool!GoTo("upload")
    BY <2>1, <2>2, GoToRun DEF Ended, Cleaning, Stopping
  <2>3. CASE Tool!ExitWith(Tool!Verdict) \/ Tool!ExitWith(1) \/ Tool!ExitWith(3)
    BY <2>3, ExitReads DEF RunInv, SameCall, SameWork, Ended, Stopping, Cleaning
  <2>4. QED
    BY <1>15, <2>2, <2>3, Zenon DEF Tool!WriteReport, Tool!UploadFailed, Tool!Uploaded
<1>16. CASE Tool!Other
  BY <1>1, <1>16, Zenon DEF Tool!Other, Tool!local
<1>17. CASE UNCHANGED Tool!toolVars
  BY <1>1, <1>17, Zenon DEF Tool!toolVars, Tool!local
<1>18. QED
  BY <1>2, <1>3, <1>4, <1>5, <1>6, <1>7, <1>8, <1>9, <1>10, <1>11, <1>12, <1>13, <1>14,
     <1>15, <1>16, <1>17, Zenon DEF Tool!ToolNext, Tool!HostStep

LEMMA InitTool == BothInit => Tool!TypeOK /\ RunInv
<1> SUFFICES ASSUME Tool!Init PROVE Tool!TypeOK /\ RunInv
  BY DEF BothInit
<1>1. PICK pc \in {"idle", "exited"} :
        run = [pc |-> pc, mode |-> "audit", full |-> TRUE, upload |-> FALSE,
               acts |-> FALSE, next |-> 1, radioOff |-> FALSE, err |-> "none", exit |-> 0]
  BY Zenon DEF Tool!Init
<1>2. RunInv
  BY <1>1 DEF RunInv, Ended, Stopping, Cleaning
<1>3. run \in RunType
  <2>1. 1 \in 1..Targets + 1
    BY ToolConstants
  <2>2. pc \in Pcs /\ "none" \in Errors
    BY DEF Pcs, Errors
  <2>3. QED
    BY <1>1, <2>1, <2>2 DEF RunType
<1>4. HostTyped /\ StatusTyped /\ troubles \in 0..MaxTroubles /\ others \in 0..MaxOthers
  BY DEF Tool!Init, HostTyped, StatusTyped
<1>5. ActionsTyped
  BY DEF Tool!Init, ActionsTyped
<1>6. LocalTyped /\ ObservedTyped
  BY <1>4 DEF Tool!Init, LocalTyped, HostTyped, ObservedTyped
<1>7. QED
  BY <1>2, <1>3, <1>4, <1>5, <1>6, ToolTypeParts DEF AllTyped

(***************************************************************************)
(* Types, for any machine, list of services and number of reports.         *)
(***************************************************************************)
THEOREM BothAlwaysTyped == BothSpec => []BothTypeOK
<1>1. BothSpec => []TypeOK
  BY PartsImplemented, DirectoryTyped, PTL
<1>2. BothInit => Tool!TypeOK /\ RunInv
  BY InitTool
<1>3. (Tool!TypeOK /\ RunInv) /\ [BothNext]_<<vars, tool>> => (Tool!TypeOK /\ RunInv)'
  BY ToolSteps, NextToolTyped, NextRun
<1>4. TypeOK /\ Tool!TypeOK => BothTypeOK
  BY DEF BothTypeOK
<1>5. QED
  BY <1>1, <1>2, <1>3, <1>4, PTL DEF BothSpec

-----------------------------------------------------------------------------
(* Services, as systemctl tells them: those that were changed are off,      *)
(* listed and reported as "done"; while one is looked at again, or all are *)
(* brought back, nothing is on that was not.                               *)

Is(u) == Tool!Told(svc[u])
Was(u) == Tool!Told(before.svc[u])
InList(u) == \E i \in 1..Len(changed) : changed[i].unit = u
ListTrue ==
    \A i \in 1..Len(changed) : changed[i].unit \notin touched =>
        /\ changed[i].state = Was(changed[i].unit)
        /\ changed[i].state # Tool!Off
Pending(u) == run.pc = "undo" \/ (run.pc = "recheck" /\ u = Tool!Unit)
ServiceTrue(u) ==
    IF Pending(u)
    THEN /\ Is(u) = Was(u) \/ (InList(u) /\ Below(Is(u), Was(u)))
         /\ run.pc = "recheck" => actions[u] = "done"
    ELSE /\ Is(u) # Was(u) <=> actions[u] = "done"
         /\ actions[u] = "done" => Is(u) = Tool!Off
         /\ actions[u] = "done" /\ run.pc \notin Ended => InList(u)
ServiceInv == ListTrue /\ \A u \in Units \ touched : ServiceTrue(u)

LEMMA ServiceParts ==
  ASSUME Tool!TypeOK
  PROVE  /\ svc \in [Units -> Tool!ServiceStates] /\ before.svc \in [Units -> Tool!ServiceStates]
         /\ \A u \in Units : Is(u) \in ToldStates /\ Was(u) \in ToldStates
         /\ changed \in Seq([unit : Units, state : ToldStates])
         /\ actions \in [Tool!Things -> {"none", "done", "rolled back"}]
         /\ Units \subseteq Tool!Things
<1>1. /\ svc \in [Units -> Tool!ServiceStates] /\ before.svc \in [Units -> Tool!ServiceStates]
      /\ changed \in Seq([unit : Units, state : ToldStates])
      /\ actions \in [Tool!Things -> {"none", "done", "rolled back"}]
      /\ Units \subseteq Tool!Things
  BY ToolTypeParts DEF AllTyped, HostTyped, LocalTyped, ActionsTyped, ObservedTyped, Tool!Things
<1>2. QED
  BY <1>1, ToldTyped DEF Is, Was

LEMMA LengthTyped ==
  ASSUME NEW S, NEW s \in Seq(S)
  PROVE  Len(s) \in Nat
  OBVIOUS

LEMMA AppendReads ==
  ASSUME NEW S, NEW s \in Seq(S), NEW e
  PROVE  /\ Len(Append(s, e)) = Len(s) + 1 /\ Append(s, e)[Len(s) + 1] = e
         /\ \A i \in 1..Len(s) : Append(s, e)[i] = s[i]
  OBVIOUS

LEMMA BelowFacts ==
  ASSUME NEW s \in ToldStates, NEW t \in ToldStates, NEW w \in ToldStates
  PROVE  /\ Below(s, s) /\ Below(Tool!Off, s)
         /\ Below(s, t) /\ Below(t, w) => Below(s, w)
         /\ Below(s, Tool!Off) => s = Tool!Off
         /\ Below(s, t) => Joint(s, t) = t
<1>1. /\ s.active \in BOOLEAN /\ s.enabled \in BOOLEAN /\ t.active \in BOOLEAN
      /\ t.enabled \in BOOLEAN /\ w.active \in BOOLEAN /\ w.enabled \in BOOLEAN
      /\ Tool!Off.active = FALSE /\ Tool!Off.enabled = FALSE
      /\ t = [active |-> t.active, enabled |-> t.enabled]
      /\ s = [active |-> s.active, enabled |-> s.enabled]
  BY DEF ToldStates, Tool!Off
<1>2. Below(s, s) /\ Below(Tool!Off, s) /\ (Below(s, t) /\ Below(t, w) => Below(s, w))
  BY <1>1, Zenon DEF Below
<1>3. Below(s, Tool!Off) => s = Tool!Off
  <2>1. Below(s, Tool!Off) => s.active = FALSE /\ s.enabled = FALSE
    BY <1>1, Zenon DEF Below
  <2>2. QED
    BY <1>1, <2>1, Zenon DEF Tool!Off
<1>4. Below(s, t) => Joint(s, t) = t
  <2>1. Below(s, t) => (s.active \/ t.active) = t.active /\ (s.enabled \/ t.enabled) = t.enabled
    BY <1>1, Zenon DEF Below
  <2>2. QED
    BY <1>1, <2>1, Zenon DEF Joint
<1>5. QED
  BY <1>2, <1>3, <1>4

Waiting == {"undo", "recheck"}

\* A step that leaves the services, and what is said of them, alone.
LEMMA ServiceQuiet ==
  ASSUME ServiceInv, UNCHANGED <<svc, changed, before, touched>>,
         \A u \in Units : actions'[u] = actions[u],
         run.pc \notin Waiting, run'.pc \notin Waiting, run.pc \in Ended => run'.pc \in Ended
  PROVE  ServiceInv'
<1>1. ListTrue'
  BY Zenon DEF ServiceInv, ListTrue, Was
<1>2. ASSUME NEW u \in Units \ touched PROVE ServiceTrue(u)'
  <2>1. InList(u)' <=> InList(u)
    BY Zenon DEF InList
  <2>2. ServiceTrue(u)
    BY DEF ServiceInv
  <2>3. actions'[u] = actions[u] /\ Is(u)' = Is(u) /\ Was(u)' = Was(u)
    BY DEF Is, Was
  <2>4. ~Pending(u) /\ ~Pending(u)'
    BY DEF Pending, Waiting
  <2>5. QED
    BY <2>1, <2>2, <2>3, <2>4, Zenon DEF ServiceTrue
<1>3. QED
  BY <1>1, <1>2, Zenon DEF ServiceInv

\* The steps that are quiet in this sense.
LEMMA QuietGoes ==
  ASSUME Tool!TypeOK, RunInv, QuietStep
  PROVE  /\ run.pc # "undo" /\ run.pc # "undo wireless"
         /\ run.pc \in Ended => run'.pc \in Ended
         /\ run'.pc = "undo" => run.pc = "recheck"
         /\ run'.pc # "recheck" /\ (run.pc = "recheck" => Tool!RecheckService)
         /\ run'.pc = "undo wireless" => run.pc = "check"
         /\ run'.radioOff = run.radioOff
<1> USE RunParts
<1>1. CASE Tool!Start
  <2>1. /\ run.pc = "idle" /\ run'.pc \notin {"undo", "undo wireless", "recheck"}
        /\ run'.radioOff = run.radioOff
    BY <1>1, StartReads DEF SameWork
  <2>2. QED
    BY <2>1 DEF Ended
<1>2. ASSUME NEW pc, Tool!GoTo(pc) PROVE run'.pc = pc /\ run'.radioOff = run.radioOff
  BY <1>2, GoToReads DEF SameWork
<1>3. ASSUME NEW err, Tool!EndPass(err)
      PROVE  run'.pc \in {"firewall", "snapshot", "write"} /\ run'.radioOff = run.radioOff
  BY <1>3, EndPassReads
<1>4. CASE Tool!OtherComponent
  <2>1. Tool!GoTo("read") \/ Tool!EndPass("failed") \/ Tool!EndPass("none")
    BY <1>4, Zenon DEF Tool!OtherComponent
  <2>2. run.pc \in {"firewall", "audits"}
    BY <1>4 DEF Tool!OtherComponent
  <2>3. run'.pc \in {"read", "firewall", "snapshot", "write"} /\ run'.radioOff = run.radioOff
    BY <1>2, <1>3, <2>1
  <2>4. QED
    BY <2>2, <2>3 DEF Ended
<1>5. CASE Tool!ServicesDone \/ Tool!CheckWireless
  <2>1. \/ run.pc = "read" /\ Tool!GoTo("snapshot")
        \/ run.pc = "check" /\ (Tool!GoTo("audits") \/ Tool!GoTo("undo wireless"))
    BY <1>5, Zenon DEF Tool!ServicesDone, Tool!CheckWireless
  <2>2. /\ \/ run.pc = "read" /\ run'.pc = "snapshot"
           \/ run.pc = "check" /\ run'.pc \in {"audits", "undo wireless"}
        /\ run'.radioOff = run.radioOff
    BY <1>2, <2>1
  <2>3. QED
    BY <2>2 DEF Ended
<1>6. CASE Tool!RecheckService
  <2>1. run.pc = "recheck" /\ (Tool!GoTo("undo") \/ Tool!NextService)
    BY <1>6, Zenon DEF Tool!RecheckService
  <2>2. Tool!NextService => run'.pc = "read" /\ run'.radioOff = run.radioOff
    BY NextServiceReads
  <2>3. run.pc = "recheck" /\ run'.pc \in {"undo", "read"} /\ run'.radioOff = run.radioOff
    BY <1>2, <2>1, <2>2
  <2>4. QED
    BY <1>6, <2>3 DEF Ended
<1>7. CASE Tool!BackupProfile
  <2>1. run.pc = "profiles" /\ (Tool!GoTo("delete") \/ Tool!EndPass("backup failed"))
    BY <1>7, Zenon DEF Tool!BackupProfile
  <2>2. run'.pc \in {"delete", "firewall", "snapshot", "write"} /\ run'.radioOff = run.radioOff
    BY <1>2, <1>3, <2>1
  <2>3. QED
    BY <2>1, <2>2 DEF Ended
<1>8. CASE Tool!WriteReport \/ Tool!UploadFailed \/ Tool!Uploaded
  <2>1. run.pc \in {"write", "upload"}
    BY <1>8 DEF Tool!WriteReport, Tool!UploadFailed, Tool!Uploaded
  <2>2. Tool!GoTo("upload") \/ \E code : Tool!ExitWith(code)
    BY <1>8, Zenon DEF Tool!WriteReport, Tool!UploadFailed, Tool!Uploaded
  <2>3. ASSUME NEW code, Tool!ExitWith(code)
        PROVE  run'.pc = "exited" /\ run'.radioOff = run.radioOff
    BY <2>3, ExitReads DEF SameWork
  <2>4. run'.pc \in {"upload", "exited"} /\ run'.radioOff = run.radioOff
    BY <1>2, <2>2, <2>3
  <2>5. QED
    BY <2>1, <2>4 DEF Ended
<1>9. QED
  BY <1>1, <1>4, <1>5, <1>6, <1>7, <1>8, Zenon DEF QuietStep

\* The services before they are brought back: none is on that was not.
LEMMA ServicesBelow ==
  ASSUME Tool!TypeOK, ServiceInv, run.pc \in Stopping, NEW u \in Units \ touched
  PROVE  Below(Is(u), Was(u)) /\ (Is(u) = Was(u) \/ InList(u))
<1>1. ServiceTrue(u) /\ run.pc \notin Ended
  BY DEF ServiceInv, Stopping, Ended
<1>2. /\ Is(u) = Was(u) \/ Is(u) = Tool!Off \/ Below(Is(u), Was(u))
      /\ Is(u) = Was(u) \/ InList(u)
  BY <1>1, Zenon DEF ServiceTrue
<1>3. Is(u) \in ToldStates /\ Was(u) \in ToldStates
  BY ServiceParts
<1>4. QED
  BY <1>2, <1>3, BelowFacts

\* A service that could not be switched off, would not stay off, or could not be
\* asked: back to what was.
LEMMA ServiceToUndo ==
  ASSUME Tool!TypeOK, ServiceInv, run.pc \in Stopping, run'.pc = "undo",
         UNCHANGED <<changed, before, touched>>,
         NEW unit \in Units, InList(unit), NEW s \in Tool!ServiceStates,
         svc' = [svc EXCEPT ![unit] = s], Below(Tool!Told(s), Is(unit))
  PROVE  ServiceInv'
<1>1. ListTrue'
  BY Zenon DEF ServiceInv, ListTrue, Was
<1>2. ASSUME NEW u \in Units \ touched PROVE ServiceTrue(u)'
  <2>1. (InList(u)' <=> InList(u)) /\ Was(u)' = Was(u)
    BY Zenon DEF InList, Was
  <2>2. Below(Is(u), Was(u)) /\ (Is(u) = Was(u) \/ InList(u))
    BY ServicesBelow
  <2>3. Is(u) \in ToldStates /\ Was(u) \in ToldStates /\ Tool!Told(s) \in ToldStates
    BY ServiceParts, ToldTyped
  <2>4. Is(u)' = Is(u) \/ (u = unit /\ Is(u)' = Tool!Told(s))
    <3>1. svc'[u] = svc[u] \/ (u = unit /\ svc'[u] = s)
      BY ServiceParts
    <3>2. QED
      BY <3>1 DEF Is
  <2>5. Below(Is(u)', Was(u))
    BY <2>2, <2>3, <2>4, BelowFacts
  <2>6. Is(u)' = Was(u) \/ InList(u)
    BY <2>2, <2>4
  <2>7. Pending(u)' /\ run'.pc # "recheck"
    BY DEF Pending
  <2>8. QED
    BY <2>1, <2>5, <2>6, <2>7, Zenon DEF ServiceTrue
<1>3. QED
  BY <1>1, <1>2, Zenon DEF ServiceInv

LEMMA ReadTrue ==
  ASSUME Tool!TypeOK, RunInv, ServiceInv, Tool!ReadService
  PROVE  ServiceInv'
<1> USE RunParts
<1>1. run.pc = "read" /\ UNCHANGED <<svc, before, touched, actions>>
  BY DEF Tool!ReadService, Tool!host, Tool!rest
<1>2. CASE UNCHANGED changed /\ (Tool!EndPass("failed") \/ Tool!NextService)
  <2>1. run'.pc \notin Waiting
    BY <1>2, EndPassReads, NextServiceReads DEF Waiting
  <2>2. QED
    BY <1>1, <1>2, <2>1, ServiceQuiet DEF Ended, Waiting
<1>3. CASE /\ Tool!MustStop /\ Tool!GoTo("disable")
           /\ changed' = Append(changed, [unit |-> Tool!Unit, state |-> Tool!Told(svc[Tool!Unit])])
  <2>1. run'.pc = "disable"
    BY <1>3, GoToReads
  <2>2. PICK unit : unit = Tool!Unit
    OBVIOUS
  <2>3. unit \in Units /\ Is(unit) # Tool!Off
    BY <1>3, <2>2, ToolConstants DEF Tool!MustStop, Tool!Unit, RunType, Tool!ReadService, Is
  <2>4. PICK e : e = [unit |-> unit, state |-> Is(unit)]
    OBVIOUS
  <2>5. /\ Len(changed') = Len(changed) + 1 /\ changed'[Len(changed) + 1] = e
        /\ \A i \in 1..Len(changed) : changed'[i] = changed[i]
    <3>1. changed \in Seq([unit : Units, state : ToldStates]) /\ changed' = Append(changed, e)
      BY <1>3, <2>2, <2>4, ServiceParts DEF Is
    <3>2. QED
      BY <3>1, AppendReads
  <2>6. unit \notin touched => Is(unit) = Was(unit)
    <3>1. unit \notin touched => ServiceTrue(unit) /\ ~Pending(unit)
      BY <1>1, <2>3 DEF ServiceInv, Pending
    <3>2. QED
      BY <2>3, <3>1 DEF ServiceTrue
  <2>7. \A i \in 1..Len(changed') : i \in 1..Len(changed) \/ i = Len(changed) + 1
    <3>1. Len(changed) \in Nat
      BY ServiceParts, LengthTyped
    <3>2. QED
      BY <2>5, <3>1
  <2>8. ListTrue'
    <3>1. SUFFICES ASSUME NEW i \in 1..Len(changed'), changed'[i].unit \notin touched
                   PROVE  /\ changed'[i].state = Was(changed'[i].unit)
                          /\ changed'[i].state # Tool!Off
      BY <1>1, Zenon DEF ListTrue, Was
    <3>2. CASE i \in 1..Len(changed)
      BY <2>5, <3>1, <3>2 DEF ServiceInv, ListTrue
    <3>3. CASE i = Len(changed) + 1
      <4>1. changed'[i] = e /\ e.unit = unit /\ e.state = Is(unit)
        BY <2>4, <2>5, <3>3
      <4>2. QED
        BY <2>3, <2>6, <3>1, <4>1
    <3>4. QED
      BY <2>7, <3>2, <3>3
  <2>9. ASSUME NEW u \in Units \ touched PROVE ServiceTrue(u)'
    <3>1. InList(u) => InList(u)'
      <4>1. Len(changed) \in Nat
        BY ServiceParts, LengthTyped
      <4>2. 1..Len(changed) \subseteq 1..Len(changed')
        BY <2>5, <4>1
      <4>3. QED
        BY <2>5, <4>2 DEF InList
    <3>2. ServiceTrue(u)
      BY DEF ServiceInv
    <3>3. run.pc \notin Ended
      BY <1>1 DEF Ended
    <3>4. ~Pending(u) /\ ~Pending(u)'
      BY <1>1, <2>1 DEF Pending
    <3>5. Is(u)' = Is(u) /\ Was(u)' = Was(u)
      BY <1>1 DEF Is, Was
    <3>6. QED
      BY <1>1, <3>1, <3>2, <3>3, <3>4, <3>5, Zenon DEF ServiceTrue
  <2>10. QED
    BY <1>1, <2>8, <2>9, Zenon DEF ServiceInv
<1>4. QED
  BY <1>2, <1>3, Zenon DEF Tool!ReadService

LEMMA StoppedIsListed ==
  ASSUME Tool!TypeOK, RunInv, ServiceInv, run.pc \in Stopping
  PROVE  /\ InList(Tool!Unit) /\ Tool!Unit \in Units
         /\ Tool!Unit \notin touched => Was(Tool!Unit) # Tool!Off
<1>1. /\ UnitOf[run.next] \in Units /\ changed # <<>>
      /\ changed[Len(changed)].unit = UnitOf[run.next]
  BY DEF RunInv
<1>2. Len(changed) \in 1..Len(changed)
  <2>1. Len(changed) \in Nat \ {0}
    BY <1>1, ServiceParts, FrontTyped, Zenon
  <2>2. QED
    BY <2>1
<1>3. QED
  BY <1>1, <1>2 DEF InList, Tool!Unit, ServiceInv, ListTrue

LEMMA DisableTrue ==
  ASSUME Tool!TypeOK, RunInv, ServiceInv, Tool!DisableNow
  PROVE  ServiceInv'
<1> USE RunParts
<1>1. run.pc = "disable" /\ UNCHANGED <<changed, before, touched>>
  BY DEF Tool!DisableNow, Tool!local, Tool!rest
<1>2. PICK unit : unit = Tool!Unit
  OBVIOUS
<1>3. InList(unit) /\ unit \in Units
  BY <1>1, <1>2, StoppedIsListed DEF Stopping
<1>4. PICK s \in Tool!ServiceStates :
        svc' = [svc EXCEPT ![unit] = s] /\ Below(Tool!Told(s), Is(unit))
  <2>1. svc \in [Units -> Tool!ServiceStates]
    BY ServiceParts
  <2>2. QED
    BY <1>2, <1>3, <2>1, DisableReads DEF Is
<1>5. CASE Tool!GoTo("undo")
  <2>1. run'.pc = "undo"
    BY <1>5, GoToReads
  <2>2. QED
    BY <1>1, <1>3, <1>4, <2>1, ServiceToUndo DEF Stopping
<1>6. CASE Tool!GoTo("recheck") /\ actions' = [actions EXCEPT ![unit] = "done"]
  <2>1. run'.pc = "recheck" /\ Tool!Unit' = unit
    BY <1>2, <1>6, GoToReads DEF SameWork, Tool!Unit
  <2>2. ListTrue'
    BY <1>1, Zenon DEF ServiceInv, ListTrue, Was
  <2>3. ASSUME NEW u \in Units \ touched PROVE ServiceTrue(u)'
    <3>1. (InList(u)' <=> InList(u)) /\ Was(u)' = Was(u)
      BY <1>1, Zenon DEF InList, Was
    <3>2. CASE u = unit
      <4>1. Is(u)' = Tool!Told(s) /\ actions'[u] = "done" /\ InList(u)
        BY <1>3, <1>4, <1>6, <3>2, ServiceParts DEF Is
      <4>2. Below(Is(u), Was(u))
        BY <1>1, ServicesBelow DEF Stopping
      <4>3. Below(Tool!Told(s), Was(u))
        BY <1>4, <3>2, <4>2, ServiceParts, ToldTyped, BelowFacts
      <4>4. Pending(u)'
        BY <2>1, <3>2 DEF Pending
      <4>5. QED
        BY <3>1, <4>1, <4>3, <4>4, Zenon DEF ServiceTrue
    <3>3. CASE u # unit
      <4>1. Is(u)' = Is(u) /\ actions'[u] = actions[u]
        BY <1>3, <1>4, <1>6, <3>3, ServiceParts DEF Is
      <4>2. ServiceTrue(u) /\ ~Pending(u) /\ ~Pending(u)' /\ run.pc \notin Ended
        BY <1>1, <2>1, <3>3 DEF ServiceInv, Pending, Ended
      <4>3. QED
        BY <3>1, <4>1, <4>2, Zenon DEF ServiceTrue
    <3>4. QED
      BY <3>2, <3>3
  <2>4. QED
    BY <1>1, <2>2, <2>3, Zenon DEF ServiceInv
<1>7. QED
  BY <1>2, <1>5, <1>6, Zenon DEF Tool!DisableNow

\* A service that was looked at again is off, or all are brought back.
LEMMA RecheckTrue ==
  ASSUME Tool!TypeOK, RunInv, ServiceInv, Tool!RecheckService
  PROVE  ServiceInv'
<1> USE RunParts
<1>1. run.pc = "recheck" /\ UNCHANGED <<svc, changed, actions, before, touched>>
  BY DEF Tool!RecheckService, Tool!host, Tool!local, Tool!rest
<1>2. PICK unit : unit = Tool!Unit
  OBVIOUS
<1>3. InList(unit) /\ unit \in Units /\ (unit \notin touched => Was(unit) # Tool!Off)
  BY <1>1, <1>2, StoppedIsListed DEF Stopping
<1>4. CASE Tool!GoTo("undo")
  <2>1. run'.pc = "undo"
    BY <1>4, GoToReads
  <2>2. PICK s \in Tool!ServiceStates : s = svc[unit]
    BY <1>3, ServiceParts
  <2>3. svc' = [svc EXCEPT ![unit] = s] /\ Below(Tool!Told(s), Is(unit))
    BY <1>1, <1>3, <2>2, ServiceParts, BelowFacts DEF Is
  <2>4. QED
    BY <1>1, <1>3, <2>1, <2>3, ServiceToUndo DEF Stopping
<1>5. CASE Is(unit) = Tool!Off /\ Tool!NextService
  <2>1. run'.pc = "read"
    BY <1>5, NextServiceReads
  <2>2. ListTrue'
    BY <1>1, Zenon DEF ServiceInv, ListTrue, Was
  <2>3. ASSUME NEW u \in Units \ touched PROVE ServiceTrue(u)'
    <3>1. (InList(u)' <=> InList(u)) /\ Was(u)' = Was(u) /\ Is(u)' = Is(u)
      BY <1>1, Zenon DEF InList, Was, Is
    <3>2. ServiceTrue(u) /\ ~Pending(u)' /\ run.pc \notin Ended /\ (Pending(u) => u = unit)
      BY <1>1, <1>2, <2>1 DEF ServiceInv, Pending, Ended
    <3>3. CASE Pending(u)
      BY <1>1, <1>3, <1>5, <3>1, <3>2, <3>3, Zenon DEF ServiceTrue
    <3>4. CASE ~Pending(u)
      BY <1>1, <3>1, <3>2, <3>4, Zenon DEF ServiceTrue
    <3>5. QED
      BY <3>3, <3>4
  <2>4. QED
    BY <1>1, <2>2, <2>3, Zenon DEF ServiceInv
<1>6. QED
  BY <1>2, <1>4, <1>5, Zenon DEF Tool!RecheckService, Is

LEMMA NothingListed == \A i \in 1..Len(<<>>) : FALSE
  BY SMT

LEMMA UndoTrue ==
  ASSUME Tool!TypeOK, RunInv, ServiceInv, Tool!UndoService, run'.err # "rollback failed"
  PROVE  ServiceInv'
<1> USE RunParts
<1>1. run.pc = "undo" /\ UNCHANGED <<before, touched>>
  BY DEF Tool!UndoService, Tool!rest
<1>2. CASE /\ changed = <<>> /\ Tool!EndPass("rolled back") /\ UNCHANGED <<svc, changed>>
           /\ Tool!MarkRolledBack(Units)
  <2>1. run'.pc \in {"firewall", "snapshot", "write"}
    BY <1>2, EndPassReads
  <2>2. ListTrue'
    BY <1>1, <1>2, Zenon DEF ServiceInv, ListTrue, Was
  <2>3. ASSUME NEW u \in Units \ touched PROVE ServiceTrue(u)'
    <3>1. ~InList(u)
      BY <1>2, NothingListed, Zenon DEF InList
    <3>2. Is(u)' = Was(u)'
      <4>1. Is(u) = Was(u)
        BY <1>1, <3>1, Zenon DEF ServiceInv, ServiceTrue, Pending
      <4>2. QED
        BY <1>1, <1>2, <4>1 DEF Is, Was
    <3>3. actions'[u] # "done"
      BY <1>2, ServiceParts DEF Tool!MarkRolledBack
    <3>4. ~Pending(u)'
      BY <2>1 DEF Pending
    <3>5. QED
      BY <3>2, <3>3, <3>4, Zenon DEF ServiceTrue
  <2>4. QED
    BY <1>1, <2>2, <2>3, Zenon DEF ServiceInv
<1>3. CASE Tool!EndPass("rollback failed")
  <2>1. run'.err = "rollback failed"
    BY <1>3, EndPassReads
  <2>2. QED
    BY <2>1
<1>4. CASE /\ changed # <<>> /\ UNCHANGED run
           /\ LET last == changed[Len(changed)]
              IN  svc' = [svc EXCEPT ![last.unit] = Started(Enabled(@, last.state), last.state)]
           /\ changed' = SubSeq(changed, 1, Len(changed) - 1)
  <2>1. PICK last : last = changed[Len(changed)]
    OBVIOUS
  <2>2. /\ changed \in Seq([unit : Units, state : ToldStates])
        /\ svc \in [Units -> Tool!ServiceStates] /\ before.svc \in [Units -> Tool!ServiceStates]
    BY ServiceParts
  <2>3. /\ last \in [unit : Units, state : ToldStates]
        /\ Len(changed') = Len(changed) - 1
        /\ \A i \in 1..Len(changed) - 1 : changed'[i] = changed[i]
        /\ Len(changed) \in 1..Len(changed)
        /\ \A i \in 1..Len(changed) : i = Len(changed) \/ i \in 1..Len(changed) - 1
        /\ \A i \in 1..Len(changed) - 1 : i \in 1..Len(changed)
    BY <1>4, <2>1, <2>2, FrontTyped
  <2>4. \A i \in 1..Len(changed') : i \in 1..Len(changed) /\ changed'[i] = changed[i]
    BY <2>3, Zenon
  <2>5. Len(changed) \in 1..Len(changed)
    BY <2>3, Zenon
  <2>6. \A i \in 1..Len(changed) : i = Len(changed) \/ i \in 1..Len(changed')
    BY <2>3, Zenon
  <2>7. last.unit \notin touched => last.state = Was(last.unit)
    BY <2>1, <2>5 DEF ServiceInv, ListTrue
  <2>8. ListTrue'
    BY <1>1, <2>4, Zenon DEF ServiceInv, ListTrue, Was
  <2>9. ASSUME NEW u \in Units \ touched PROVE ServiceTrue(u)'
    <3>1. Is(u) = Was(u) \/ (InList(u) /\ Below(Is(u), Was(u)))
      BY <1>1, Zenon DEF ServiceInv, ServiceTrue, Pending
    <3>2. Pending(u)' /\ run'.pc # "recheck" /\ Was(u)' = Was(u)
      BY <1>1, <1>4 DEF Pending, Was
    <3>3. Is(u) \in ToldStates /\ Was(u) \in ToldStates /\ svc[u] \in Tool!ServiceStates
      BY <2>2, ServiceParts
    <3>4. Below(Is(u), Was(u))
      BY <3>1, <3>3, BelowFacts
    <3>5. CASE u = last.unit
      <4>1. svc'[u] = Started(Enabled(svc[u], Was(u)), Was(u))
        BY <1>4, <2>1, <2>2, <2>7, <3>5
      <4>2. Is(u)' = Joint(Is(u), Was(u))
        BY <3>3, <4>1, RestoreReads DEF Is
      <4>3. Is(u)' = Was(u)
        BY <3>3, <3>4, <4>2, BelowFacts
      <4>4. QED
        BY <3>2, <4>3, Zenon DEF ServiceTrue
    <3>6. CASE u # last.unit
      <4>1. Is(u)' = Is(u)
        BY <1>4, <2>1, <2>2, <3>6 DEF Is
      <4>2. InList(u) => InList(u)'
        BY <2>1, <2>4, <2>6, <3>6 DEF InList
      <4>3. QED
        BY <3>1, <3>2, <4>1, <4>2, Zenon DEF ServiceTrue
    <3>7. QED
      BY <3>5, <3>6
  <2>10. QED
    BY <1>1, <2>8, <2>9, Zenon DEF ServiceInv
<1>5. QED
  BY <1>2, <1>3, <1>4 DEF Tool!UndoService, Started, Enabled

\* What others do concerns services that are touched from then on.
LEMMA OthersOnServices ==
  ASSUME Tool!TypeOK, Tool!Other
  PROVE  /\ touched \subseteq touched'
         /\ \A u \in Units \ touched' : svc'[u] = svc[u]
<1>1. ASSUME NEW u \in Units, ServiceByOthers(u)
      PROVE  touched' = touched \cup {u} /\ \A v \in Units \ {u} : svc'[v] = svc[v]
  BY <1>1, ServiceParts DEF ServiceByOthers
<1>2. (\E u \in Units : ServiceByOthers(u)) \/ \E x : touched' = touched \cup {x} /\ UNCHANGED svc
  BY OthersDo, Zenon
<1>3. QED
  BY <1>1, <1>2

LEMMA ServicesOfOthers ==
  ASSUME Tool!TypeOK, ServiceInv, Tool!Other
  PROVE  ServiceInv'
<1>1. UNCHANGED <<run, changed, actions, before>>
  BY Zenon DEF Tool!Other, Tool!local
<1>2. /\ touched \subseteq touched'
      /\ \A u \in Units \ touched' : svc'[u] = svc[u]
  BY OthersOnServices
<1>3. ListTrue'
  BY <1>1, <1>2 DEF ServiceInv, ListTrue, Was
<1>4. ASSUME NEW u \in Units \ touched' PROVE ServiceTrue(u)'
  <2>1. ServiceTrue(u) /\ svc'[u] = svc[u]
    BY <1>2, <1>4 DEF ServiceInv
  <2>2. InList(u)' <=> InList(u)
    BY <1>1, Zenon DEF InList
  <2>3. QED
    BY <1>1, <2>1, <2>2, Zenon DEF ServiceTrue, Pending, Tool!Unit, Is, Was
<1>5. QED
  BY <1>3, <1>4, Zenon DEF ServiceInv

\* What is done to wireless is nothing that is done to services.
LEMMA WirelessGoes ==
  ASSUME Tool!TypeOK, RunInv,
         Tool!Snapshot \/ Tool!DeleteProfile \/ Tool!RadioOff \/ Tool!UndoWireless
  PROVE  /\ UNCHANGED <<svc, changed, before, touched>>
         /\ \A u \in Units : actions'[u] = actions[u]
         /\ run.pc \notin Ended \cup Waiting /\ run'.pc \notin Waiting
<1> USE RunParts
<1>1. ASSUME NEW pc, Tool!GoTo(pc) PROVE run'.pc = pc
  BY <1>1, GoToReads
<1>2. CASE Tool!Snapshot
  <2>1. Tool!GoTo("audits") \/ Tool!GoTo("profiles")
    BY <1>2 DEF Tool!Snapshot
  <2>2. run.pc = "snapshot" /\ UNCHANGED <<svc, changed, actions, before, touched>>
    BY <1>2, Zenon DEF Tool!Snapshot, Tool!host, Tool!rest
  <2>3. QED
    BY <1>1, <2>1, <2>2 DEF Ended, Waiting
<1>3. CASE Tool!DeleteProfile
  <2>1. Tool!GoTo("profiles") \/ Tool!GoTo("undo wireless")
    BY <1>3, Zenon DEF Tool!DeleteProfile
  <2>2. run.pc = "delete" /\ UNCHANGED <<svc, changed, before, touched>>
    BY <1>3, Zenon DEF Tool!DeleteProfile, Tool!rest
  <2>3. actions' = actions \/ \E p \in Profiles : actions' = [actions EXCEPT ![p] = "done"]
    BY <1>3, Zenon DEF Tool!DeleteProfile, Tool!Left
  <2>4. \A u \in Units : actions'[u] = actions[u]
    BY <2>3, ServiceParts, ToolConstants
  <2>5. QED
    BY <1>1, <2>1, <2>2, <2>4 DEF Ended, Waiting
<1>4. CASE Tool!RadioOff
  <2>1. run'.pc \in {"check", "undo wireless"}
    <3>1. CASE run' = [run EXCEPT !.pc = "check", !.radioOff = TRUE]
      BY <3>1 DEF RunType
    <3>2. QED
      BY <1>1, <1>4, <3>1, Zenon DEF Tool!RadioOff
  <2>2. run.pc = "profiles" /\ UNCHANGED <<svc, changed, before, touched>>
    BY <1>4, Zenon DEF Tool!RadioOff, Tool!rest, Tool!local
  <2>3. actions' = actions \/ actions' = [actions EXCEPT ![Radio] = "done"]
    BY <1>4, Zenon DEF Tool!RadioOff
  <2>4. \A u \in Units : actions'[u] = actions[u]
    BY <2>3, ServiceParts, ToolConstants
  <2>5. QED
    BY <2>1, <2>2, <2>4 DEF Ended, Waiting
<1>5. CASE Tool!UndoWireless
  <2>1. run'.pc \in {"undo wireless", "firewall", "snapshot", "write"}
    <3>1. CASE run' = [run EXCEPT !.radioOff = FALSE]
      BY <1>5, <3>1 DEF RunType, Tool!UndoWireless
    <3>2. CASE Tool!EndPass("rolled back") \/ Tool!EndPass("rollback failed")
      BY <3>2, EndPassReads
    <3>3. CASE UNCHANGED run
      BY <1>5, <3>3 DEF Tool!UndoWireless
    <3>4. QED
      BY <1>5, <3>1, <3>2, <3>3, Zenon DEF Tool!UndoWireless
  <2>2. run.pc = "undo wireless" /\ UNCHANGED <<svc, changed, before, touched>>
    BY <1>5, Zenon DEF Tool!UndoWireless, Tool!rest
  <2>3. actions' = actions \/ Tool!MarkRolledBack(Tool!WirelessThings)
    BY <1>5, Zenon DEF Tool!UndoWireless
  <2>4. \A u \in Units : actions'[u] = actions[u]
    BY <2>3, ServiceParts, ToolConstants DEF Tool!MarkRolledBack, Tool!WirelessThings
  <2>5. QED
    BY <2>1, <2>2, <2>4 DEF Ended, Waiting
<1>6. QED
  BY <1>2, <1>3, <1>4, <1>5

LEMMA NextServices ==
  ASSUME Tool!TypeOK, RunInv, ServiceInv, Tool!ToolNext, run'.err # "rollback failed"
  PROVE  ServiceInv'
<1>1. CASE QuietStep /\ ~Tool!RecheckService
  <2>1. /\ UNCHANGED <<svc, changed, actions, before, touched>>
        /\ run.pc \notin Waiting /\ run'.pc \notin Waiting
        /\ run.pc \in Ended => run'.pc \in Ended
    BY <1>1, QuietRest, QuietGoes DEF Waiting
  <2>2. QED
    BY <2>1, ServiceQuiet
<1>2. CASE Tool!Snapshot \/ Tool!DeleteProfile \/ Tool!RadioOff \/ Tool!UndoWireless
  BY <1>2, WirelessGoes, ServiceQuiet
<1>3. QED
  BY <1>1, <1>2, ToolStepKinds, ReadTrue, DisableTrue, RecheckTrue, UndoTrue, ServicesOfOthers

-----------------------------------------------------------------------------
(* Wireless: what was deleted is gone, backed up and reported as "done";   *)
(* nothing is before the second pass has come so far.  Left aside is what  *)
(* others have touched, and what a command changed although it failed.     *)

Excused == touched \cup unreported
BackedUp(p) == \E i \in 1..Len(backups) : backups[i] = p
Early == run.pc \in {"idle", "firewall", "read", "undo", "snapshot"} \cup Stopping \/ ~run.acts
NothingDone == /\ \A x \in Deletable : actions[x] # "done"
               /\ ~run.radioOff /\ backups = <<>>
SnapshotTrue == /\ \A p \in Profiles \ Excused : snap.wifi[p] = before.wifi[p]
                /\ Radio \notin Excused => snap.radio = before.radio
BackupsTrue ==
    \A i \in 1..Len(backups) : backups[i] \notin Excused => before.wifi[backups[i]] = "saved"
ProfileTrue(p) ==
    IF run.pc = "undo wireless"
    THEN wifi[p] = before.wifi[p] \/ (wifi[p] = "gone" /\ BackedUp(p))
    ELSE /\ wifi[p] # before.wifi[p] <=> actions[p] = "done"
         /\ actions[p] = "done" => wifi[p] = "gone"
         /\ actions[p] = "done" /\ run.pc \notin Ended => BackedUp(p)
RadioTrue ==
    /\ run.radioOff => before.radio
    /\ IF run.pc = "undo wireless"
       THEN radio = before.radio \/ run.radioOff
       ELSE /\ radio # before.radio <=> actions[Radio] = "done"
            /\ actions[Radio] = "done" /\ run.pc \notin Ended => run.radioOff
WirelessInv ==
    /\ Early => NothingDone
    /\ run.pc \in Cleaning => SnapshotTrue
    /\ BackupsTrue
    /\ \A p \in Profiles \ Excused : ProfileTrue(p)
    /\ Radio \notin Excused => RadioTrue

LEMMA WirelessParts ==
  ASSUME Tool!TypeOK
  PROVE  /\ wifi \in [Profiles -> {"gone", "saved", "active"}]
         /\ radio \in BOOLEAN /\ before.radio \in BOOLEAN
         /\ snap \in [wifi : [Profiles -> {"gone", "saved", "active"}], radio : BOOLEAN]
         /\ backups \in Seq(Profiles) /\ run.radioOff \in BOOLEAN
         /\ actions \in [Tool!Things -> {"none", "done", "rolled back"}]
         /\ Deletable \subseteq Tool!Things /\ Deletable \cap Units = {}
         /\ Profiles \subseteq Deletable /\ Radio \in Deletable
<1>1. /\ Deletable \subseteq Tool!Things /\ Deletable \cap Units = {}
      /\ Profiles \subseteq Deletable /\ Radio \in Deletable
  BY ToolConstants DEF Tool!Things, Deletable
<1>2. run.radioOff \in BOOLEAN
  BY RunParts DEF RunType
<1>3. QED
  BY <1>1, <1>2, ToolTypeParts DEF AllTyped, HostTyped, LocalTyped, ActionsTyped, ObservedTyped

\* A step that leaves wireless, and what is said of it, alone.
LEMMA WirelessQuiet ==
  ASSUME WirelessInv, UNCHANGED <<wifi, radio, snap, backups, before, Excused>>,
         run'.radioOff = run.radioOff,
         \A x \in Deletable : actions'[x] = actions[x],
         Early' => Early, run'.pc \in Cleaning => run.pc \in Cleaning,
         run.pc # "undo wireless", run'.pc = "undo wireless" => run.pc \notin Ended,
         run.pc \in Ended => run'.pc \in Ended
  PROVE  WirelessInv'
<1>1. Early' => NothingDone'
  BY DEF WirelessInv, NothingDone
<1>2. run'.pc \in Cleaning => SnapshotTrue'
  BY Zenon DEF WirelessInv, SnapshotTrue
<1>3. BackupsTrue'
  BY Zenon DEF WirelessInv, BackupsTrue
<1>4. ASSUME NEW p \in Profiles \ Excused PROVE ProfileTrue(p)'
  <2>1. ProfileTrue(p) /\ (BackedUp(p)' <=> BackedUp(p))
    BY Zenon DEF WirelessInv, BackedUp
  <2>2. actions'[p] = actions[p]
    BY DEF Deletable
  <2>3. CASE run'.pc = "undo wireless"
    BY <2>1, <2>2, <2>3, Zenon DEF ProfileTrue
  <2>4. CASE run'.pc # "undo wireless"
    BY <2>1, <2>2, <2>4, Zenon DEF ProfileTrue
  <2>5. QED
    BY <2>3, <2>4
<1>5. Radio \notin Excused => RadioTrue'
  <2>1. actions'[Radio] = actions[Radio]
    BY DEF Deletable
  <2>2. CASE run'.pc = "undo wireless"
    BY <2>1, <2>2, Zenon DEF WirelessInv, RadioTrue
  <2>3. CASE run'.pc # "undo wireless"
    BY <2>1, <2>3, Zenon DEF WirelessInv, RadioTrue
  <2>4. QED
    BY <2>2, <2>3
<1>6. QED
  BY <1>1, <1>2, <1>3, <1>4, <1>5, Zenon DEF WirelessInv

\* The quiet steps and those of the services are quiet in this sense.
LEMMA QuietEarly ==
  ASSUME Tool!TypeOK, RunInv, QuietStep
  PROVE  /\ Early' => Early
         /\ run'.pc \in Cleaning => run.pc \in Cleaning
<1> USE RunParts
<1>1. CASE Tool!Start
  <2>1. run.pc = "idle" /\ run'.pc \in {"firewall", "snapshot", "write", "exited"}
    BY <1>1, StartReads
  <2>2. QED
    BY <2>1 DEF Early, Cleaning
<1>2. CASE Tool!OtherComponent
  <2>1. CASE run.pc = "firewall" /\ Tool!GoTo("read")
    <3>1. run'.pc = "read"
      BY <2>1, GoToReads
    <3>2. QED
      BY <2>1, <3>1 DEF Early, Cleaning
  <2>2. CASE Tool!EndPass("failed") \/ Tool!EndPass("none")
    <3>1. /\ run'.pc \in {"firewall", "snapshot", "write"}
          /\ ~run.acts \/ (run'.pc = "write" /\ run'.acts = run.acts)
      BY <2>2, EndPassReads
    <3>2. QED
      BY <3>1, Zenon DEF Early, Cleaning, Stopping
  <2>3. QED
    BY <1>2, <2>1, <2>2, Zenon DEF Tool!OtherComponent
<1>3. CASE Tool!ServicesDone \/ Tool!RecheckService
  <2>1. run.pc \in {"read", "recheck"}
    BY <1>3 DEF Tool!ServicesDone, Tool!RecheckService
  <2>2. Tool!GoTo("snapshot") \/ Tool!GoTo("undo") \/ Tool!NextService
    BY <1>3, Zenon DEF Tool!ServicesDone, Tool!RecheckService
  <2>3. run'.pc \in {"snapshot", "undo", "read"}
    BY <2>2, GoToReads, NextServiceReads
  <2>4. QED
    BY <2>1, <2>3 DEF Early, Stopping, Cleaning
<1>4. CASE Tool!BackupProfile
  <2>1. run.pc = "profiles" /\ run.acts
    BY <1>4 DEF Tool!BackupProfile, RunInv, Cleaning
  <2>2. Tool!GoTo("delete") \/ Tool!EndPass("backup failed")
    BY <1>4, Zenon DEF Tool!BackupProfile
  <2>3. run'.pc \in {"delete", "write"} /\ run'.acts
    BY <2>1, <2>2, GoToReads, EndPassReads DEF SameWork
  <2>4. QED
    BY <2>1, <2>3 DEF Early, Stopping, Cleaning
<1>5. CASE Tool!CheckWireless
  <2>1. run.pc = "check" /\ run.acts
    BY <1>5 DEF Tool!CheckWireless, RunInv, Cleaning
  <2>2. Tool!GoTo("audits") \/ Tool!GoTo("undo wireless")
    BY <1>5, Zenon DEF Tool!CheckWireless
  <2>3. run'.pc \in {"audits", "undo wireless"} /\ run'.acts
    BY <2>1, <2>2, GoToReads DEF SameWork
  <2>4. QED
    BY <2>1, <2>3 DEF Early, Stopping, Cleaning
<1>6. CASE Tool!WriteReport \/ Tool!UploadFailed \/ Tool!Uploaded
  <2>1. Tool!GoTo("upload") \/ \E code : Tool!ExitWith(code)
    BY <1>6, Zenon DEF Tool!WriteReport, Tool!UploadFailed, Tool!Uploaded
  <2>2. run'.pc \in {"upload", "exited"} /\ run'.acts = run.acts
    BY <2>1, GoToReads, ExitReads DEF SameWork
  <2>3. QED
    BY <2>2 DEF Early, Stopping, Cleaning
<1>7. QED
  BY <1>1, <1>2, <1>3, <1>4, <1>5, <1>6, Zenon DEF QuietStep

LEMMA ServicesGo ==
  ASSUME Tool!TypeOK, RunInv,
         Tool!ReadService \/ Tool!DisableNow \/ Tool!UndoService
  PROVE  /\ UNCHANGED <<wifi, radio, snap, backups, before, Excused>>
         /\ run'.radioOff = run.radioOff
         /\ \A x \in Deletable : actions'[x] = actions[x]
         /\ Early /\ run.pc \notin Ended \cup {"undo wireless"}
         /\ run'.pc \notin Cleaning \cup {"undo wireless"}
<1> USE RunParts
<1>1. UNCHANGED <<wifi, radio, snap, backups, before, Excused>>
  BY Zenon DEF Tool!ReadService, Tool!DisableNow, Tool!UndoService, Tool!host, Tool!local,
     Tool!rest, Excused
<1>2. run.pc \in {"read", "disable", "undo"}
  BY DEF Tool!ReadService, Tool!DisableNow, Tool!UndoService
<1>3. \/ UNCHANGED run \/ Tool!NextService
      \/ Tool!GoTo("disable") \/ Tool!GoTo("recheck") \/ Tool!GoTo("undo")
      \/ Tool!EndPass("failed") \/ Tool!EndPass("rolled back") \/ Tool!EndPass("rollback failed")
  BY Zenon DEF Tool!ReadService, Tool!DisableNow, Tool!UndoService
<1>4. /\ run'.radioOff = run.radioOff
      /\ run'.pc \in {run.pc, "read", "disable", "recheck", "undo", "firewall", "snapshot", "write"}
  BY <1>3, NextServiceReads, GoToReads, EndPassReads DEF SameWork
<1>5. \A x \in Deletable : actions'[x] = actions[x]
  <2>1. CASE Tool!ReadService
    BY <2>1, Zenon DEF Tool!ReadService
  <2>2. CASE Tool!DisableNow
    <3>1. actions' = actions \/ actions' = [actions EXCEPT ![Tool!Unit] = "done"]
      BY <2>2, Zenon DEF Tool!DisableNow
    <3>2. Tool!Unit \in Units
      BY <2>2 DEF Tool!DisableNow, RunInv, Stopping, Tool!Unit
    <3>3. /\ actions \in [Tool!Things -> {"none", "done", "rolled back"}]
          /\ Deletable \subseteq Tool!Things /\ Tool!Unit \notin Deletable
      BY <3>2, WirelessParts
    <3>4. QED
      BY <3>1, <3>3
  <2>3. CASE Tool!UndoService
    <3>1. actions' = actions \/ Tool!MarkRolledBack(Units)
      BY <2>3, Zenon DEF Tool!UndoService
    <3>2. QED
      BY <3>1, WirelessParts DEF Tool!MarkRolledBack
  <2>4. QED
    BY <2>1, <2>2, <2>3
<1>6. QED
  BY <1>1, <1>2, <1>4, <1>5 DEF Early, Stopping, Cleaning, Ended

\* A profile nobody has touched is as it was, or gone and reported.
LEMMA ProfileBefore ==
  ASSUME WirelessInv, run.pc # "undo wireless", NEW p \in Profiles \ Excused
  PROVE  /\ wifi[p] = before.wifi[p] \/ (wifi[p] = "gone" /\ actions[p] = "done")
         /\ NothingDone => wifi[p] = before.wifi[p]
<1>1. ProfileTrue(p)
  BY DEF WirelessInv
<1>2. NothingDone => actions[p] # "done"
  BY DEF NothingDone, Deletable
<1>3. QED
  BY <1>1, <1>2, Zenon DEF ProfileTrue

LEMMA SnapshotKeeps ==
  ASSUME Tool!TypeOK, RunInv, WirelessInv, Tool!Snapshot
  PROVE  WirelessInv'
<1> USE RunParts
<1>1. /\ run.pc = "snapshot"
      /\ UNCHANGED <<wifi, radio, backups, actions, before, Excused>>
  BY Zenon DEF Tool!Snapshot, Tool!host, Excused
<1>2. NothingDone
  BY <1>1 DEF WirelessInv, Early
<1>3. SameWork /\ run'.pc \in {"audits", "profiles"}
  BY GoToReads DEF Tool!Snapshot
<1>4. NothingDone'
  BY <1>1, <1>2, <1>3, Zenon DEF NothingDone, SameWork
<1>5. run'.pc \in Cleaning => SnapshotTrue'
  <2>1. SUFFICES ASSUME run'.pc = "profiles" PROVE SnapshotTrue'
    BY <1>3 DEF Cleaning
  <2>2. snap' = [wifi |-> wifi, radio |-> radio]
    <3>1. CASE Tool!GoTo("audits")
      BY <2>1, <3>1, GoToReads
    <3>2. QED
      BY <3>1 DEF Tool!Snapshot
  <2>3. \A p \in Profiles \ Excused : wifi[p] = before.wifi[p]
    BY <1>1, <1>2, ProfileBefore
  <2>4. Radio \notin Excused => radio = before.radio
    <3>1. actions[Radio] # "done"
      BY <1>2 DEF NothingDone, Deletable
    <3>2. QED
      BY <1>1, <3>1, Zenon DEF WirelessInv, RadioTrue
  <2>5. snap'.wifi = wifi /\ snap'.radio = radio
    BY <2>2
  <2>6. QED
    BY <1>1, <2>3, <2>4, <2>5, Zenon DEF SnapshotTrue
<1>6. BackupsTrue'
  BY <1>1, Zenon DEF WirelessInv, BackupsTrue
<1>7. run'.pc # "undo wireless" /\ run.pc # "undo wireless" /\ run.pc \notin Ended
  BY <1>1, <1>3 DEF Ended
<1>8. ASSUME NEW p \in Profiles \ Excused PROVE ProfileTrue(p)'
  <2>1. ProfileTrue(p) /\ (BackedUp(p)' <=> BackedUp(p))
    BY <1>1, Zenon DEF WirelessInv, BackedUp
  <2>2. QED
    BY <1>1, <1>7, <2>1, Zenon DEF ProfileTrue
<1>9. Radio \notin Excused => RadioTrue'
  BY <1>1, <1>3, <1>7, Zenon DEF WirelessInv, RadioTrue, SameWork
<1>10. QED
  BY <1>1, <1>4, <1>5, <1>6, <1>8, <1>9, Zenon DEF WirelessInv

\* The passing of a step of the wireless part that does not end its pass.
LEMMA CleaningGoes ==
  ASSUME Tool!TypeOK, RunInv, NEW pc \in Cleaning \cup {"undo wireless"}, run.pc \in Cleaning,
         Tool!GoTo(pc)
  PROVE  /\ ~Early' /\ run'.pc = pc /\ run'.radioOff = run.radioOff
         /\ run.pc \notin Ended \cup {"undo wireless"} /\ run'.pc \notin Ended
<1>1. SameWork /\ run'.pc = pc
  BY RunParts, GoToReads
<1>2. run.acts
  BY DEF RunInv
<1>3. QED
  BY <1>1, <1>2 DEF Early, Stopping, Cleaning, SameWork, Ended

LEMMA GivesUpQuietly ==
  ASSUME Tool!TypeOK, RunInv, WirelessInv, NEW pc \in Cleaning \cup {"undo wireless"},
         run.pc \in Cleaning, Tool!GoTo(pc),
         UNCHANGED <<wifi, radio, snap, backups, actions, before, Excused>>
  PROVE  WirelessInv'
<1>1. /\ ~Early' /\ run'.pc = pc /\ run'.radioOff = run.radioOff
      /\ run.pc \notin Ended \cup {"undo wireless"}
  BY CleaningGoes
<1>2. QED
  BY <1>1, WirelessQuiet, Zenon

\* A command that changed something although it failed: what is left is undone.
LEMMA FailsHalfway ==
  ASSUME Tool!TypeOK, RunInv, WirelessInv, run.pc \in Cleaning, Tool!GoTo("undo wireless"),
         UNCHANGED <<snap, backups, actions, before>>, Excused \subseteq Excused',
         \A p \in Profiles \ Excused' : wifi'[p] = wifi[p],
         Radio \notin Excused' => radio' = radio
  PROVE  WirelessInv'
<1>1. /\ ~Early' /\ run'.pc = "undo wireless" /\ run'.radioOff = run.radioOff
      /\ run.pc \notin Ended \cup {"undo wireless"}
  BY CleaningGoes
<1>2. run'.pc \notin Cleaning
  BY <1>1 DEF Cleaning
<1>3. BackupsTrue'
  BY DEF WirelessInv, BackupsTrue
<1>4. ASSUME NEW p \in Profiles \ Excused' PROVE ProfileTrue(p)'
  <2>1. ProfileTrue(p) /\ (BackedUp(p)' <=> BackedUp(p)) /\ wifi'[p] = wifi[p]
    BY <1>4 DEF WirelessInv, BackedUp
  <2>2. QED
    BY <1>1, <2>1, Zenon DEF ProfileTrue
<1>5. Radio \notin Excused' => RadioTrue'
  <2>1. Radio \notin Excused' => RadioTrue /\ radio' = radio
    BY DEF WirelessInv
  <2>2. QED
    BY <1>1, <2>1, Zenon DEF RadioTrue
<1>6. QED
  BY <1>1, <1>2, <1>3, <1>4, <1>5, Zenon DEF WirelessInv

LEMMA DeleteKeeps ==
  ASSUME Tool!TypeOK, RunInv, WirelessInv, Tool!DeleteProfile
  PROVE  WirelessInv'
<1>1. /\ run.pc = "delete" /\ UNCHANGED <<radio, snap, before, touched>>
  BY Zenon DEF Tool!DeleteProfile
<1>2. run.pc \in Cleaning
  BY <1>1 DEF Cleaning
<1>3. CASE /\ Tool!GoTo("undo wireless") /\ UNCHANGED <<backups, actions>>
           /\ \/ UNCHANGED <<wifi, unreported>>
              \/ \E p \in Tool!Left : /\ wifi' = [wifi EXCEPT ![p] = "gone"]
                                       /\ unreported' = unreported \cup {p}
  <2>1. /\ Excused \subseteq Excused'
        /\ \A p \in Profiles \ Excused' : wifi'[p] = wifi[p]
    BY <1>1, <1>3, WirelessParts DEF Excused
  <2>2. QED
    BY <1>1, <1>2, <1>3, <2>1, FailsHalfway
<1>4. CASE \E p \in Tool!Left : /\ wifi' = [wifi EXCEPT ![p] = "gone"]
                                /\ backups' = Append(backups, p)
                                /\ actions' = [actions EXCEPT ![p] = "done"]
                                /\ Tool!GoTo("profiles") /\ UNCHANGED unreported
  <2>1. PICK q \in Tool!Left : /\ wifi' = [wifi EXCEPT ![q] = "gone"]
                               /\ backups' = Append(backups, q)
                               /\ actions' = [actions EXCEPT ![q] = "done"]
    BY <1>4
  <2>e. Excused' = Excused
    BY <1>1, <1>4 DEF Excused
  <2>2. q \in Profiles /\ snap.wifi[q] = "saved"
    BY DEF Tool!Left
  <2>3. /\ ~Early' /\ run'.pc = "profiles" /\ run'.radioOff = run.radioOff
        /\ run.pc \notin Ended \cup {"undo wireless"} /\ run'.pc \notin Ended
    <3>1. "profiles" \in Cleaning /\ Tool!GoTo("profiles")
      BY <1>4 DEF Cleaning
    <3>2. QED
      BY <1>2, <3>1, CleaningGoes
  <2>4. /\ Len(backups') = Len(backups) + 1 /\ backups'[Len(backups) + 1] = q
        /\ \A i \in 1..Len(backups) : backups'[i] = backups[i]
        /\ Len(backups) \in Nat
    <3>1. backups \in Seq(Profiles)
      BY WirelessParts
    <3>2. QED
      BY <2>1, <3>1, AppendReads, LengthTyped
  <2>5. /\ \A i \in 1..Len(backups') : i \in 1..Len(backups) \/ i = Len(backups) + 1
        /\ \A i \in 1..Len(backups) : i \in 1..Len(backups')
        /\ Len(backups) + 1 \in 1..Len(backups')
    BY <2>4
  <2>6. SnapshotTrue
    BY <1>2 DEF WirelessInv
  <2>7. SnapshotTrue'
    BY <1>1, <2>e, <2>6, Zenon DEF SnapshotTrue
  <2>8. q \notin Excused => before.wifi[q] = "saved"
    BY <2>2, <2>6 DEF SnapshotTrue
  <2>9. BackupsTrue'
    <3>1. SUFFICES ASSUME NEW i \in 1..Len(backups'), backups'[i] \notin Excused
                   PROVE  before.wifi[backups'[i]] = "saved"
      BY <1>1, <2>e, Zenon DEF BackupsTrue
    <3>2. CASE i \in 1..Len(backups)
      BY <2>4, <3>1, <3>2 DEF WirelessInv, BackupsTrue
    <3>3. CASE i = Len(backups) + 1
      BY <2>4, <2>8, <3>1, <3>3
    <3>4. QED
      BY <2>5, <3>2, <3>3
  <2>10. ASSUME NEW p \in Profiles \ Excused PROVE ProfileTrue(p)'
    <3>1. CASE p = q
      <4>1. wifi'[p] = "gone" /\ actions'[p] = "done" /\ before.wifi[p] = "saved"
        BY <2>1, <2>2, <2>8, <3>1, WirelessParts
      <4>2. BackedUp(p)'
        BY <2>4, <2>5, <3>1 DEF BackedUp
      <4>3. QED
        BY <1>1, <2>3, <4>1, <4>2 DEF ProfileTrue
    <3>2. CASE p # q
      <4>1. wifi'[p] = wifi[p] /\ actions'[p] = actions[p]
        BY <2>1, <2>2, <3>2, WirelessParts
      <4>2. BackedUp(p) => BackedUp(p)'
        BY <2>4, <2>5 DEF BackedUp
      <4>3. ProfileTrue(p) /\ run.pc # "undo wireless" /\ run.pc \notin Ended
        BY <1>1 DEF WirelessInv, Ended
      <4>4. QED
        BY <1>1, <2>3, <4>1, <4>2, <4>3, Zenon DEF ProfileTrue
    <3>3. QED
      BY <3>1, <3>2
  <2>11. Radio \notin Excused => RadioTrue'
    <3>1. actions'[Radio] = actions[Radio]
      <4>1. Radio # q
        BY <2>2, ToolConstants
      <4>2. QED
        BY <2>1, <4>1, WirelessParts
    <3>2. run.pc # "undo wireless" /\ run'.pc # "undo wireless" /\ run.pc \notin Ended
      BY <1>1, <2>3 DEF Ended
    <3>3. QED
      BY <1>1, <2>3, <3>1, <3>2, Zenon DEF WirelessInv, RadioTrue
  <2>12. QED
    BY <1>1, <2>e, <2>3, <2>7, <2>9, <2>10, <2>11, Zenon DEF WirelessInv
<1>5. QED
  BY <1>3, <1>4, Zenon DEF Tool!DeleteProfile

\* Nobody was connected when the tool looked, so no connection is its to cut.
LEMMA NobodyConnected ==
  ASSUME Tool!TypeOK, WirelessInv, run.pc \in Cleaning, ~Tool!InUse,
         NEW p \in Profiles \ Excused
  PROVE  wifi[p] # "active"
<1>1. SnapshotTrue /\ run.pc # "undo wireless"
  BY DEF WirelessInv, Cleaning
<1>2. snap.wifi[p] # "active" /\ snap.wifi[p] = before.wifi[p]
  BY <1>1 DEF Tool!InUse, SnapshotTrue
<1>3. QED
  BY <1>1, <1>2, ProfileBefore

LEMMA RadioKeeps ==
  ASSUME Tool!TypeOK, RunInv, WirelessInv, Tool!RadioOff
  PROVE  WirelessInv'
<1>1. /\ run.pc = "profiles" /\ UNCHANGED <<snap, backups, before, touched>>
  BY Zenon DEF Tool!RadioOff, Tool!local
<1>2. run.pc \in Cleaning /\ {"check", "undo wireless"} \subseteq Cleaning \cup {"undo wireless"}
  BY <1>1 DEF Cleaning
<1>3. CASE /\ Tool!GoTo("check") \/ Tool!GoTo("undo wireless")
           /\ UNCHANGED <<radio, wifi, actions, unreported>>
  <2>1. Excused' = Excused
    BY <1>1, <1>3 DEF Excused
  <2>2. QED
    BY <1>1, <1>2, <1>3, <2>1, GivesUpQuietly
<1>4. CASE /\ Tool!RadioGoes /\ radio' = FALSE /\ wifi' = Tool!Disconnected
           /\ actions' = [actions EXCEPT ![Radio] = "done"]
           /\ run' = [run EXCEPT !.pc = "check", !.radioOff = TRUE] /\ UNCHANGED unreported
  <2>e. Excused' = Excused
    BY <1>1, <1>4 DEF Excused
  <2>1. run.acts
    BY <1>2 DEF RunInv
  <2>2. run'.pc = "check" /\ run'.radioOff /\ run'.acts
    BY <1>4, <2>1, RunParts DEF RunType
  <2>3. ~Early' /\ run.pc \notin Ended \cup {"undo wireless"}
        /\ run'.pc \notin Ended \cup {"undo wireless"}
    BY <1>1, <2>2 DEF Early, Stopping, Ended
  <2>4. SnapshotTrue /\ ~Tool!InUse /\ snap.radio
    BY <1>2, <1>4 DEF WirelessInv, Tool!RadioGoes
  <2>5. SnapshotTrue' /\ BackupsTrue'
    BY <1>1, <2>e, <2>4, Zenon DEF SnapshotTrue, BackupsTrue, WirelessInv
  <2>6. ASSUME NEW p \in Profiles \ Excused PROVE ProfileTrue(p)'
    <3>1. wifi[p] # "active"
      BY <1>2, <2>4, NobodyConnected
    <3>2. wifi'[p] = wifi[p]
      BY <1>4, <3>1 DEF Tool!Disconnected
    <3>3. actions'[p] = actions[p]
      <4>1. Radio # p
        BY ToolConstants
      <4>2. QED
        BY <1>4, <4>1, WirelessParts
    <3>4. ProfileTrue(p) /\ (BackedUp(p)' <=> BackedUp(p))
      BY <1>1, Zenon DEF WirelessInv, BackedUp
    <3>5. run.pc # "undo wireless" /\ run'.pc # "undo wireless" /\ run.pc \notin Ended
      BY <2>3
    <3>6. QED
      BY <1>1, <3>2, <3>3, <3>4, <3>5, Zenon DEF ProfileTrue
  <2>7. Radio \notin Excused => RadioTrue'
    <3>1. SUFFICES ASSUME Radio \notin Excused PROVE RadioTrue'
      OBVIOUS
    <3>2. before.radio = TRUE
      <4>1. snap.radio = before.radio
        BY <2>4, <3>1, Zenon DEF SnapshotTrue
      <4>2. before.radio \in BOOLEAN
        BY WirelessParts
      <4>3. QED
        BY <2>4, <4>1, <4>2, Zenon
    <3>3. radio' = FALSE /\ actions'[Radio] = "done"
      BY <1>4, WirelessParts
    <3>4. QED
      BY <1>1, <2>2, <2>3, <3>2, <3>3 DEF RadioTrue
  <2>8. QED
    BY <1>1, <2>e, <2>3, <2>5, <2>6, <2>7, Zenon DEF WirelessInv
<1>5. CASE /\ Tool!RadioGoes /\ Tool!GoTo("undo wireless") /\ UNCHANGED actions
           /\ radio' = FALSE /\ wifi' = Tool!Disconnected
           /\ unreported' = unreported \cup {Radio}
  <2>1. Excused \subseteq Excused' /\ Radio \in Excused'
    BY <1>1, <1>5 DEF Excused
  <2>2. ASSUME NEW p \in Profiles \ Excused' PROVE wifi'[p] = wifi[p]
    <3>1. wifi[p] # "active"
      BY <1>2, <1>5, <2>1, NobodyConnected DEF Tool!RadioGoes
    <3>2. QED
      BY <1>5, <3>1 DEF Tool!Disconnected
  <2>3. QED
    BY <1>1, <1>2, <1>5, <2>1, <2>2, FailsHalfway
<1>6. QED
  BY <1>3, <1>4, <1>5, Zenon DEF Tool!RadioOff

LEMMA NothingBackedUp == backups = <<>> => \A p : ~BackedUp(p)
  BY NothingListed, Zenon DEF BackedUp

LEMMA UndoKeeps ==
  ASSUME Tool!TypeOK, RunInv, WirelessInv, Tool!UndoWireless, run'.err # "rollback failed"
  PROVE  WirelessInv'
<1> USE RunParts
<1>1. /\ run.pc = "undo wireless" /\ UNCHANGED <<snap, before, Excused>>
  BY Zenon DEF Tool!UndoWireless, Tool!rest, Excused
<1>2. run.acts
  BY <1>1 DEF RunInv
<1>3. /\ BackupsTrue
      /\ \A p \in Profiles \ Excused :
           wifi[p] = before.wifi[p] \/ (wifi[p] = "gone" /\ BackedUp(p))
      /\ Radio \notin Excused => /\ run.radioOff => before.radio
                                 /\ radio = before.radio \/ run.radioOff
  BY <1>1, Zenon DEF WirelessInv, ProfileTrue, RadioTrue
<1>4. CASE /\ run.radioOff /\ UNCHANGED <<wifi, backups, actions>>
           /\ radio' = TRUE /\ run' = [run EXCEPT !.radioOff = FALSE]
  <2>1. run'.pc = "undo wireless" /\ run'.acts /\ run'.radioOff = FALSE
    BY <1>1, <1>2, <1>4 DEF RunType
  <2>2. ~Early' /\ run'.pc \notin Cleaning
    BY <2>1 DEF Early, Stopping, Cleaning
  <2>3. BackupsTrue'
    BY <1>1, <1>3, <1>4, Zenon DEF BackupsTrue
  <2>4. ASSUME NEW p \in Profiles \ Excused PROVE ProfileTrue(p)'
    <3>1. BackedUp(p)' <=> BackedUp(p)
      BY <1>4, Zenon DEF BackedUp
    <3>2. QED
      BY <1>1, <1>3, <1>4, <2>1, <3>1, Zenon DEF ProfileTrue
  <2>5. Radio \notin Excused => RadioTrue'
    <3>1. Radio \notin Excused => before.radio = TRUE
      BY <1>3, <1>4, WirelessParts
    <3>2. QED
      BY <1>1, <1>4, <2>1, <3>1, Zenon DEF RadioTrue
  <2>6. QED
    BY <1>1, <2>2, <2>3, <2>4, <2>5, Zenon DEF WirelessInv
<1>5. CASE /\ ~run.radioOff /\ backups # <<>> /\ UNCHANGED <<radio, run, actions>>
           /\ wifi' = [wifi EXCEPT ![backups[Len(backups)]] = "saved"]
           /\ backups' = SubSeq(backups, 1, Len(backups) - 1)
  <2>1. PICK last : last = backups[Len(backups)]
    OBVIOUS
  <2>2. /\ last \in Profiles /\ Len(backups') = Len(backups) - 1
        /\ \A i \in 1..Len(backups) - 1 : backups'[i] = backups[i]
        /\ Len(backups) \in 1..Len(backups)
        /\ \A i \in 1..Len(backups) : i = Len(backups) \/ i \in 1..Len(backups) - 1
        /\ \A i \in 1..Len(backups) - 1 : i \in 1..Len(backups)
    <3>1. backups \in Seq(Profiles)
      BY WirelessParts
    <3>2. QED
      BY <1>5, <2>1, <3>1, FrontTyped
  <2>3. /\ \A i \in 1..Len(backups') : i \in 1..Len(backups) /\ backups'[i] = backups[i]
        /\ \A i \in 1..Len(backups) : i = Len(backups) \/ i \in 1..Len(backups')
    BY <2>2, Zenon
  <2>4. last \notin Excused => before.wifi[last] = "saved"
    BY <1>3, <2>1, <2>2 DEF BackupsTrue
  <2>5. ~Early' /\ run'.pc = "undo wireless" /\ run'.pc \notin Cleaning
    BY <1>1, <1>2, <1>5 DEF Early, Stopping, Cleaning
  <2>6. BackupsTrue'
    BY <1>1, <1>3, <2>3, Zenon DEF BackupsTrue
  <2>7. ASSUME NEW p \in Profiles \ Excused PROVE ProfileTrue(p)'
    <3>1. CASE p = last
      <4>1. wifi'[p] = "saved" /\ before.wifi[p] = "saved"
        BY <1>5, <2>1, <2>2, <2>4, <3>1, WirelessParts
      <4>2. QED
        BY <1>1, <2>5, <4>1 DEF ProfileTrue
    <3>2. CASE p # last
      <4>1. wifi'[p] = wifi[p]
        BY <1>5, <2>1, <2>2, <3>2, WirelessParts
      <4>2. BackedUp(p) => BackedUp(p)'
        BY <2>1, <2>3, <3>2 DEF BackedUp
      <4>3. QED
        BY <1>1, <1>3, <2>5, <4>1, <4>2, Zenon DEF ProfileTrue
    <3>3. QED
      BY <3>1, <3>2
  <2>8. Radio \notin Excused => RadioTrue'
    BY <1>1, <1>3, <1>5, <2>5, Zenon DEF RadioTrue
  <2>9. QED
    BY <1>1, <2>5, <2>6, <2>7, <2>8, Zenon DEF WirelessInv
<1>6. CASE Tool!EndPass("rollback failed")
  <2>1. run'.err = "rollback failed"
    BY <1>6, EndPassReads
  <2>2. QED
    BY <2>1
<1>7. CASE /\ ~run.radioOff /\ backups = <<>> /\ Tool!EndPass("rolled back")
           /\ Tool!MarkRolledBack(Tool!WirelessThings) /\ UNCHANGED <<wifi, radio, backups>>
  <2>1. run'.pc = "write" /\ run'.acts /\ run'.radioOff = run.radioOff
    BY <1>2, <1>7, EndPassReads
  <2>2. ~Early' /\ run'.pc \notin Cleaning \cup {"undo wireless"} /\ run'.pc \in Ended
    BY <2>1 DEF Early, Stopping, Cleaning, Ended
  <2>3. BackupsTrue'
    BY <1>1, <1>3, <1>7, Zenon DEF BackupsTrue
  <2>4. \A x \in Deletable : actions'[x] # "done"
    BY <1>7, WirelessParts DEF Tool!MarkRolledBack, Tool!WirelessThings, Deletable
  <2>5. ASSUME NEW p \in Profiles \ Excused PROVE ProfileTrue(p)'
    <3>1. wifi'[p] = before'.wifi[p]
      BY <1>1, <1>3, <1>7, NothingBackedUp
    <3>2. actions'[p] # "done" /\ run'.pc # "undo wireless"
      BY <2>2, <2>4, WirelessParts
    <3>3. QED
      BY <3>1, <3>2, Zenon DEF ProfileTrue
  <2>6. Radio \notin Excused => RadioTrue'
    <3>1. actions'[Radio] # "done" /\ run'.pc # "undo wireless"
      BY <2>2, <2>4, WirelessParts
    <3>2. QED
      BY <1>1, <1>3, <1>7, <2>1, <3>1, Zenon DEF RadioTrue
  <2>7. QED
    BY <1>1, <2>2, <2>3, <2>5, <2>6, Zenon DEF WirelessInv
<1>8. QED
  BY <1>4, <1>5, <1>6, <1>7, Zenon DEF Tool!UndoWireless

\* What others do concerns things that are touched from then on.
LEMMA WirelessOfOthers ==
  ASSUME Tool!TypeOK, WirelessInv, Tool!Other
  PROVE  WirelessInv'
<1>1. UNCHANGED <<run, snap, backups, actions, before, unreported>>
  BY Zenon DEF Tool!Other, Tool!local
<1>2. /\ Excused \subseteq Excused'
      /\ \A p \in Profiles \ Excused' : wifi'[p] = wifi[p]
      /\ Radio \notin Excused' => radio' = radio
  <2>1. ASSUME NEW u \in Units, ServiceByOthers(u)
        PROVE  touched' = touched \cup {u} /\ UNCHANGED <<wifi, radio>>
    BY <2>1 DEF ServiceByOthers
  <2>2. \/ \E x : touched' = touched \cup {x} /\ UNCHANGED <<wifi, radio>>
        \/ \E p \in Profiles : /\ touched' = touched \cup {p} /\ UNCHANGED radio
                               /\ wifi' = [wifi EXCEPT ![p] = "active"]
        \/ touched' = touched \cup {Radio} /\ UNCHANGED wifi
    BY <2>1, OthersDo, Zenon
  <2>3. QED
    BY <1>1, <2>2, WirelessParts DEF Excused
<1>3. (Early' <=> Early) /\ (NothingDone' <=> NothingDone)
  BY <1>1, Zenon DEF Early, NothingDone
<1>4. SnapshotTrue => SnapshotTrue'
  BY <1>1, <1>2 DEF SnapshotTrue
<1>5. BackupsTrue'
  BY <1>1, <1>2 DEF WirelessInv, BackupsTrue
<1>6. ASSUME NEW p \in Profiles \ Excused' PROVE ProfileTrue(p)'
  <2>1. ProfileTrue(p) /\ wifi'[p] = wifi[p]
    BY <1>2, <1>6 DEF WirelessInv
  <2>2. BackedUp(p)' <=> BackedUp(p)
    BY <1>1, Zenon DEF BackedUp
  <2>3. QED
    BY <1>1, <2>1, <2>2, Zenon DEF ProfileTrue
<1>7. Radio \notin Excused' => RadioTrue'
  <2>1. Radio \notin Excused' => Radio \notin Excused /\ radio' = radio
    BY <1>2
  <2>2. QED
    BY <1>1, <2>1, Zenon DEF WirelessInv, RadioTrue
<1>8. QED
  BY <1>1, <1>3, <1>4, <1>5, <1>6, <1>7, Zenon DEF WirelessInv

LEMMA NextWireless ==
  ASSUME Tool!TypeOK, RunInv, WirelessInv, Tool!ToolNext, run'.err # "rollback failed"
  PROVE  WirelessInv'
<1>1. CASE QuietStep
  <2>1. UNCHANGED <<wifi, radio, snap, backups, before, Excused>>
    BY <1>1, QuietRest DEF Excused
  <2>2. \A x \in Deletable : actions'[x] = actions[x]
    BY <1>1, QuietRest
  <2>3. /\ run.pc # "undo wireless" /\ (run.pc \in Ended => run'.pc \in Ended)
        /\ run'.pc = "undo wireless" => run.pc \notin Ended
        /\ run'.radioOff = run.radioOff
    BY <1>1, QuietGoes DEF Ended
  <2>4. QED
    BY <1>1, <2>1, <2>2, <2>3, QuietEarly, WirelessQuiet
<1>2. CASE Tool!ReadService \/ Tool!DisableNow \/ Tool!UndoService
  BY <1>2, ServicesGo, WirelessQuiet
<1>3. QED
  BY <1>1, <1>2, ToolStepKinds, SnapshotKeeps, DeleteKeeps, RadioKeeps, UndoKeeps,
     WirelessOfOthers

-----------------------------------------------------------------------------
(* The report is true, and no connection is cut.                           *)

TruthInv == run.err # "rollback failed" => ServiceInv /\ WirelessInv
\* The profiles in use are in use in the Snapshot the tool works from, or were
\* joined later; those it has deleted were not.
LookInv ==
    run.pc \in Cleaning \cup {"undo wireless"} =>
        /\ \A p \in Profiles : wifi[p] = "active" => snap.wifi[p] = "active" \/ p \in joined
        /\ \A i \in 1..Len(backups) : snap.wifi[backups[i]] = "saved"
ToolInv == Tool!TypeOK /\ RunInv /\ TruthInv /\ LookInv

\* A failed rollback is the end of the run.
LEMMA FailureStays ==
  ASSUME Tool!TypeOK, RunInv, Tool!ToolNext, run.err = "rollback failed"
  PROVE  run'.err = "rollback failed"
<1>1. run.pc \in Ended
  BY DEF RunInv
<1>2. \/ Tool!WriteReport \/ Tool!UploadFailed \/ Tool!Uploaded \/ UNCHANGED run
  BY <1>1 DEF Ended, Tool!ToolNext, Tool!HostStep, Tool!Start, Tool!OtherComponent,
     Tool!ReadService, Tool!ServicesDone, Tool!DisableNow, Tool!RecheckService,
     Tool!UndoService, Tool!Snapshot, Tool!BackupProfile, Tool!DeleteProfile, Tool!RadioOff,
     Tool!CheckWireless, Tool!UndoWireless, Tool!Other
<1>3. Tool!GoTo("upload") \/ (\E code : Tool!ExitWith(code)) \/ UNCHANGED run
  BY <1>2, Zenon DEF Tool!WriteReport, Tool!UploadFailed, Tool!Uploaded
<1>4. QED
  BY <1>3, RunParts, GoToReads, ExitReads

LEMMA InitTruth == BothInit => TruthInv /\ LookInv
<1> SUFFICES ASSUME Tool!Init PROVE ServiceInv /\ WirelessInv /\ LookInv
  BY DEF BothInit, TruthInv
<1>1. run.pc \in {"idle", "exited"} /\ run.radioOff = FALSE /\ run.acts = FALSE
  BY DEF Tool!Init
<1>2. /\ changed = <<>> /\ backups = <<>>
      /\ before = [svc |-> svc, wifi |-> wifi, radio |-> radio]
      /\ actions = [x \in Tool!Things |-> "none"]
  BY Zenon DEF Tool!Init
<1>3. before.svc = svc /\ before.wifi = wifi /\ before.radio = radio
  BY <1>2
<1>4. \A x \in Tool!Things : actions[x] # "done"
  BY <1>2
<1>5. ServiceInv
  <2>1. ListTrue
    BY <1>2, NothingListed, Zenon DEF ListTrue
  <2>2. ASSUME NEW u \in Units \ touched PROVE ServiceTrue(u)
    BY <1>1, <1>3, <1>4 DEF ServiceTrue, Pending, Is, Was, Tool!Things
  <2>3. QED
    BY <2>1, <2>2, Zenon DEF ServiceInv
<1>6. WirelessInv
  <2>1. NothingDone
    BY <1>1, <1>2, <1>4 DEF NothingDone, Deletable, Tool!Things
  <2>2. run.pc \notin Cleaning \cup {"undo wireless"}
    BY <1>1 DEF Cleaning
  <2>3. BackupsTrue
    BY <1>2, NothingListed, Zenon DEF BackupsTrue
  <2>4. ASSUME NEW p \in Profiles \ Excused PROVE ProfileTrue(p)
    BY <1>3, <1>4, <2>2 DEF ProfileTrue, Tool!Things
  <2>5. RadioTrue
    BY <1>1, <1>3, <1>4, <2>2 DEF RadioTrue, Tool!Things
  <2>6. QED
    BY <2>1, <2>2, <2>3, <2>4, <2>5, Zenon DEF WirelessInv
<1>7. LookInv
  BY <1>1 DEF LookInv, Cleaning
<1>8. QED
  BY <1>5, <1>6, <1>7

\* How profiles and the Snapshot change, step by step.
LEMMA LookStays ==
  ASSUME LookInv, UNCHANGED <<snap, backups>>, joined \subseteq joined',
         \A p \in Profiles : wifi'[p] = "active" => wifi[p] = "active" \/ p \in joined',
         run'.pc \in Cleaning \cup {"undo wireless"} =>
             run.pc \in Cleaning \cup {"undo wireless"}
  PROVE  LookInv'
<1>1. CASE run'.pc \in Cleaning \cup {"undo wireless"}
  <2>1. /\ \A p \in Profiles : wifi[p] = "active" => snap.wifi[p] = "active" \/ p \in joined
        /\ \A i \in 1..Len(backups) : snap.wifi[backups[i]] = "saved"
    BY <1>1 DEF LookInv
  <2>2. \A p \in Profiles : wifi'[p] = "active" => snap.wifi[p] = "active" \/ p \in joined'
    BY <2>1
  <2>3. QED
    BY <2>1, <2>2, Zenon DEF LookInv
<1>2. QED
  BY <1>1, Zenon DEF LookInv

LEMMA NextLook ==
  ASSUME Tool!TypeOK, RunInv, TruthInv, LookInv, Tool!ToolNext
  PROVE  LookInv'
<1>b. run \in RunType /\ backups \in Seq(Profiles) /\ wifi \in [Profiles -> {"gone", "saved", "active"}]
  BY RunParts, WirelessParts
<1>1. CASE QuietStep
  <2>1. UNCHANGED <<wifi, snap, backups, joined>>
    BY <1>1, QuietRest
  <2>2. run'.pc \in Cleaning \cup {"undo wireless"} => run.pc \in Cleaning
    BY <1>1, QuietGoes, QuietEarly DEF Cleaning
  <2>3. QED
    BY <2>1, <2>2, LookStays, Zenon
<1>2. CASE Tool!ReadService \/ Tool!DisableNow \/ Tool!UndoService
  BY <1>2, ServicesGo DEF LookInv
<1>3. CASE Tool!Snapshot
  <2>1. run.pc = "snapshot" /\ UNCHANGED <<wifi, backups>>
    BY <1>3, Zenon DEF Tool!Snapshot, Tool!host
  <2>2. backups = <<>>
    BY <2>1 DEF TruthInv, RunInv, Ended, WirelessInv, Early, NothingDone
  <2>3. CASE Tool!GoTo("audits")
    <3>1. run'.pc = "audits"
      BY <1>b, <2>3, GoToReads
    <3>2. QED
      BY <3>1 DEF LookInv, Cleaning
  <2>4. CASE snap' = [wifi |-> wifi, radio |-> radio]
    <3>1. snap'.wifi = wifi'
      BY <2>1, <2>4
    <3>2. \A i \in 1..Len(backups') : FALSE
      BY <2>1, <2>2, NothingListed, Zenon
    <3>3. QED
      BY <3>1, <3>2, Zenon DEF LookInv
  <2>5. QED
    BY <1>3, <2>3, <2>4, Zenon DEF Tool!Snapshot
<1>4. CASE Tool!DeleteProfile
  <2>1. run.pc = "delete" /\ UNCHANGED <<snap, joined>>
    BY <1>4, Zenon DEF Tool!DeleteProfile
  <2>2. \A p \in Profiles : wifi'[p] = "active" => wifi[p] = "active"
    <3>1. wifi' = wifi \/ \E p \in Profiles : wifi' = [wifi EXCEPT ![p] = "gone"]
      BY <1>4, Zenon DEF Tool!DeleteProfile, Tool!Left
    <3>2. QED
      BY <1>b, <3>1
  <2>3. CASE UNCHANGED backups
    BY <2>1, <2>2, <2>3, LookStays DEF Cleaning
  <2>4. CASE \E p \in Tool!Left : backups' = Append(backups, p)
    <3>1. PICK q \in Tool!Left : backups' = Append(backups, q)
      BY <2>4
    <3>2. /\ Len(backups') = Len(backups) + 1 /\ backups'[Len(backups) + 1] = q
          /\ \A i \in 1..Len(backups) : backups'[i] = backups[i]
          /\ Len(backups) \in Nat
      BY <1>b, <3>1, AppendReads, LengthTyped
    <3>3. \A i \in 1..Len(backups') : i \in 1..Len(backups) \/ i = Len(backups) + 1
      BY <3>2
    <3>4. /\ \A p \in Profiles : wifi[p] = "active" => snap.wifi[p] = "active" \/ p \in joined
          /\ \A i \in 1..Len(backups) : snap.wifi[backups[i]] = "saved"
      BY <2>1 DEF LookInv, Cleaning
    <3>5. snap.wifi[q] = "saved"
      BY DEF Tool!Left
    <3>6. \A i \in 1..Len(backups') : snap'.wifi[backups'[i]] = "saved"
      BY <2>1, <3>2, <3>3, <3>4, <3>5
    <3>7. QED
      BY <2>1, <2>2, <3>4, <3>6 DEF LookInv
  <2>5. QED
    BY <1>4, <2>3, <2>4, Zenon DEF Tool!DeleteProfile
<1>5. CASE Tool!RadioOff
  <2>1. run.pc = "profiles" /\ UNCHANGED <<snap, backups, joined>>
    BY <1>5, Zenon DEF Tool!RadioOff, Tool!local
  <2>2. \A p \in Profiles : wifi'[p] = "active" => wifi[p] = "active"
    <3>1. wifi' = wifi \/ wifi' = Tool!Disconnected
      BY <1>5, Zenon DEF Tool!RadioOff
    <3>2. CASE wifi' = Tool!Disconnected
      BY <3>2 DEF Tool!Disconnected
    <3>3. QED
      BY <3>1, <3>2
  <2>3. QED
    BY <2>1, <2>2, LookStays DEF Cleaning
<1>6. CASE Tool!UndoWireless
  <2>1. run.pc = "undo wireless" /\ UNCHANGED <<snap, joined>>
    BY <1>6, Zenon DEF Tool!UndoWireless, Tool!rest
  <2>2. \A p \in Profiles : wifi'[p] = "active" => wifi[p] = "active"
    <3>1. \/ wifi' = wifi
          \/ wifi' = [wifi EXCEPT ![backups[Len(backups)]] = "saved"]
      BY <1>6 DEF Tool!UndoWireless
    <3>2. QED
      BY <1>b, <3>1
  <2>3. CASE UNCHANGED backups
    BY <2>1, <2>2, <2>3, LookStays
  <2>4. CASE backups # <<>> /\ backups' = SubSeq(backups, 1, Len(backups) - 1)
    <3>1. /\ \A p \in Profiles : wifi[p] = "active" => snap.wifi[p] = "active" \/ p \in joined
          /\ \A i \in 1..Len(backups) : snap.wifi[backups[i]] = "saved"
      BY <2>1 DEF LookInv
    <3>2. /\ Len(backups') = Len(backups) - 1
          /\ \A i \in 1..Len(backups) - 1 : backups'[i] = backups[i]
          /\ \A i \in 1..Len(backups) - 1 : i \in 1..Len(backups)
      BY <1>b, <2>4, FrontTyped
    <3>3. \A i \in 1..Len(backups') : snap'.wifi[backups'[i]] = "saved"
      BY <2>1, <3>1, <3>2, Zenon
    <3>4. QED
      BY <2>1, <2>2, <3>1, <3>3 DEF LookInv
  <2>5. QED
    BY <1>6, <2>3, <2>4, Zenon DEF Tool!UndoWireless
<1>7. CASE Tool!Other
  <2>1. UNCHANGED <<run, snap, backups>>
    BY <1>7, Zenon DEF Tool!Other, Tool!local
  <2>2. /\ joined \subseteq joined'
        /\ \A p \in Profiles : wifi'[p] = "active" => wifi[p] = "active" \/ p \in joined'
    BY <1>b, <1>7, OthersDo DEF ServiceByOthers
  <2>3. QED
    BY <2>1, <2>2, LookStays
<1>8. QED
  BY <1>1, <1>2, <1>3, <1>4, <1>5, <1>6, <1>7, ToolStepKinds

LEMMA NextTruth == ToolInv /\ [Tool!ToolNext]_(Tool!toolVars) => ToolInv'
<1> SUFFICES ASSUME ToolInv, [Tool!ToolNext]_(Tool!toolVars) PROVE ToolInv'
  OBVIOUS
<1>1. Tool!TypeOK /\ RunInv /\ TruthInv /\ LookInv
  BY DEF ToolInv
<1>2. Tool!TypeOK' /\ RunInv'
  BY <1>1, NextToolTyped, NextRun
<1>3. CASE Tool!ToolNext
  <2>1. SUFFICES ASSUME run'.err # "rollback failed" PROVE ServiceInv' /\ WirelessInv'
    BY <1>1, <1>2, <1>3, NextLook DEF ToolInv, TruthInv
  <2>2. ServiceInv /\ WirelessInv
    BY <1>1, <1>3, <2>1, FailureStays DEF TruthInv
  <2>3. QED
    BY <1>1, <1>3, <2>1, <2>2, NextServices, NextWireless
<1>4. CASE UNCHANGED Tool!toolVars
  <2>1. UNCHANGED <<svc, wifi, radio, run, changed, snap, backups, actions, before, touched, joined,
                    unreported>>
    BY <1>4, Zenon DEF Tool!toolVars, Tool!host, Tool!local, Tool!rest
  <2>e. Excused' = Excused /\ Tool!Unit' = Tool!Unit
    BY <2>1 DEF Excused, Tool!Unit
  <2>2. ServiceInv => ServiceInv'
    BY <2>1, <2>e, Zenon DEF ServiceInv, ListTrue, ServiceTrue, InList, Pending, Is, Was
  <2>3. WirelessInv => WirelessInv'
    <3>1. (Early' <=> Early) /\ (NothingDone' <=> NothingDone) /\ (SnapshotTrue' <=> SnapshotTrue)
      BY <2>1, <2>e, Zenon DEF Early, NothingDone, SnapshotTrue
    <3>2. (BackupsTrue' <=> BackupsTrue) /\ (RadioTrue' <=> RadioTrue)
      BY <2>1, <2>e, Zenon DEF BackupsTrue, RadioTrue
    <3>3. \A p : ProfileTrue(p)' <=> ProfileTrue(p)
      BY <2>1, Zenon DEF ProfileTrue, BackedUp
    <3>4. QED
      BY <2>1, <2>e, <3>1, <3>2, <3>3, Zenon DEF WirelessInv
  <2>4. LookInv'
    BY <1>1, <2>1, LookStays, Zenon
  <2>5. QED
    BY <1>1, <1>2, <2>1, <2>2, <2>3, <2>4 DEF ToolInv, TruthInv
<1>5. QED
  BY <1>3, <1>4

LEMMA TruthIsTold == ToolInv => ActionsAreTrue
<1> SUFFICES ASSUME ToolInv, run.pc \in Ended, run.err # "rollback failed",
                    NEW x \in Tool!Things \ (touched \cup unreported)
             PROVE  Tool!Now(x) # Tool!Then(x) <=> actions[x] = "done"
  BY DEF ActionsAreTrue, Tool!ActionsAreTrue, Ended
<1>1. ServiceInv /\ WirelessInv
  BY DEF ToolInv, TruthInv
<1>2. run.pc # "undo" /\ run.pc # "undo wireless"
  BY DEF Ended
<1>3. CASE x \in Units
  <2>1. ServiceTrue(x) /\ ~Pending(x)
    BY <1>1, <1>3 DEF ServiceInv, Pending, Ended
  <2>2. QED
    BY <1>3, <2>1, Zenon DEF ServiceTrue, Is, Was, Tool!Now, Tool!Then
<1>4. CASE x \in Profiles
  <2>1. x \notin Units
    BY <1>4, ToolConstants
  <2>2. ProfileTrue(x)
    BY <1>1, <1>4 DEF WirelessInv, Excused
  <2>3. QED
    BY <1>2, <1>4, <2>1, <2>2 DEF ProfileTrue, Tool!Now, Tool!Then
<1>5. CASE x = Radio
  <2>1. x \notin Units /\ x \notin Profiles
    BY <1>5, ToolConstants
  <2>2. RadioTrue
    BY <1>1, <1>5 DEF WirelessInv, Excused
  <2>3. QED
    BY <1>2, <1>5, <2>1, <2>2 DEF RadioTrue, Tool!Now, Tool!Then
<1>6. QED
  BY <1>3, <1>4, <1>5 DEF Tool!Things

LEMMA BothInitTool == BothInit => ToolInv
  BY InitTool, InitTruth DEF ToolInv

LEMMA BothNextTool == ToolInv /\ [BothNext]_<<vars, tool>> => ToolInv'
  BY ToolSteps, NextTruth

(***************************************************************************)
(* The report of a Kylin tool says of every service, profile and of the    *)
(* Wi-Fi switch whether the run has changed it, and says so truly however  *)
(* the run ended, unless a rollback failed (internal/core/engine.go).      *)
(* Services are as systemctl tells them, and what a failing wireless       *)
(* command changed is left aside, as ActionsAreTrue says.                  *)
(***************************************************************************)
THEOREM ActionsAlwaysTrue == BothSpec => []ActionsAreTrue
<1>1. QED
  BY BothInitTool, BothNextTool, TruthIsTold, PTL DEF BothSpec

LEMMA NothingIsCut ==
  ASSUME ToolInv, [Tool!ToolNext]_(Tool!toolVars),
         NEW p \in Profiles, wifi[p] = "active", wifi'[p] # "active"
  PROVE  p \in joined
<1> SUFFICES ASSUME p \notin joined PROVE FALSE
  OBVIOUS
<1>1. Tool!TypeOK /\ RunInv /\ LookInv
  BY DEF ToolInv
<1>2. run.pc \in Cleaning \cup {"undo wireless"} => snap.wifi[p] = "active"
  BY <1>1 DEF LookInv
<1>3. CASE Tool!DeleteProfile
  <2>1. UNCHANGED wifi \/ \E q \in Tool!Left : wifi' = [wifi EXCEPT ![q] = "gone"]
    BY <1>3, Zenon DEF Tool!DeleteProfile
  <2>2. p \notin Tool!Left
    BY <1>2, <1>3 DEF Tool!DeleteProfile, Tool!Left, Cleaning
  <2>3. QED
    BY <1>1, <2>1, <2>2, WirelessParts
<1>4. CASE Tool!RadioOff
  <2>1. Tool!InUse
    BY <1>2, <1>4 DEF Tool!RadioOff, Tool!InUse, Cleaning
  <2>2. UNCHANGED wifi
    BY <1>4, <2>1, Zenon DEF Tool!RadioOff, Tool!RadioGoes
  <2>3. QED
    BY <2>2
<1>5. CASE Tool!UndoWireless
  <2>1. run.pc = "undo wireless"
    BY <1>5 DEF Tool!UndoWireless
  <2>2. \/ UNCHANGED wifi
        \/ backups # <<>> /\ wifi' = [wifi EXCEPT ![backups[Len(backups)]] = "saved"]
    BY <1>5 DEF Tool!UndoWireless
  <2>3. CASE backups # <<>> /\ wifi' = [wifi EXCEPT ![backups[Len(backups)]] = "saved"]
    <3>1. Len(backups) \in 1..Len(backups)
      <4>1. backups \in Seq(Profiles)
        BY <1>1, WirelessParts
      <4>2. QED
        BY <2>3, <4>1, FrontTyped, Zenon
    <3>2. backups[Len(backups)] = p
      BY <1>1, <2>3, WirelessParts
    <3>3. snap.wifi[p] = "saved"
      BY <1>1, <2>1, <3>1, <3>2 DEF LookInv
    <3>4. QED
      BY <1>2, <2>1, <3>3
  <2>4. QED
    BY <2>2, <2>3
<1>6. CASE QuietStep \/ Tool!ReadService \/ Tool!DisableNow \/ Tool!UndoService \/ Tool!Snapshot
  <2>1. UNCHANGED wifi
    BY <1>1, <1>6, QuietRest, ServicesGo, Zenon DEF Tool!Snapshot, Tool!host
  <2>2. QED
    BY <2>1
<1>7. CASE Tool!Other
  <2>1. UNCHANGED wifi \/ \E q \in Profiles : wifi' = [wifi EXCEPT ![q] = "active"]
    BY <1>7, Zenon DEF Tool!Other
  <2>2. QED
    BY <1>1, <2>1, WirelessParts
<1>8. CASE UNCHANGED Tool!toolVars
  <2>1. UNCHANGED wifi
    BY <1>8, Zenon DEF Tool!toolVars, Tool!host
  <2>2. QED
    BY <2>1
<1>9. QED
  BY <1>3, <1>4, <1>5, <1>6, <1>7, <1>8, ToolStepKinds

(***************************************************************************)
(* A Kylin tool cuts no wireless connection but those made after it had    *)
(* last looked, neither when it deletes profiles or switches Wi-Fi off nor *)
(* when it brings them back (internal/wireless/remediator.go).             *)
(***************************************************************************)
THEOREM ConnectionAlwaysKept == BothSpec => ConnectionKept
<1>1. ToolInv /\ [BothNext]_<<vars, tool>> =>
        [\A p \in Profiles : wifi[p] = "active" /\ wifi'[p] # "active" => p \in joined]_wifi
  BY ToolSteps, NothingIsCut
<1>2. QED
  BY <1>1, BothInitTool, BothNextTool, PTL DEF BothSpec, ConnectionKept, Tool!ConnectionKept

-----------------------------------------------------------------------------
(* The exit code.                                                          *)

\* The first n services of the list are off, leaving aside what others touched.
OffTo(n) == \A i \in 1..n : UnitOf[i] \in Units \ touched => Is(UnitOf[i]) = Tool!Off
Reading == run.acts /\ run.pc \in {"read"} \cup Stopping
AllStopped ==
    /\ run.full /\ run.mode # "audit"
    /\ \/ run.acts /\ run.pc \in {"snapshot", "audits"} \cup Cleaning
       \/ run.pc \in {"write", "upload"} /\ run.err = "none"
       \/ run.pc = "exited" /\ run.exit = 0
RepairInv ==
    /\ Reading => OffTo(run.next - 1)
    /\ AllStopped => OffTo(Targets)

\* Nothing but DisableNow, its rollback and others changes a service.
LEMMA OffStays ==
  ASSUME Tool!TypeOK, NEW n, OffTo(n), touched \subseteq touched',
         \A u \in Units \ touched' : svc'[u] = svc[u]
  PROVE  OffTo(n)'
  BY DEF OffTo, Is

LEMMA OthersStay ==
  ASSUME Tool!TypeOK, Tool!Other
  PROVE  /\ UNCHANGED run /\ touched \subseteq touched'
         /\ \A u \in Units \ touched' : svc'[u] = svc[u]
<1>1. UNCHANGED run
  BY Zenon DEF Tool!Other
<1>2. QED
  BY <1>1, OthersOnServices

LEMMA NothingYet == OffTo(0)
  BY DEF OffTo

LEMMA OneMore ==
  ASSUME NEW n \in Nat, n > 0, OffTo(n - 1), UnitOf[n] \in Units \ touched => Is(UnitOf[n]) = Tool!Off
  PROVE  OffTo(n)
<1>1. \A i \in 1..n : i \in 1..n - 1 \/ i = n
  OBVIOUS
<1>2. QED
  BY <1>1 DEF OffTo

LEMMA SameOff ==
  ASSUME UNCHANGED <<svc, touched>>, Reading' => OffTo(run'.next - 1),
         AllStopped' => OffTo(Targets)
  PROVE  RepairInv'
<1>1. \A n : OffTo(n)' <=> OffTo(n)
  BY Zenon DEF OffTo, Is
<1>2. OffTo(run.next - 1)' <=> OffTo(run'.next - 1)
  BY Zenon DEF OffTo, Is
<1>3. QED
  BY <1>1, <1>2, Zenon DEF RepairInv

\* A pass that ends with an error, or in the undoing of services, promises nothing.
LEMMA EndsInFailure ==
  ASSUME Tool!TypeOK, NEW err, err # "none", Tool!EndPass(err)
  PROVE  ~Reading' /\ ~AllStopped'
<1>1. run'.pc = "write" /\ run'.err = err
  BY RunParts, EndPassReads
<1>2. QED
  BY <1>1 DEF Reading, AllStopped, Stopping, Cleaning

LEMMA GoesOnWireless ==
  ASSUME Tool!TypeOK, run.pc \in {"snapshot"} \cup Cleaning, RepairInv,
         NEW pc \in {"audits", "undo wireless"} \cup Cleaning, run'.pc = pc,
         SameCall, run'.acts = run.acts, UNCHANGED <<svc, touched>>
  PROVE  RepairInv'
<1>1. ~Reading' /\ (AllStopped' => AllStopped)
  BY DEF Reading, AllStopped, Stopping, Cleaning, SameCall
<1>2. QED
  BY <1>1, SameOff DEF RepairInv

LEMMA ReadRepairs ==
  ASSUME Tool!TypeOK, RunInv, RepairInv, Tool!ReadService
  PROVE  RepairInv'
<1> USE RunParts
<1>1. run.pc = "read" /\ run.next \in 1..Targets /\ UNCHANGED <<svc, touched>>
  <2>1. run.pc = "read" /\ run.next <= Targets /\ UNCHANGED <<svc, touched>>
    BY DEF Tool!ReadService, Tool!host, Tool!rest
  <2>2. QED
    BY <2>1, ToolConstants
<1>2. run.acts => OffTo(run.next - 1)
  BY <1>1 DEF RepairInv, Reading
<1>3. CASE Tool!EndPass("failed")
  BY <1>1, <1>3, EndsInFailure, SameOff
<1>4. CASE ~Tool!MustStop /\ Tool!NextService
  <2>1. run'.acts = run.acts /\ run'.next = run.next + 1 /\ run'.pc = "read"
    BY <1>4, NextServiceReads
  <2>2. ASSUME run.acts, UnitOf[run.next] \in Units \ touched
        PROVE  Is(UnitOf[run.next]) = Tool!Off
    <3>1. CASE UnitOf[run.next] \in Tool!Seen
      <4>1. PICK i \in 1..run.next - 1 : UnitOf[run.next] = UnitOf[i]
        BY <3>1 DEF Tool!Seen
      <4>2. QED
        BY <1>2, <2>2, <4>1 DEF OffTo
    <3>2. CASE UnitOf[run.next] \notin Tool!Seen
      BY <1>4, <2>2, <3>2, ToolConstants DEF Tool!MustStop, Tool!Unit, Is
    <3>3. QED
      BY <3>1, <3>2
  <2>3. run.acts => OffTo(run.next)
    <3>1. run.next \in Nat /\ run.next > 0
      BY <1>1
    <3>2. QED
      BY <1>2, <2>2, <3>1, OneMore
  <2>4. run'.next - 1 = run.next
    BY <1>1, <2>1
  <2>5. ~AllStopped' /\ (Reading' => OffTo(run'.next - 1))
    BY <2>1, <2>3, <2>4 DEF AllStopped, Cleaning, Reading
  <2>6. QED
    BY <1>1, <2>5, SameOff
<1>5. CASE Tool!GoTo("disable")
  <2>1. run'.acts = run.acts /\ run'.next = run.next /\ run'.pc = "disable"
    BY <1>5, GoToReads DEF SameWork
  <2>2. ~AllStopped' /\ (Reading' => OffTo(run'.next - 1))
    BY <1>2, <2>1 DEF AllStopped, Cleaning, Reading
  <2>3. QED
    BY <1>1, <2>2, SameOff
<1>6. QED
  BY <1>3, <1>4, <1>5, Zenon DEF Tool!ReadService

LEMMA DisableRepairs ==
  ASSUME Tool!TypeOK, RunInv, RepairInv, Tool!DisableNow
  PROVE  RepairInv'
<1> USE RunParts
<1>1. run.pc = "disable" /\ run.acts /\ UNCHANGED touched
  BY DEF Tool!DisableNow, Tool!rest, RunInv, Stopping
<1>2. CASE Tool!GoTo("undo")
  <2>1. run'.pc = "undo"
    BY <1>2, GoToReads
  <2>2. QED
    BY <2>1 DEF RepairInv, Reading, AllStopped, Stopping, Cleaning
<1>3. CASE Tool!GoTo("recheck")
  <2>1. run'.pc = "recheck" /\ run'.next = run.next
    BY <1>3, GoToReads DEF SameWork
  <2>2. OffTo(run.next - 1)
    BY <1>1 DEF RepairInv, Reading, Stopping
  <2>3. ASSUME NEW u \in Units, Is(u) = Tool!Off PROVE Is(u)' = Tool!Off
    <3>1. Tool!Unit \in Units /\ svc \in [Units -> Tool!ServiceStates]
      BY <1>1, ServiceParts DEF RunInv, Stopping, Tool!Unit
    <3>2. PICK s \in Tool!ServiceStates :
            /\ svc' = [svc EXCEPT ![Tool!Unit] = s]
            /\ Below(Tool!Told(s), Is(Tool!Unit))
      BY <3>1, DisableReads DEF Is
    <3>3. CASE u = Tool!Unit
      <4>1. Is(u)' = Tool!Told(s)
        BY <3>1, <3>2, <3>3 DEF Is
      <4>2. Tool!Told(s) \in ToldStates /\ Below(Tool!Told(s), Tool!Off)
        BY <2>3, <3>2, <3>3, ToldTyped
      <4>3. QED
        BY <4>1, <4>2, BelowFacts
    <3>4. CASE u # Tool!Unit
      BY <2>3, <3>1, <3>2, <3>4 DEF Is
    <3>5. QED
      BY <3>3, <3>4
  <2>4. OffTo(run.next - 1)'
    <3>1. \A i \in 1..run.next - 1 : UnitOf[i] \in Units \ touched => Is(UnitOf[i])' = Tool!Off
      BY <2>2, <2>3 DEF OffTo
    <3>2. QED
      BY <1>1, <2>1, <3>1, Zenon DEF OffTo
  <2>5. ~AllStopped'
    BY <2>1 DEF AllStopped, Cleaning
  <2>6. QED
    BY <2>4, <2>5 DEF RepairInv
<1>4. QED
  BY <1>2, <1>3, Zenon DEF Tool!DisableNow

LEMMA UndoRepairs ==
  ASSUME Tool!TypeOK, Tool!UndoService
  PROVE  RepairInv'
<1>1. \/ run.pc = "undo" /\ UNCHANGED run
      \/ Tool!EndPass("rolled back") \/ Tool!EndPass("rollback failed")
  BY Zenon DEF Tool!UndoService
<1>2. ~Reading' /\ ~AllStopped'
  <2>1. CASE run.pc = "undo" /\ UNCHANGED run
    BY <2>1 DEF Reading, AllStopped, Stopping, Cleaning
  <2>2. QED
    BY <1>1, <2>1, EndsInFailure
<1>3. QED
  BY <1>2 DEF RepairInv

LEMMA WirelessRepairs ==
  ASSUME Tool!TypeOK, RunInv, RepairInv,
         Tool!Snapshot \/ Tool!DeleteProfile \/ Tool!RadioOff \/ Tool!UndoWireless
  PROVE  RepairInv'
<1> USE RunParts
<1>1. UNCHANGED <<svc, touched>>
  BY WirelessGoes
<1>2. CASE Tool!Snapshot \/ Tool!DeleteProfile \/ Tool!RadioOff
  <2>1. run.pc \in {"snapshot"} \cup Cleaning
    BY <1>2 DEF Tool!Snapshot, Tool!DeleteProfile, Tool!RadioOff, Cleaning
  <2>2. \/ Tool!GoTo("audits") \/ Tool!GoTo("profiles") \/ Tool!GoTo("undo wireless")
        \/ Tool!GoTo("check") \/ run' = [run EXCEPT !.pc = "check", !.radioOff = TRUE]
    BY <1>2 DEF Tool!Snapshot, Tool!DeleteProfile, Tool!RadioOff
  <2>3. /\ SameCall /\ run'.acts = run.acts
        /\ run'.pc \in {"audits", "profiles", "undo wireless", "check"}
    <3>1. CASE run' = [run EXCEPT !.pc = "check", !.radioOff = TRUE]
      BY <3>1 DEF RunType, SameCall
    <3>2. QED
      BY <2>2, <3>1, GoToReads DEF SameWork
  <2>4. run'.pc \in {"audits", "undo wireless"} \cup Cleaning
    BY <2>3 DEF Cleaning
  <2>5. QED
    BY <1>1, <2>1, <2>3, <2>4, GoesOnWireless
<1>3. CASE Tool!UndoWireless
  <2>1. \/ Tool!EndPass("rolled back") \/ Tool!EndPass("rollback failed")
        \/ run.pc = "undo wireless" /\ UNCHANGED run
        \/ run.pc = "undo wireless" /\ run' = [run EXCEPT !.radioOff = FALSE]
    BY <1>3, Zenon DEF Tool!UndoWireless
  <2>2. CASE run.pc = "undo wireless" /\ run' = [run EXCEPT !.radioOff = FALSE]
    <3>1. run'.pc = "undo wireless"
      BY <2>2 DEF RunType
    <3>2. QED
      BY <3>1 DEF RepairInv, Reading, AllStopped, Stopping, Cleaning
  <2>3. CASE run.pc = "undo wireless" /\ UNCHANGED run
    BY <2>3 DEF RepairInv, Reading, AllStopped, Stopping, Cleaning
  <2>4. QED
    BY <2>1, <2>2, <2>3, EndsInFailure DEF RepairInv
<1>4. QED
  BY <1>2, <1>3

LEMMA QuietRepairs ==
  ASSUME Tool!TypeOK, RunInv, RepairInv, QuietStep
  PROVE  RepairInv'
<1> USE RunParts
<1>1. UNCHANGED <<svc, touched>>
  BY QuietRest
<1>2. CASE Tool!Start
  <2>1. \/ /\ run'.pc = (IF run'.full THEN "firewall" ELSE "snapshot")
        \/ run'.pc = "write" /\ run'.err = "failed"
        \/ run'.pc = "exited" /\ run'.exit = 2
    BY <1>2, StartReads
  <2>2. ~Reading' /\ ~AllStopped'
    BY <2>1 DEF Reading, AllStopped, Stopping, Cleaning
  <2>3. QED
    BY <2>2 DEF RepairInv
<1>3. CASE Tool!OtherComponent
  <2>1. CASE run.pc = "firewall" /\ Tool!GoTo("read")
    <3>1. run.next = 1
      BY <2>1 DEF RunInv
    <3>2. run'.pc = "read" /\ run'.next = 1
      BY <2>1, <3>1, GoToReads DEF SameWork
    <3>3. run'.next - 1 = 0
      BY <3>2
    <3>4. OffTo(run'.next - 1) /\ ~AllStopped'
      BY <3>2, <3>3, NothingYet DEF AllStopped, Cleaning
    <3>5. QED
      BY <1>1, <3>4, SameOff
  <2>2. CASE run.pc = "audits" /\ Tool!EndPass("none")
    <3>1. run.err = "none"
      BY <2>2 DEF RunInv, Ended
    <3>2. /\ SameCall
          /\ \/ /\ ~run.acts /\ run'.pc = IF run.full THEN "firewall" ELSE "snapshot"
             \/ /\ run.acts \/ run.mode = "audit"
                /\ run'.pc = "write"
      BY <2>2, EndPassReads
    <3>3. ~Reading' /\ (AllStopped' => AllStopped)
      BY <2>2, <3>2 DEF SameCall, Reading, AllStopped, Stopping, Cleaning
    <3>4. QED
      BY <1>1, <3>3, SameOff DEF RepairInv
  <2>3. QED
    BY <1>3, <2>1, <2>2, EndsInFailure, Zenon DEF Tool!OtherComponent, RepairInv
<1>4. CASE Tool!ServicesDone
  <2>1. run.pc = "read" /\ run.next > Targets /\ Tool!GoTo("snapshot")
    BY <1>4, Zenon DEF Tool!ServicesDone
  <2>2. run'.pc = "snapshot" /\ run'.acts = run.acts
    BY <2>1, GoToReads DEF SameWork
  <2>3. run.next - 1 = Targets
    BY <2>1, ToolConstants
  <2>4. run.acts => OffTo(Targets)
    BY <2>1, <2>3 DEF RepairInv, Reading
  <2>5. ~Reading' /\ (AllStopped' => OffTo(Targets))
    BY <2>2, <2>4 DEF Reading, AllStopped, Stopping
  <2>6. QED
    BY <1>1, <2>5, SameOff
<1>5. CASE Tool!RecheckService
  <2>1. run.pc = "recheck" /\ run.acts /\ run.next \in 1..Targets
    <3>1. run.pc = "recheck" /\ run.acts /\ run.next <= Targets
      BY <1>5 DEF Tool!RecheckService, RunInv, Stopping
    <3>2. QED
      BY <3>1, ToolConstants
  <2>2. CASE Tool!GoTo("undo")
    <3>1. run'.pc = "undo"
      BY <2>2, GoToReads
    <3>2. QED
      BY <3>1 DEF RepairInv, Reading, AllStopped, Stopping, Cleaning
  <2>3. CASE Is(Tool!Unit) = Tool!Off /\ Tool!NextService
    <3>1. run'.next = run.next + 1 /\ run'.pc = "read"
      BY <2>3, NextServiceReads
    <3>2. OffTo(run.next - 1)
      BY <2>1 DEF RepairInv, Reading, Stopping
    <3>3. run.next \in Nat /\ run.next > 0 /\ run'.next - 1 = run.next
      BY <2>1, <3>1
    <3>4. OffTo(run.next)
      BY <2>3, <3>2, <3>3, OneMore DEF Tool!Unit
    <3>5. ~AllStopped'
      BY <3>1 DEF AllStopped, Cleaning
    <3>6. QED
      BY <1>1, <3>3, <3>4, <3>5, SameOff
  <2>4. QED
    BY <1>5, <2>2, <2>3, Zenon DEF Tool!RecheckService, Is
<1>6. CASE Tool!BackupProfile \/ Tool!CheckWireless
  <2>1. run.pc \in {"snapshot"} \cup Cleaning
    BY <1>6 DEF Tool!BackupProfile, Tool!CheckWireless, Cleaning
  <2>2. \/ Tool!EndPass("backup failed")
        \/ Tool!GoTo("delete") \/ Tool!GoTo("audits") \/ Tool!GoTo("undo wireless")
    BY <1>6, Zenon DEF Tool!BackupProfile, Tool!CheckWireless
  <2>3. CASE Tool!EndPass("backup failed")
    BY <2>3, EndsInFailure DEF RepairInv
  <2>4. CASE Tool!GoTo("delete") \/ Tool!GoTo("audits") \/ Tool!GoTo("undo wireless")
    <3>1. /\ SameCall /\ run'.acts = run.acts
          /\ run'.pc \in {"delete", "audits", "undo wireless"}
      BY <2>4, GoToReads DEF SameWork
    <3>2. run'.pc \in {"audits", "undo wireless"} \cup Cleaning
      BY <3>1 DEF Cleaning
    <3>3. QED
      BY <1>1, <2>1, <3>1, <3>2, GoesOnWireless
  <2>5. QED
    BY <2>2, <2>3, <2>4
<1>7. CASE Tool!WriteReport \/ Tool!UploadFailed \/ Tool!Uploaded
  <2>1. run.pc \in {"write", "upload"}
    BY <1>7 DEF Tool!WriteReport, Tool!UploadFailed, Tool!Uploaded
  <2>2. \/ Tool!GoTo("upload")
        \/ Tool!ExitWith(Tool!Verdict) \/ Tool!ExitWith(1) \/ Tool!ExitWith(3)
    BY <1>7, Zenon DEF Tool!WriteReport, Tool!UploadFailed, Tool!Uploaded
  <2>3. /\ SameCall /\ run'.err = run.err
        /\ run'.pc = "upload" \/ (run'.pc = "exited" /\ (run'.exit = 0 => run.err = "none"))
    <3>1. CASE Tool!GoTo("upload")
      BY <3>1, GoToReads
    <3>2. CASE Tool!ExitWith(Tool!Verdict)
      <4>1. SameCall /\ run'.err = run.err /\ run'.pc = "exited" /\ run'.exit = Tool!Verdict
        BY <3>2, ExitReads
      <4>2. Tool!Verdict = 0 => run.err = "none"
        BY DEF Tool!Verdict
      <4>3. QED
        BY <4>1, <4>2
    <3>3. CASE Tool!ExitWith(1) \/ Tool!ExitWith(3)
      <4>1. SameCall /\ run'.err = run.err /\ run'.pc = "exited" /\ run'.exit \in {1, 3}
        BY <3>3, ExitReads
      <4>2. QED
        BY <4>1
    <3>4. QED
      BY <2>2, <3>1, <3>2, <3>3
  <2>4. ~Reading' /\ (AllStopped' => AllStopped)
    BY <2>1, <2>3 DEF SameCall, Reading, AllStopped, Stopping, Cleaning
  <2>5. QED
    BY <1>1, <2>4, SameOff DEF RepairInv
<1>8. QED
  BY <1>2, <1>3, <1>4, <1>5, <1>6, <1>7, Zenon DEF QuietStep

LEMMA NextRepair ==
  ASSUME Tool!TypeOK, RunInv, RepairInv, [Tool!ToolNext]_(Tool!toolVars)
  PROVE  RepairInv'
<1>1. CASE Tool!Other
  <2>1. UNCHANGED run /\ \A n : OffTo(n) => OffTo(n)'
    BY <1>1, OthersStay, OffStays
  <2>2. (Reading' <=> Reading) /\ (AllStopped' <=> AllStopped)
    BY <2>1, Zenon DEF Reading, AllStopped
  <2>3. OffTo(run.next - 1) => OffTo(run.next - 1)'
    BY <1>1, OthersStay DEF OffTo, Is
  <2>4. QED
    BY <2>1, <2>2, <2>3, Zenon DEF RepairInv
<1>2. CASE UNCHANGED Tool!toolVars
  <2>1. UNCHANGED <<svc, run, touched>>
    BY <1>2, Zenon DEF Tool!toolVars, Tool!host, Tool!rest
  <2>2. QED
    BY <2>1, Zenon DEF RepairInv, Reading, AllStopped, OffTo, Is
<1>3. QED
  BY <1>1, <1>2, ToolStepKinds, QuietRepairs, ReadRepairs, DisableRepairs, UndoRepairs,
     WirelessRepairs

-----------------------------------------------------------------------------
(* The upload.                                                             *)

UploadInv == run.pc = "exited" /\ run.exit = 0 /\ run.upload => Batch(Home) \in acknowledged

LEMMA HomeIsTerminal == Home \in Terminals
  BY ReportsAssumption DEF Terminals

\* While the tool of Home does not begin a new report, its batch stays.
LEMMA OtherSenders ==
  ASSUME TypeOK, AtReport, DirectoryStep
  PROVE  Batch(Home)' = Batch(Home) /\ acknowledged \subseteq acknowledged'
<1>1. CASE \E t \in Terminals \ {Home} : ToolStep(t)
  <2>1. PICK t \in Terminals \ {Home} : ToolStep(t)
    BY <1>1
  <2>2. sender'[Home] = sender[Home]
    BY <2>1, HomeIsTerminal, ToolReads
  <2>3. acknowledged \subseteq acknowledged'
    BY <2>1 DEF ToolStep, UploadStep, Report, OpenFile, FillFile, PutFails, OpenSession,
       NoSession, TimeOut, Answered, FileSent, Acknowledge, seen
  <2>4. QED
    BY <2>2, <2>3 DEF Batch
<1>2. CASE OthersStep
  BY <1>2, OthersObserve DEF Batch
<1>3. QED
  BY <1>1, <1>2 DEF DirectoryStep, OthersStep

LEMMA UploadSenders ==
  ASSUME TypeOK, AtReport, Upload
  PROVE  Batch(Home)' = Batch(Home)
<1>1. UploadStep(Home)
  BY DEF Upload
<1>2. sender[Home].pc # "rest"
  BY <1>1 DEF UploadStep, OpenFile, FillFile, PutFails, OpenSession, NoSession, TimeOut, Answered,
     Awaited, Kinds
<1>3. ToolStep(Home) /\ ~Report(Home)
  BY <1>1, <1>2 DEF ToolStep, Report
<1>4. QED
  BY <1>3, HomeIsTerminal, ToolReads DEF Batch

\* Before the report is written, the tool only ends at once, because it was
\* called in a wrong way.
LEMMA HostExit ==
  ASSUME Tool!TypeOK, RunInv, Tool!HostStep
  PROVE  run'.pc = "exited" => run'.exit = 2
<1> USE RunParts
<1>g. ASSUME NEW pc, Tool!GoTo(pc) PROVE run'.pc = pc
  BY <1>g, GoToReads
<1>n. Tool!NextService => run'.pc = "read"
  BY NextServiceReads
<1>e. ASSUME NEW err, Tool!EndPass(err) PROVE run'.pc \in {"firewall", "snapshot", "write"}
  BY <1>e, EndPassReads
<1>1. CASE Tool!Start
  BY <1>1, StartReads
<1>2. CASE Tool!Other
  BY <1>2 DEF Tool!Other
<1>3. CASE Tool!ReadService \/ Tool!DisableNow \/ Tool!UndoService
  <2>1. \/ UNCHANGED run \/ Tool!NextService
        \/ Tool!GoTo("disable") \/ Tool!GoTo("recheck") \/ Tool!GoTo("undo")
        \/ Tool!EndPass("failed") \/ Tool!EndPass("rolled back") \/ Tool!EndPass("rollback failed")
    BY <1>3, Zenon DEF Tool!ReadService, Tool!DisableNow, Tool!UndoService
  <2>2. run.pc # "exited"
    BY <1>3 DEF Tool!ReadService, Tool!DisableNow, Tool!UndoService
  <2>3. run'.pc \in {run.pc, "read", "disable", "recheck", "undo", "firewall", "snapshot", "write"}
    BY <2>1, <1>g, <1>n, <1>e
  <2>4. QED
    BY <2>2, <2>3
<1>4. CASE Tool!Snapshot \/ Tool!DeleteProfile \/ Tool!RadioOff
  <2>1. \/ Tool!GoTo("audits") \/ Tool!GoTo("profiles") \/ Tool!GoTo("undo wireless")
        \/ Tool!GoTo("check") \/ run' = [run EXCEPT !.pc = "check", !.radioOff = TRUE]
    BY <1>4 DEF Tool!Snapshot, Tool!DeleteProfile, Tool!RadioOff
  <2>2. run' = [run EXCEPT !.pc = "check", !.radioOff = TRUE] => run'.pc = "check"
    BY DEF RunType
  <2>3. run'.pc \in {"audits", "profiles", "undo wireless", "check"}
    BY <2>1, <2>2, <1>g
  <2>4. QED
    BY <2>3
<1>5. CASE Tool!UndoWireless
  <2>1. \/ Tool!EndPass("rolled back") \/ Tool!EndPass("rollback failed")
        \/ run.pc = "undo wireless" /\ UNCHANGED run
        \/ run.pc = "undo wireless" /\ run' = [run EXCEPT !.radioOff = FALSE]
    BY <1>5, Zenon DEF Tool!UndoWireless
  <2>2. CASE run.pc = "undo wireless" /\ run' = [run EXCEPT !.radioOff = FALSE]
    BY <2>2 DEF RunType
  <2>3. QED
    BY <2>1, <2>2, EndPassReads
<1>6. CASE \/ Tool!OtherComponent \/ Tool!ServicesDone \/ Tool!RecheckService
           \/ Tool!BackupProfile \/ Tool!CheckWireless
  <2>1. \/ Tool!GoTo("read") \/ Tool!GoTo("snapshot") \/ Tool!GoTo("undo") \/ Tool!GoTo("delete")
        \/ Tool!GoTo("audits") \/ Tool!GoTo("undo wireless") \/ Tool!NextService
        \/ Tool!EndPass("failed") \/ Tool!EndPass("none") \/ Tool!EndPass("backup failed")
    BY <1>6, Zenon DEF Tool!OtherComponent, Tool!ServicesDone, Tool!RecheckService,
       Tool!BackupProfile, Tool!CheckWireless
  <2>2. run'.pc \in {"read", "snapshot", "undo", "delete", "audits", "undo wireless",
                     "firewall", "write"}
    BY <2>1, <1>g, <1>n, <1>e
  <2>3. QED
    BY <2>2
<1>7. QED
  BY <1>1, <1>2, <1>3, <1>4, <1>5, <1>6, Zenon DEF Tool!HostStep

LEMMA NextUpload ==
  ASSUME TypeOK, AtReport, Tool!TypeOK, RunInv, UploadInv, [BothNext]_<<vars, tool>>
  PROVE  UploadInv'
<1> USE RunParts
<1>1. CASE Tool!HostStep /\ UNCHANGED vars
  BY <1>1, HostExit DEF UploadInv
<1>2. CASE WriteReport
  <2>1. \/ Tool!GoTo("upload") \/ Tool!ExitWith(1)
        \/ Tool!ExitWith(Tool!Verdict) /\ ~run.upload
    BY <1>2, Zenon DEF WriteReport, Tool!WriteReport
  <2>2. run'.pc = "upload" \/ run'.exit = 1 \/ ~run'.upload
    BY <2>1, GoToReads, ExitReads DEF SameCall
  <2>3. QED
    BY <2>2 DEF UploadInv
<1>3. CASE Upload
  <2>1. run.pc = "upload" /\ Batch(Home)' = Batch(Home)
    BY <1>3, UploadSenders DEF Upload
  <2>2. \/ UNCHANGED run \/ Batch(Home) \in acknowledged' \/ Tool!ExitWith(3)
    BY <1>3, Zenon DEF Upload, tool, Tool!UploadFailed
  <2>3. Tool!ExitWith(3) => run'.exit = 3
    BY ExitReads
  <2>4. QED
    BY <2>1, <2>2, <2>3 DEF UploadInv
<1>4. CASE DirectoryStep /\ UNCHANGED tool
  <2>1. UNCHANGED run
    BY <1>4 DEF tool
  <2>2. QED
    BY <1>4, <2>1, OtherSenders DEF UploadInv
<1>5. CASE UNCHANGED <<vars, tool>>
  <2>1. UNCHANGED <<run, sender, acknowledged>>
    BY <1>5 DEF tool, vars, seen
  <2>2. QED
    BY <2>1, Zenon DEF UploadInv, Batch
<1>6. QED
  BY <1>1, <1>2, <1>3, <1>4, <1>5 DEF BothNext

BothInv == Shape /\ AllSafe /\ ToolInv /\ RepairInv /\ UploadInv

LEMMA InitBoth == BothInit => BothInv
<1> SUFFICES ASSUME BothInit PROVE BothInv
  OBVIOUS
<1>1. Shape /\ AllSafe
  BY InitTyped, InitOrdered, InitProgress DEF BothInit, Shape
<1>2. ToolInv
  BY BothInitTool
<1>3. RepairInv /\ UploadInv
  BY DEF BothInit, Tool!Init, RepairInv, Reading, AllStopped, Stopping, Cleaning, UploadInv
<1>4. QED
  BY <1>1, <1>2, <1>3 DEF BothInv

LEMMA NextBoth == BothInv /\ [BothNext]_<<vars, tool>> => BothInv'
<1> SUFFICES ASSUME BothInv, [BothNext]_<<vars, tool>> PROVE BothInv'
  OBVIOUS
<1>1. Shape' /\ AllSafe'
  BY DirectorySteps, NextShape, NextSafe DEF BothInv
<1>2. ToolInv'
  BY BothNextTool DEF BothInv
<1>3. RepairInv'
  BY ToolSteps, NextRepair DEF BothInv, ToolInv
<1>4. UploadInv'
  BY NextUpload DEF BothInv, Shape, ToolInv
<1>5. QED
  BY <1>1, <1>2, <1>3, <1>4 DEF BothInv

LEMMA DoneIsDone == BothInv => ZeroMeansDone
<1> SUFFICES ASSUME BothInv, run.pc = "exited", run.exit = 0, run.mode = "repair"
             PROVE  /\ \A u \in Units \ touched :
                         (\E i \in 1..Targets : UnitOf[i] = u) => Tool!Told(svc[u]) = Tool!Off
                    /\ run.upload => Kept(Batch(Home))
  BY Zenon DEF ZeroMeansDone
<1>1. AllStopped
  BY DEF BothInv, ToolInv, RunInv, AllStopped
<1>2. OffTo(Targets)
  BY <1>1 DEF BothInv, RepairInv
<1>3. \A u \in Units \ touched : (\E i \in 1..Targets : UnitOf[i] = u) => Tool!Told(svc[u]) = Tool!Off
  BY <1>2 DEF OffTo, Is
<1>4. run.upload => Kept(Batch(Home))
  BY SafeIsKept DEF BothInv, UploadInv, AcknowledgedReportKept
<1>5. QED
  BY <1>3, <1>4

(***************************************************************************)
(* Where a repair of a Kylin tool ends with 0, every service of the list   *)
(* that nobody else touched is told to be off, and the directory keeps the *)
(* report it uploaded, or a newer one, with the exceptions of Kept         *)
(* (internal/app/app.go, internal/ftpclient/client.go).                    *)
(***************************************************************************)
THEOREM ZeroAlwaysMeansDone == BothSpec => []ZeroMeansDone
<1>1. QED
  BY InitBoth, NextBoth, DoneIsDone, PTL DEF BothSpec

(***************************************************************************)
(* The directory keeps its promises with a tool at work whose upload       *)
(* decides about its exit code.                                            *)
(***************************************************************************)
THEOREM DirectoryStillSafe ==
  BothSpec => [](AcknowledgedReportKept /\ NewestReported /\ MacDecides /\ WorstFindingShown)
<1>1. QED
  BY PartsImplemented, AcknowledgedAlwaysKept, NewestAlwaysReported, MacAlwaysDecides,
     WorstFindingAlwaysShown, PTL
=============================================================================
