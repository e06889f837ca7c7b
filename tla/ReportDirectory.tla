-------------------------- MODULE ReportDirectory --------------------------
(***************************************************************************)
(* The FTP directory and those who work on it at the same time: Windows    *)
(* tools that put two files into an ordinary FTP server                    *)
(* (src/src/ftp_inspector.cpp), Kylin tools that send them to the verifying *)
(* receiver or to an ordinary server that knows neither SITE SHA256 nor    *)
(* ALLO (internal/ftpclient, internal/ftpreceiver), the pruner             *)
(* (src/src/ftp_report_pruner.cpp) and the exporter                        *)
(* (src/src/report_issue_exporter.cpp).                                    *)
(***************************************************************************)
EXTENDS IssueSummary

CONSTANTS Windows, Kylin,   \* terminals, as file names tell them apart
          Machine,          \* Machine[t]: platform, ip and mac in its reports
          MaxStamp,         \* bound: reports of a terminal
          MaxAttempts,      \* 3, for a pair (Windows) or a file (Kylin)
          MaxFaults,        \* bound: failing file operations, crashes, late transfers
          Findings,         \* [issues, review] of a terminal
          Tables            \* tables of persons

Terminals == Windows \cup Kylin
Stamps == 1..MaxStamp
Batches == Terminals \X Stamps
Kinds == {"html", "json"}

ASSUME DirectoryAssumption ==
    /\ Windows \cap Kylin = {} /\ MaxStamp \in Nat
    /\ MaxAttempts \in Nat \ {0} /\ MaxFaults \in Nat
    /\ \A f \in Findings : f.issues \subseteq {"low", "medium", "high"} /\ f.review \in BOOLEAN

VARIABLES files,        \* files[b][k]: "none", "part" or "whole"
          sender,       \* sender[t]: the tool at terminal t
          sessions,     \* transfers a server works on
          pruner, exporter,
          sheet,        \* the terminal sheet of the workbook
          faults,
          found, table, \* what was found, who owns what; do not change
          verified,     \* terminals that upload to the receiver; does not change
          \* what was observed:
          acknowledged, \* batches a tool has called uploaded
          torn,         \* <<b, k>>: the receiver was cut off when it replaced that
                        \* file, or a transfer given up has emptied it; until it
                        \* is written or deleted again
          stable        \* pairs readable since the exporter has started

given == <<found, table, verified>>
seen == <<acknowledged, torn>>
vars == <<files, sender, sessions, pruner, exporter, sheet, faults, given, seen,
          stable>>

Missing == [k \in Kinds |-> "none"]
Paired(b) == files[b].html # "none" /\ files[b].json # "none"
Readable(b) == files[b].html # "none" /\ files[b].json = "whole"

Resting == [pc |-> "rest"]
\* A directory in which there may be reports already, whole or damaged.
Init ==
    /\ files \in [Batches -> [Kinds -> {"none", "part", "whole"}]]
    /\ verified \subseteq Kylin
    /\ \A b \in Batches : b[1] \in verified => \A k \in Kinds : files[b][k] # "part"
    /\ \E last \in [Terminals -> 0..MaxStamp] :
         /\ \A b \in Batches : b[2] > last[b[1]] => files[b] = Missing
         /\ sender = [t \in Terminals |-> [pc |-> "rest", stamp |-> last[t],
                                           attempt |-> 1]]
    /\ sessions = {}
    /\ pruner = [pc |-> "rest", todo |-> {}]
    /\ exporter = [pc |-> "rest", todo |-> {}, late |-> {}, loaded |-> {},
                   exit |-> 0]
    /\ sheet = {}
    /\ faults \in 0..MaxFaults
    /\ found \in [Terminals -> Findings] /\ table \in Tables
    /\ acknowledged = {} /\ torn = {} /\ stable = {}

Fault == faults < MaxFaults /\ faults' = faults + 1
Put(b, k, state) == files' = [files EXCEPT ![b][k] = state]
Batch(t) == <<t, sender[t].stamp>>
\* The pairs the exporter in any case finds readable.
Observe == stable' = IF exporter'.pc # "reading" /\ exporter.pc # "reading" THEN {}
                     ELSE {b \in IF exporter.pc = "rest" THEN Batches ELSE stable :
                             Readable(b) /\ Readable(b)'}
Go(t, pc) == sender' = [sender EXCEPT ![t].pc = pc]

-----------------------------------------------------------------------------
(* A tool has made its report and uploads it: html and json (Windows), json *)
(* and html (Kylin).                                                       *)

FirstFile(t) == IF t \in Windows THEN "html" ELSE "json"
OtherFile(k) == IF k = "html" THEN "json" ELSE "html"
\* One attempt at one file.
Session(t, kind) == [from |-> t, stamp |-> sender[t].stamp, kind |-> kind,
                     no |-> sender[t].attempt]
FileAt(t) == IF sender[t].pc \in {"json", "put json", "wait json"} THEN "json" ELSE "html"

Report(t) ==
    /\ sender[t].pc = "rest" /\ sender[t].stamp < MaxStamp
    /\ sender' = [sender EXCEPT ![t] =
         [pc |-> FirstFile(t), stamp |-> @.stamp + 1, attempt |-> 1]]
    /\ UNCHANGED <<files, sessions, pruner, exporter, sheet, faults, given, seen>> /\ Observe

\* (A variant that makes one attempt too many.)
NextAttemptLate(t, pc) ==
    sender' = IF sender[t].attempt <= MaxAttempts
              THEN [sender EXCEPT ![t].attempt = @ + 1, ![t].pc = pc]
              ELSE [sender EXCEPT ![t].pc = "rest"]
\* The next attempt begins at pc; after the last one the upload has failed.
NextAttempt(t, pc) ==
    sender' = IF sender[t].attempt < MaxAttempts
              THEN [sender EXCEPT ![t].attempt = @ + 1, ![t].pc = pc]
              ELSE [sender EXCEPT ![t].pc = "rest"]

Acknowledge(t) == /\ sender' = [sender EXCEPT ![t].pc = "rest"]
                  /\ acknowledged' = acknowledged \cup {Batch(t)}

\* 226: the second file comes next, with attempts of its own (Kylin) or what is
\* left of those for the pair (Windows); after it the report is uploaded.
FileSent(t) ==
    \/ /\ FileAt(t) = FirstFile(t) /\ UNCHANGED acknowledged
       /\ sender' = [sender EXCEPT ![t].pc = OtherFile(FileAt(t)),
                                   ![t].attempt = IF t \in Windows THEN @ ELSE 1]
    \/ FileAt(t) # FirstFile(t) /\ Acknowledge(t)

\* An ordinary server makes or empties the file, and fills it.  If a transfer
\* given up has emptied the file meanwhile, it is not whole, and nobody knows.
OpenFile(t) ==
    /\ t \notin verified /\ sender[t].pc \in Kinds
    /\ Put(Batch(t), sender[t].pc, "part")
    /\ torn' = torn \ {<<Batch(t), sender[t].pc>>}
    /\ Go(t, IF sender[t].pc = "html" THEN "put html" ELSE "put json")
    /\ UNCHANGED <<sessions, pruner, exporter, sheet, faults, given, acknowledged>> /\ Observe

FillFile(t) ==
    /\ sender[t].pc \in {"put html", "put json"}
    /\ IF <<Batch(t), FileAt(t)>> \in torn THEN UNCHANGED files
       ELSE Put(Batch(t), FileAt(t), "whole")
    /\ FileSent(t)
    /\ UNCHANGED <<sessions, pruner, exporter, sheet, faults, given, torn>> /\ Observe

\* Whatever fails, a Windows tool begins with the first file again, a Kylin tool
\* with the same.  The server may not know that the transfer has been given up.
PutFails(t) ==
    /\ t \notin verified /\ sender[t].pc # "rest"
    /\ NextAttempt(t, IF t \in Windows THEN "html" ELSE FileAt(t))
    /\ \/ UNCHANGED <<sessions, faults>>
       \/ Fault /\ sessions' = sessions \cup
                     {[of |-> Session(t, FileAt(t)), step |-> "late"]}
    /\ UNCHANGED <<files, pruner, exporter, sheet, given, seen>> /\ Observe

\* With the receiver there is a session for every attempt at a file.
Awaited(s) ==
    /\ sender[s.from].pc \in {"wait json", "wait html"}
    /\ s = Session(s.from, FileAt(s.from))

OpenSession(t) ==
    /\ t \in verified /\ sender[t].pc \in Kinds
    /\ sessions' = sessions \cup
         {[of |-> Session(t, sender[t].pc), step |-> "receiving"]}
    /\ Go(t, IF sender[t].pc = "json" THEN "wait json" ELSE "wait html")
    /\ UNCHANGED <<files, pruner, exporter, sheet, faults, given, seen>> /\ Observe

\* The receiver cannot be reached, has no passive port, or refuses.
NoSession(t) ==
    /\ t \in verified /\ sender[t].pc \in Kinds
    /\ NextAttempt(t, sender[t].pc)
    /\ UNCHANGED <<files, sessions, pruner, exporter, sheet, faults, given, seen>> /\ Observe

\* The attempt takes too long for the tool.  The receiver does not know.
TimeOut(t) ==
    /\ sender[t].pc \in {"wait json", "wait html"}
    /\ sessions' = {s \in sessions : ~(s.of.from = t /\ s.step = "stored" /\ Awaited(s.of))}
    /\ NextAttempt(t, FileAt(t))
    /\ UNCHANGED <<files, pruner, exporter, sheet, faults, given, seen>> /\ Observe

Answered(t) ==
    /\ \E s \in sessions : /\ s.step = "stored" /\ Awaited(s.of) /\ s.of.from = t
                           /\ sessions' = sessions \ {s}
    /\ FileSent(t)
    /\ UNCHANGED <<files, pruner, exporter, sheet, faults, given, torn>> /\ Observe

-----------------------------------------------------------------------------
(* The receiver: everything is received into a file of another name and    *)
(* compared with the size and the hash announced; then the old report is   *)
(* removed and the new one takes its name.                                 *)

Target(s) == <<s.of.from, s.of.stamp>>

\* Size or hash differ, or the connection ends: nothing has happened.
Reject ==
    /\ \E s \in sessions : s.step = "receiving" /\ sessions' = sessions \ {s}
    /\ UNCHANGED <<files, sender, pruner, exporter, sheet, faults, given, seen>> /\ Observe

RemoveOld ==
    /\ \E s \in sessions :
         /\ s.step = "receiving"
         /\ sessions' = (sessions \ {s}) \cup {[s EXCEPT !.step = "renaming"]}
         /\ Put(Target(s), s.of.kind, "none")
    /\ UNCHANGED <<sender, pruner, exporter, sheet, faults, given, seen>> /\ Observe

RenameNew ==
    /\ \E s \in sessions :
         /\ s.step = "renaming"
         /\ sessions' = (sessions \ {s}) \cup
              (IF Awaited(s.of) THEN {[s EXCEPT !.step = "stored"]} ELSE {})
         /\ Put(Target(s), s.of.kind, "whole")
         /\ torn' = torn \ {<<Target(s), s.of.kind>>}
    /\ UNCHANGED <<sender, pruner, exporter, sheet, faults, given, acknowledged>> /\ Observe

RenameFails ==
    /\ Fault
    /\ \E s \in sessions :
         /\ s.step = "renaming" /\ sessions' = sessions \ {s}
         /\ torn' = torn \cup {<<Target(s), s.of.kind>>}
    /\ UNCHANGED <<files, sender, pruner, exporter, sheet, given, acknowledged>> /\ Observe

ReceiverDies ==
    /\ sessions # {} /\ Fault /\ sessions' = {}
    /\ torn' = torn \cup {<<Target(s), s.of.kind>> :
                            s \in {s \in sessions : s.step = "renaming"}}
    /\ UNCHANGED <<files, sender, pruner, exporter, sheet, given, acknowledged>> /\ Observe

\* An ordinary server goes on with a transfer its tool has given up: it empties
\* the file, and perhaps fills it, now or later.
LateWrite ==
    /\ \E s \in sessions : LET file == <<Target(s), s.of.kind>> IN
         /\ s.step = "late"
         /\ \/ /\ Put(Target(s), s.of.kind, "part") /\ torn' = torn \cup {file}
               /\ sessions' \in {sessions, sessions \ {s}}
            \/ /\ Put(Target(s), s.of.kind, "whole") /\ torn' = torn \ {file}
               /\ sessions' = sessions \ {s}
    /\ UNCHANGED <<sender, pruner, exporter, sheet, faults, given, acknowledged>> /\ Observe

-----------------------------------------------------------------------------
(* The pruner.  A batch is complete when both names are there.             *)

\* (A variant that takes half a batch for the newest one.)
NewestOfAny(b) ==
    \A s \in Stamps : s > b[2] => files[<<b[1], s>>] = Missing
Newest(b) == \A s \in Stamps : s > b[2] => ~Paired(<<b[1], s>>)
Obsolete == {b \in Batches : Paired(b) /\ ~Newest(b)} \X Kinds

ListReports ==
    /\ pruner.pc = "rest"
    /\ pruner' = IF Obsolete = {} THEN pruner
                 ELSE [pc |-> "asking", todo |-> Obsolete]
    /\ UNCHANGED <<files, sender, sessions, exporter, sheet, faults, given, seen>> /\ Observe

\* The operator reads the list, takes his time, and says yes or something else.
Confirm ==
    /\ pruner.pc = "asking"
    /\ \/ pruner' = [pruner EXCEPT !.pc = "deleting"]
       \/ pruner' = [pc |-> "rest", todo |-> {}]
    /\ UNCHANGED <<files, sender, sessions, exporter, sheet, faults, given, seen>> /\ Observe

\* Files go by name: older before newer, html before json.
Before(f, g) == /\ f[1][1] = g[1][1]
                /\ \/ f[1][2] < g[1][2]
                   \/ f[1] = g[1] /\ f[2] = "html" /\ g[2] = "json"
DeleteNext ==
    /\ pruner.pc = "deleting"
    /\ \E f \in pruner.todo :
         /\ \A g \in pruner.todo : ~Before(g, f)
         /\ pruner' = IF pruner.todo = {f} THEN [pc |-> "rest", todo |-> {}]
                      ELSE [pruner EXCEPT !.todo = @ \ {f}]
         /\ \/ Put(f[1], f[2], "none") /\ torn' = torn \ {f} /\ UNCHANGED faults
            \/ Fault /\ UNCHANGED <<files, torn>>
    /\ UNCHANGED <<sender, sessions, exporter, sheet, given, acknowledged>> /\ Observe

-----------------------------------------------------------------------------
(* The exporter reads one json file after the other.                       *)

Listed == {b \in Batches : files[b].json # "none"}

\* Without a table (2), or with none that can be used (3), it ends at once.
StartExport ==
    /\ exporter.pc = "rest"
    /\ \/ /\ UsableRows(table) # {}
          /\ exporter' = [exporter EXCEPT !.pc = "reading", !.todo = Listed,
                                          !.late = Batches \ Listed]
       \/ /\ UsableRows(table) = {}
          /\ exporter' = [exporter EXCEPT !.pc = "done", !.exit = 3]
       \/ exporter' = [exporter EXCEPT !.pc = "done", !.exit = 2]
    /\ UNCHANGED <<files, sender, sessions, pruner, sheet, faults, given, seen>> /\ Observe

ReportOf(b) ==
    [platform |-> Machine[b[1]].platform, ip |-> Machine[b[1]].ip,
     mac |-> Machine[b[1]].mac, stamp |-> b[2], source |-> b[1],
     issues |-> found[b[1]].issues, review |-> found[b[1]].review]

\* LoadReport refuses a json file that is not complete; a report without its
\* html file is passed over.  A file that was not there when the reading began
\* may be found or not.
LoadReport ==
    /\ exporter.pc = "reading"
    /\ \E b \in exporter.todo \cup (exporter.late \cap Listed) :
         exporter' = [exporter EXCEPT !.todo = @ \ {b}, !.late = @ \ {b},
                        !.loaded = @ \cup (IF Readable(b) THEN {ReportOf(b)}
                                           ELSE {})]
    /\ UNCHANGED <<files, sender, sessions, pruner, sheet, faults, given, seen>> /\ Observe

\* Without a report there is no new workbook.  One that cannot be written
\* stays as it was, or is spoilt.  Without its log a good one counts as failed.
WriteWorkbook ==
    LET rows == TerminalSheet(table, exporter.loaded)
        End(exit) == exporter' = [exporter EXCEPT !.pc = "done", !.late = {},
                                                  !.exit = exit]
    IN
    /\ exporter.pc = "reading" /\ exporter.todo = {}
    /\ \/ rows = {} /\ End(1) /\ UNCHANGED <<sheet, faults>>
       \/ rows # {} /\ End(0) /\ sheet' = rows /\ UNCHANGED faults
       \/ rows # {} /\ End(1) /\ Fault /\ sheet' \in {sheet, {}, rows}
    /\ UNCHANGED <<files, sender, sessions, pruner, given, seen>> /\ Observe

-----------------------------------------------------------------------------
UploadStep(t) == \/ OpenFile(t) \/ FillFile(t) \/ PutFails(t)
                 \/ OpenSession(t) \/ NoSession(t) \/ TimeOut(t) \/ Answered(t)
ToolStep(t) == Report(t) \/ UploadStep(t)
ReceiverStep == Reject \/ RemoveOld \/ RenameNew \/ RenameFails \/ ReceiverDies \/ LateWrite
PrunerStep == ListReports \/ Confirm \/ DeleteNext
ExporterStep == StartExport \/ LoadReport \/ WriteWorkbook

Next == \/ \E t \in Terminals : ToolStep(t)
        \/ ReceiverStep \/ PrunerStep \/ ExporterStep
Spec == Init /\ [][Next]_vars
-----------------------------------------------------------------------------
SessionType == [from : Terminals, stamp : Stamps, kind : Kinds, no : 1..MaxAttempts]
\* Files, senders, sessions, pruner and exporter have their types.
TypeOK ==
    /\ files \in [Batches -> [Kinds -> {"none", "part", "whole"}]]
    /\ sender \in [Terminals ->
         [pc : {"rest", "html", "json", "put html", "put json", "wait html",
                "wait json"}, stamp : 0..MaxStamp, attempt : 1..MaxAttempts]]
    /\ sessions \subseteq [of : SessionType,
                           step : {"receiving", "renaming", "stored", "late"}]
    /\ pruner \in [pc : {"rest", "asking", "deleting"},
                   todo : SUBSET (Batches \X Kinds)]
    /\ exporter \in [pc : {"rest", "reading", "done"}, todo : SUBSET Batches,
                     late : SUBSET Batches, exit : 0..3,
                     loaded : SUBSET {ReportOf(b) : b \in Batches}]
    /\ faults \in 0..MaxFaults
    /\ verified \subseteq Kylin
    /\ acknowledged \subseteq Batches /\ torn \subseteq Batches \X Kinds
    /\ stable \subseteq Batches

\* The file is whole; or the receiver is just replacing it or was cut off in
\* doing so; or a transfer given up has emptied it.
HasFile(b, k) ==
    \/ files[b][k] = "whole" \/ <<b, k>> \in torn
    \/ \E r \in sessions : r.step = "renaming" /\ Target(r) = b /\ r.of.kind = k

\* The pruner goes by names: on an ordinary server two of them are a pair, even
\* if the upload stopped half way and nobody has called it uploaded.
TakenForComplete(b) == b[1] \notin verified /\ Paired(b) /\ b \notin acknowledged

\* That report or a newer one is there.
Kept(b) ==
    \E s \in Stamps : LET newer == <<b[1], s>> IN
        /\ s >= b[2]
        /\ (\A k \in Kinds : HasFile(newer, k)) \/ TakenForComplete(newer)

\* A report a tool called uploaded stays whole in the directory until a newer
\* one is, whatever the pruner deletes from its old list and whatever arrives
\* late - with these exceptions, which the code has.  The receiver removes the
\* old file before it renames the new one, and may die in between.  An ordinary
\* server may empty a file for a transfer the tool has given up.  And for a
\* newer upload to an ordinary server that stops half way the pruner deletes
\* the older, whole report (README.md line 173 says it keeps the newest
\* complete one).
AcknowledgedReportKept == \A b \in acknowledged : Kept(b)

\* While files come and go, the exporter, which reads one after the other,
\* still gives every terminal a row, at least as new as any pair that could be
\* read all the time, unless two file names claim the newest report.
NewestReported ==
    exporter.pc = "done" /\ exporter.exit = 0 =>
        \A b \in stable : LET r == ReportOf(b) IN
            \/ Conflict(exporter.loaded, r)
            \/ \E row \in sheet : /\ Identity(row.report) = Identity(r)
                                  /\ row.report.stamp >= r.stamp

\* Where the table has every MAC once, the MAC decides who owns a terminal,
\* even if its IP address has meanwhile gone to somebody else.
MacDecides ==
    \A row \in sheet : \A i \in DOMAIN table :
        /\ row.report.mac # NoAddress /\ table[i].mac = row.report.mac
        /\ \A j \in DOMAIN table : table[j].mac = table[i].mac => i = j
        => row.owner = table[i].owner

\* A high or medium finding on any terminal of a person shows in the line of
\* that person, and no terminal with a finding is counted among the normal
\* ones.  (A low finding can be hidden by a review, and everything by the lack
\* of an owner.)
WorstFindingShown ==
    \A row \in sheet : row.owner # Nobody.owner =>
        \E p \in PersonSheet(sheet) :
            /\ row.report \in p.reports
            /\ "high" \in row.report.issues => p.risk = "high"
            /\ "medium" \in row.report.issues => p.risk \in {"medium", "high"}
            /\ \A line \in StatisticsSheet(sheet) :
                 line.dimension = "risk" /\ line.value = "normal" => line.problem = 0
=============================================================================
