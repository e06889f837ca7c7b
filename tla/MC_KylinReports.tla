-------------------------- MODULE MC_KylinReports --------------------------
(* A Windows terminal under two addresses, two Kylin terminals, on one of   *)
(* which (k2) the tool is modelled in detail.                               *)
EXTENDS KylinReports, TLC

CONSTANTS w1, w2, k1, k2, u1, u2, p1, p2

MCMachine == (w1 :> [platform |-> "Windows", ip |-> "ip1", mac |-> "mac1"]) @@
             (w2 :> [platform |-> "Windows", ip |-> "ip2", mac |-> "mac1"]) @@
             (k1 :> [platform |-> "Kylin", ip |-> "ip3", mac |-> ""]) @@
             (k2 :> [platform |-> "Kylin", ip |-> "ip4", mac |-> "mac4"])
MCFindings == [issues : {{}, {"low"}, {"medium", "low"}, {"high"}}, review : BOOLEAN]
Rows == [owner : {"Li", "Wu"}, ip : {"", "ip1", "ip3"}, mac : {"", "mac1", "mac9"}]
First == {a \in Rows : a.owner = "Li"}
MCTables == {<<>>} \cup {<<a>> : a \in First} \cup {<<a, b>> : a \in First, b \in Rows}
MCUnitOf == <<u1, u1, NoUnit, u2>>    \* two names of one unit, one not installed

Plain == [issues |-> {"low"}, review |-> FALSE]
AllPlain == [t \in Terminals |-> Plain]
OneTable == <<[owner |-> "Li", ip |-> "ip1", mac |-> "mac1"]>>
WholePair == [k \in Kinds |-> "whole"]
NoFiles == [b \in Batches |-> Missing]
At(stamps) == [t \in Terminals |-> [pc |-> "rest", stamp |-> stamps[t], attempt |-> 1]]
Done == [t \in Terminals |-> MaxStamp]
On == [active |-> "yes", enabled |-> "yes"]
None == [active |-> "no", enabled |-> "no"]

\* The tool of k2 is not run; what it would find does not matter.
NoTool == /\ svc = [u \in Units |-> On] /\ wifi = [p \in Profiles |-> "gone"]
          /\ radio = FALSE /\ adapter = FALSE
          /\ troubles = MaxTroubles /\ others = MaxOthers

\* Two reports of a Kylin terminal, transfers that are late, faults, pruner; with
\* the receiver or with an ordinary server.
KylinUploads == /\ verified \in {{k1}, {}} /\ found = AllPlain /\ table = <<>> /\ faults = MaxFaults - 1
                /\ files = NoFiles /\ sender = At([Done EXCEPT ![k1] = 0])
\* Its second report arrives while the exporter and the pruner are at work.
KylinReads == /\ verified = {k1} /\ found = AllPlain /\ table = OneTable /\ faults = MaxFaults
              /\ files = [NoFiles EXCEPT ![<<k1, 1>>] = WholePair]
              /\ sender = At([Done EXCEPT ![k1] = 1])
\* Two reports of a Windows terminal, with faults, pruner and exporter.
WindowsUploads == /\ verified = {} /\ found = AllPlain /\ table = OneTable /\ faults = MaxFaults - 1
                  /\ files = NoFiles /\ sender = At([Done EXCEPT ![w1] = 0])
\* A terminal with a new address: whole or torn reports under the old name.
TwoNames == /\ verified = {} /\ found = AllPlain /\ table = OneTable /\ faults = MaxFaults - 1
            /\ \E h, j \in {"none", "part", "whole"} :
                 files = [NoFiles EXCEPT ![<<w2, 2>>] = [html |-> h, json |-> j],
                                         ![<<w2, 1>>] = WholePair,
                                         ![<<w1, 1>>] = WholePair]
            /\ sender = At([Done EXCEPT ![w1] = 1])
\* All tables, and all findings on two terminals; nobody else is at work.
Exporting == /\ verified = {k1} /\ faults = MaxFaults /\ table \in MCTables
             /\ \E f, g \in MCFindings : found = [t \in Terminals |->
                    CASE t = w1 -> f [] t = k1 -> g [] OTHER -> Plain]
             /\ files = [NoFiles EXCEPT ![<<w1, 1>>] = WholePair,
                                        ![<<k1, 1>>] = WholePair]
             /\ sender = At(Done)
\* The tool of k2 on different machines (runs that would upload stop there).
ToolAtWork == /\ verified = {k2} /\ found = AllPlain /\ table = <<>> /\ faults = MaxFaults
              /\ files = NoFiles /\ sender = At(Done)
              /\ \E a \in {On, [On EXCEPT !.active = "between"], [None EXCEPT !.active = "between"]},
                    b \in {On, [On EXCEPT !.enabled = "runtime"]} :
                   svc = [u \in Units |-> IF u = u1 THEN a ELSE b]
              /\ \E c \in {"saved", "active"} :
                   wifi = [p \in Profiles |-> IF p = p1 THEN c ELSE "saved"]
              /\ troubles = 0 /\ others = 0
\* It uploads, with an old report of it at the receiver.
ToolUploads == /\ verified \in {{k2}, {}} /\ found = AllPlain /\ table = <<>> /\ faults = MaxFaults
               /\ files = [NoFiles EXCEPT ![<<k2, 1>>] = WholePair]
               /\ sender = At([Done EXCEPT ![k2] = 1])
               /\ svc = [u \in Units |-> IF u = u1 THEN On ELSE None]
               /\ wifi = [p \in Profiles |-> "gone"]
               /\ radio = FALSE /\ adapter = FALSE
               /\ troubles = MaxTroubles - 1 /\ others = MaxOthers

Others == KylinUploads \/ KylinReads \/ WindowsUploads \/ TwoNames \/ Exporting
MCInit == /\ \/ Others /\ NoTool /\ Tool!Init /\ run.pc = "exited"
             \/ (ToolAtWork \/ ToolUploads) /\ Tool!Init /\ run.pc = "idle"
          /\ Init
MCSpec == MCInit /\ [][BothNext]_<<vars, tool>>
=============================================================================
